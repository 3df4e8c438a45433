---------------------------- MODULE NativeMemory ----------------------------
(***************************************************************************)
(* The allocator everything outside the managed heap lives in (memory.c):  *)
(* heaps, thread stacks, domains, the debugger and its Tcl interpreter.    *)
(* One region of Size units, the unit a PintaNativeBlock; a block is its   *)
(* header and its data.  New blocks slide memory->top; the blocks freed    *)
(* are on a list meant to be in address order, here a sequence of them.    *)
(* The assertions of the code are properties: the release build has none.  *)
(***************************************************************************)
(* A definition named Mutant... is a plausible bug in the one it is named after.  *)
EXTENDS Integers, SequencesExt

CONSTANTS Size,      \* units between memory->start and memory->end
          Lengths,   \* lengths of the blocks asked for, the unit of the header included
          Reallocs   \* whether pinta_memory_realloc is called

ASSUME NativeMemoryAssumption ==
    Size \in Nat /\ Lengths \subseteq Nat \ {0} /\ Reallocs \in BOOLEAN

VARIABLES top,    \* memory->top
          free,   \* the free list
          live    \* the blocks the program holds

vars == <<top, free, live>>

Blocks == [at : 0 .. Size - 1, len : 1 .. Size]
Block(at, len) == [at |-> at, len |-> len]
End(b) == b.at + b.len

Init == top = 0 /\ free = << >> /\ live = {}

-----------------------------------------------------------------------------
\* The end of the block handed out becomes top, wherever the block is.
TopAfter(b) == End(b)

Fits(b, len) == b.len >= len

FirstFit(len) == SelectInSeq(free, LAMBDA b : Fits(b, len))

\* pinta_memory_alloc: where the block goes, none if there is no room for it.
Placed(len) ==
    IF top + len <= Size THEN {Block(top, len)}
    ELSE IF FirstFit(len) = 0 THEN {} ELSE {Block(free[FirstFit(len)].at, len)}

MutantTaken(b) == free   \* found, and left on the list
\* The free list with the place of b taken from it: what a block found there has over
\* stays in its place.
Taken(b) ==
    LET i == FirstFit(b.len)
        rest == free[i].len - b.len
    IN  IF top + b.len <= Size THEN free
        ELSE IF rest = 0 THEN RemoveAt(free, i)
        ELSE ReplaceAt(free, i, Block(End(b), rest))

Alloc(len) ==
    \E b \in Placed(len) :
        /\ top' = TopAfter(b)
        /\ free' = Taken(b)
        /\ live' = live \cup {b}

-----------------------------------------------------------------------------
MutantUnmerged(list, i, b) == InsertAt(list, i + 1, b)
MutantBefore(list, i, b) == InsertAt(list, i, b)   \* linked before, not after
MutantSwallow(list, i, b) ==   \* the block below takes the place of all three, short of the upper one
    IF End(list[i]) = b.at /\ i < Len(list) /\ End(b) = list[i + 1].at
    THEN ReplaceAt(RemoveAt(list, i + 1), i, [list[i] EXCEPT !.len = @ + b.len])
    ELSE InsertAt(list, i + 1, b)
\* The last branches of pinta_memory_free: b goes after the i-th block of the list, is
\* merged into it if they touch, or takes the place of the next one if those touch.
Splice(list, i, b) ==
    LET grown == [list[i] EXCEPT !.len = @ + b.len]
        next(e) == i < Len(list) /\ End(e) = list[i + 1].at
    IN  CASE End(list[i]) = b.at /\ next(grown) ->
               ReplaceAt(RemoveAt(list, i + 1), i, [grown EXCEPT !.len = @ + list[i + 1].len])
          [] End(list[i]) = b.at /\ ~next(grown) -> ReplaceAt(list, i, grown)
          [] End(list[i]) # b.at /\ next(b) -> ReplaceAt(list, i + 1, b)
          [] End(list[i]) # b.at /\ ~next(b) -> InsertAt(list, i + 1, b)

\* pinta_memory_free.  In a list out of order the place of b may be missing: the code
\* then dereferences NULL, and nothing is said of what follows.
Freed(list, b) ==
    LET place == {i \in DOMAIN list : /\ list[i].at < b.at
                                      /\ i = Len(list) \/ list[i + 1].at > b.at}
    IN  CASE list = << >> -> {<<b>>}
          [] list # << >> /\ list[1].at > b.at /\ End(b) = list[1].at ->
               {ReplaceAt(list, 1, Block(b.at, b.len + list[1].len))}
          [] list # << >> /\ list[1].at > b.at /\ End(b) # list[1].at -> {<<b>> \o list}
          [] list # << >> /\ list[1].at <= b.at ->
               {Splice(list, i, b) : i \in {j \in place : \A k \in place : j <= k}}

Free(b) ==
    /\ b \in live
    /\ live' = live \ {b}
    /\ free' \in Freed(free, b)
    /\ UNCHANGED top

-----------------------------------------------------------------------------
(* pinta_memory_realloc, which nothing in the repository calls *)

\* The end of a block cut off: before the first free block above it, or merged with that
\* one; at the head of the list if there is none.
Shrunk(list, rest) ==
    LET i == SelectInSeq(list, LAMBDA f : f.at >= rest.at)
    IN  CASE i = 0 -> <<rest>> \o list
          [] i # 0 /\ list[i].at = End(rest) ->
               ReplaceAt(list, i, Block(rest.at, rest.len + list[i].len))
          [] i # 0 /\ list[i].at # End(rest) -> InsertAt(list, i, rest)

Shrink(b, len) ==
    /\ Reallocs /\ b \in live /\ len < b.len
    /\ free' = Shrunk(free, Block(b.at + len, b.len - len))
    /\ live' = (live \ {b}) \cup {Block(b.at, len)}
    /\ UNCHANGED top

Grow(b, len) ==
    /\ Reallocs /\ b \in live /\ len > b.len
    /\ \E to \in Placed(len) :
         /\ top' = TopAfter(to)
         /\ free' \in Freed(Taken(to), b)
         /\ live' = (live \ {b}) \cup {to}

Next == \/ \E len \in Lengths : Alloc(len) \/ \E b \in live : Shrink(b, len) \/ Grow(b, len)
        \/ \E b \in live : Free(b)

Spec == Init /\ [][Next]_vars

-----------------------------------------------------------------------------
(* Properties *)

\* Type invariant of the allocator.
TypeOK == top \in 0 .. Size /\ free \in Seq(Blocks) /\ live \subseteq Blocks

Apart(b, c) == End(b) <= c.at \/ End(c) <= b.at

\* Every block that is held or free lies below top: until an allocation takes a block
\* off the free list, which moves top back to the end of that block.
TopAboveBlocks ==
    /\ \A b \in live : End(b) <= top
    /\ \A i \in DOMAIN free : End(free[i]) <= top

\* "Blocks a and b are distinct" (memory_tests.c): no two blocks handed out overlap.
LiveBlocksDistinct == \A b, c \in live : b # c => Apart(b, c)

\* What is on the free list is held by no one, and on the list once.
FreeIsNotHeld ==
    /\ \A i \in DOMAIN free : \A b \in live : Apart(free[i], b)
    /\ \A i, j \in DOMAIN free : i # j => Apart(free[i], free[j])

\* "current->data.free.prev == NULL || current > current->data.free.prev" (an assertion
\* of pinta_memory_free): the free list is in address order.
FreeListOrdered == \A i \in 1 .. Len(free) - 1 : free[i].at < free[i + 1].at

\* Frees and allocations, in whatever order, keep the free list in address order, until
\* top moves back: only a reallocation that shrinks a block does not.
OnlyShrinkDisorders ==
    [][TopAboveBlocks => FreeListOrdered' \/ \E len \in Lengths, b \in live : Shrink(b, len)]_vars

\* Free blocks that touch have been merged.
FreeListMerged == \A i, j \in DOMAIN free : End(free[i]) # free[j].at

\* Every unit below top is in a block, held or free.
UnitsAccounted ==
    \A u \in 0 .. top - 1 : \E b \in live \cup {free[i] : i \in DOMAIN free} : b.at <= u /\ u < End(b)

\* A block between two free ones that touches the upper one only.
TouchesUpperOnly(b) ==
    \E i \in 1 .. Len(free) - 1 : free[i].at < b.at /\ End(free[i]) # b.at /\ End(b) = free[i + 1].at

\* "Only one free block is present" once all blocks have been freed (memory_tests.c): no
\* unit is ever lost to the program and the free list both, whatever is allocated,
\* resized and freed in whatever order; but when such a block is freed, which takes the
\* place of the upper one with its own length (memory.c:305).
OnlySuchFreesLoseUnits ==
    [][UnitsAccounted => UnitsAccounted' \/ \E b \in live \ live' : TouchesUpperOnly(b)]_vars

\* The states before top first moves back over a block, or the list gets out of order.
NotYetBroken == TopAboveBlocks /\ FreeListOrdered
=============================================================================
