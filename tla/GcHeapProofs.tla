---------------------------- MODULE GcHeapProofs ----------------------------
(***************************************************************************)
(* Proofs about GcHeap: what the mark phase, the compactor and the steps   *)
(* of the program leave, for heaps of every size, objects of every length  *)
(* and relocation tables of every size.                                    *)
(*                                                                         *)
(* A compaction may leave an object behind, above a pinned one, that it    *)
(* does not count as the last live one, and cut it off when it ends.       *)
(* UnbrokenSpec is the executions before such a step, WholeSpec those up   *)
(* to the first step that loses the program an object, that step included. *)
(* The program may pin any objects it likes in both; a program that pins   *)
(* none never loses any, and the theorems about Spec follow.               *)
(***************************************************************************)
EXTENDS HeapProofs

-----------------------------------------------------------------------------
(* The mark phase *)

\* What the references of A and A itself lead to.
Onward(h, A) == UNION {{a, h.mem[a].ref} \ {NULL} : a \in A}

\* The references of the roots and of the objects are to objects.
RefsLand(h, roots) ==
    /\ roots \subseteq Objects(h) \cup {NULL}
    /\ \A a \in Objects(h) : h.mem[a].ref \in Objects(h) \cup {NULL}

\* A holds the roots, and with an object what it refers to.
HoldsReachable(h, roots, A) ==
    /\ A \subseteq Objects(h) /\ roots \ {NULL} \subseteq A
    /\ \A a \in A : h.mem[a].ref \in A \cup {NULL}

LEMMA ObjectsFinite ==
    ASSUME NEW h
    PROVE  IsFiniteSet(Objects(h))
<1>1. IsFiniteSet(Addr)
  BY FS_Interval, AddrNumbers DEF Addr
<1> QED BY <1>1, FS_Subset DEF Objects

\* The objects marked are those the references lead to, however long the way, and no others.
LEMMA MarkedHolds ==
    ASSUME NEW h, HeapType(h), RefsLand(h, {root[r] : r \in Roots})
    PROVE  /\ HoldsReachable(h, {root[r] : r \in Roots}, Marked(h))
           /\ \A A : HoldsReachable(h, {root[r] : r \in Roots}, A) => Marked(h) \subseteq A
<1> DEFINE O == Objects(h)
           start == {root[r] : r \in Roots} \ {NULL}
           to == [a \in O |-> h.mem[a].ref]
           reach == CHOOSE f : f = [n \in Nat |-> IF n = 0 THEN start ELSE Onward(h, f[n - 1])]
<1>1. start \in SUBSET O /\ to \in [O -> O \cup {NULL}]
  BY DEF RefsLand
<1>2. NULL \notin O
  BY AddrNumbers DEF Objects
<1>3. IsFiniteSet(O)
  BY ObjectsFinite
<1>4. Marked(h) = reach[Cardinality(O)]
  BY DEF Marked, Onward
<1>5. \A A \in SUBSET O : Onward(h, A) = Leads(to, NULL, A)
  BY DEF Onward, Leads
<1> HIDE DEF O, start, to
<1>6. reach = [n \in Nat |-> IF n = 0 THEN start ELSE Onward(h, reach[n - 1])]
  <2>1. PICK f : AreWays(O, start, to, NULL, f)
    BY <1>1, <1>2, WaysExist
  <2>2. /\ f = [n \in Nat |-> IF n = 0 THEN start ELSE Leads(to, NULL, f[n - 1])]
        /\ \A n \in Nat : f[n] \in SUBSET O
    BY <2>1 DEF AreWays
  <2>3. \A n \in Nat : n # 0 => Leads(to, NULL, f[n - 1]) = Onward(h, f[n - 1])
    <3>1. \A n \in Nat : n # 0 => n - 1 \in Nat
      OBVIOUS
    <3> QED BY <3>1, <2>2, <1>5
  <2>4. f = [n \in Nat |-> IF n = 0 THEN start ELSE Onward(h, f[n - 1])]
    BY <2>2, <2>3
  <2> QED BY <2>4
<1> HIDE DEF reach
<1>7. reach[0] = start /\ \A n \in Nat : reach[n + 1] = Onward(h, reach[n])
  <2>1. \A n \in Nat : n + 1 \in Nat /\ n + 1 # 0 /\ (n + 1) - 1 = n
    OBVIOUS
  <2> QED BY <2>1, <1>6
<1>8. LeastFrom(O, start, to, NULL, reach[Cardinality(O)])
  BY <1>1, <1>2, <1>3, <1>5, <1>7, WaysEnd
<1> DEFINE M == Marked(h)
<1>9. M \subseteq O /\ start \subseteq M /\ \A a \in M : to[a] \in M \cup {NULL}
  BY <1>4, <1>8 DEF LeastFrom
<1>10. \A a \in O : to[a] = h.mem[a].ref
  BY DEF to
<1> HIDE DEF M
<1>11. \A a \in M : h.mem[a].ref \in M \cup {NULL}
  BY <1>9, <1>10
<1>12. M \subseteq Objects(h) /\ {root[r] : r \in Roots} \ {NULL} \subseteq M
  BY <1>9 DEF O, start
<1>13. ASSUME NEW A, HoldsReachable(h, {root[r] : r \in Roots}, A) PROVE M \subseteq A
  <2>1. A \in SUBSET O /\ start \subseteq A /\ \A a \in A : h.mem[a].ref \in A \cup {NULL}
    BY <1>13 DEF HoldsReachable, O, start
  <2>2. \A a \in A : to[a] \in A \cup {NULL}
    BY <2>1, <1>10
  <2> QED BY <2>1, <2>2, <1>4, <1>8 DEF LeastFrom, M
<1> QED BY <1>11, <1>12, <1>13 DEF HoldsReachable, M

-----------------------------------------------------------------------------
(* The inductive invariant *)

Moves == [start : Addr, end : 0 .. HeapSize, offset : 0 .. HeapSize]
Requests == [root : Roots, len : Lengths, id : Ids]
Comps == [current : 0 .. HeapSize, alive_last : Ref, free_last : Ref]

\* What was moved went down, to where there is an address.
Table(t) == t \in Seq(Moves) /\ Len(t) <= RelocMax /\ \A i \in DOMAIN t : t[i].offset <= t[i].start

\* Where, by the table t, what was at a is now.
RelocatedBy(t, a) ==
    LET hit == {i \in DOMAIN t : t[i].start <= a /\ a < t[i].end}
    IN  IF hit = {} THEN a ELSE a - t[CHOOSE i \in hit : TRUE].offset

\* Every reference is to an object, read through the table.
Closed(h, roots, t) ==
    /\ \A r \in Roots : RelocatedBy(t, roots[r]) \in Objects(h) \cup {NULL}
    /\ \A a \in Objects(h) : RelocatedBy(t, h.mem[a].ref) \in Objects(h) \cup {NULL}

\* Below slot a there are only objects, the last of them at last.
Packed(h, a, last) ==
    /\ \A x \in Blocks(h) : x < a => x \in Objects(h)
    /\ \/ last = NULL /\ a = 0
       \/ last \in Objects(h) /\ After(h, last) = a

\* The slot up to which the compactor has looked at blocks: past the free block that a slide
\* or a jump leaves for it to meet again.
Scanned(h, k) == IF k.current \in FreeBlocks(h) THEN After(h, k.current) ELSE k.current

\* The last live block lies below the current slot, and so does every free block but that
\* carried along and those above it, if one is carried along.
Roaming(h, k, t) ==
    /\ k.current \in Bounds(h)
    /\ k.alive_last \in Objects(h) \cup {NULL} /\ k.alive_last < k.current
    /\ k.free_last # NULL =>
          /\ k.free_last \in FreeBlocks(h) /\ k.free_last <= k.current
          /\ \A a \in FreeBlocks(h) : a < k.current => a <= k.free_last
    /\ \A i \in DOMAIN t : t[i].end <= Scanned(h, k)

\* An object below the current slot is pinned.
PinBelow(h, k) == \E a \in Objects(h) : a < k.current /\ h.mem[a].pinned

\* As long as none is, the compactor leaves objects below the current slot, and above them at
\* most one free block, which ends there, or begins there after a slide.
Compacting(h, k) ==
    \/ k.free_last = NULL /\ Packed(h, k.current, k.alive_last)
    \/ /\ k.free_last \in FreeBlocks(h)
       /\ k.free_last = k.current \/ After(h, k.free_last) = k.current
       /\ Packed(h, k.free_last, k.alive_last)

GcInv ==
    /\ Sound(heap) /\ Hinted(heap)
    /\ root \in [Roots -> Ref] /\ comp \in Comps /\ Table(reloc)
    /\ Closed(heap, root, reloc)
    /\ \/ pc = "run" /\ request = NoRequest /\ TopEnds(heap) /\ reloc = << >>
       \/ /\ pc = "compact" /\ (request = NoRequest \/ request \in Requests)
          /\ Roaming(heap, comp, reloc) /\ (PinBelow(heap, comp) \/ Compacting(heap, comp))
       \/ pc = "retry" /\ request \in Requests /\ TopEnds(heap) /\ reloc = << >>

\* Where no object is pinned more is true.
Unpinned(h) == \A a \in Objects(h) : ~h.mem[a].pinned

BareInv ==
    /\ GcInv /\ Unpinned(heap)
    /\ pc # "compact" => Merged(heap)
    /\ pc = "retry" => FreeBlocks(heap) = {}

-----------------------------------------------------------------------------
(* What the compactor does to the heap *)

\* Heap g is h with the free block c joined to the free block p before it.
Joined(h, p, c, g) ==
    /\ Sound(g) /\ g.top = h.top
    /\ FreeBlocks(g) = FreeBlocks(h) \ {c} /\ Objects(g) = Objects(h) /\ Bounds(g) = Bounds(h) \ {c}
    /\ \A a \in Objects(h) : g.mem[a] = h.mem[a] /\ After(g, a) = After(h, a)
    /\ After(g, p) = After(h, c)
    /\ Hinted(h) => Hinted(g)

LEMMA MergeJoins ==
    ASSUME NEW h, Sound(h), NEW p \in FreeBlocks(h), NEW c \in FreeBlocks(h), After(h, p) = c
    PROVE  Joined(h, p, c, FreeMerge(h, p))
<1> DEFINE F == FreeBlocks(h)
           r == FreeRemove(h, c)
           len == h.mem[p].len + h.mem[c].len
           q == [r.mem[p] EXCEPT !.len = len]
           m == [r.mem EXCEPT ![p] = q, ![c] = Data]
           l == IF len > r.largest THEN len ELSE r.largest
           g == [r EXCEPT !.mem = m, !.free = r.free, !.largest = l]
<1>1. HeapType(h) /\ Tiled(h) /\ OnList(h, F)
  BY DEF Sound
<1>2. /\ c \in Blocks(h) /\ c \in Addr /\ c \in Int /\ 0 <= c /\ c < h.top
      /\ h.mem[c].len \in Int /\ 1 <= h.mem[c].len /\ After(h, c) = c + h.mem[c].len /\ After(h, c) < HeapSize
      /\ After(h, c) \in Int
  BY FreeBlockAt DEF Blocks
<1>3. /\ p \in Blocks(h) /\ p \in Addr /\ p \in Int /\ 0 <= p /\ p # c /\ p \in Ref
      /\ h.mem[p].len \in Int /\ 1 <= h.mem[p].len /\ c = p + h.mem[p].len
  BY FreeBlockAt DEF Ref
<1>4. len \in 1 .. HeapSize /\ len \in 0 .. HeapSize /\ p + len = After(h, c)
  <2>1. HeapSize \in Int
    BY AddrNumbers
  <2> QED BY <1>2, <1>3, <2>1
<1>5. HeapType(r) /\ Relinked(h, r, F \ {c}) /\ OnList(r, F \ {c})
  BY <1>1, RemoveLinks
<1>6. /\ r.top = h.top /\ r.largest = h.largest /\ r.mem[c] = h.mem[c]
      /\ \A a \in Addr : SameButLinks(r.mem[a], h.mem[a])
      /\ \A a \in Addr : a \notin F => r.mem[a] = h.mem[a]
  <2>1. \A a \in Addr : IF a \in F \ {c} THEN SameButLinks(r.mem[a], h.mem[a]) ELSE r.mem[a] = h.mem[a]
    BY <1>5 DEF Relinked
  <2> QED BY <1>2, <1>5, <2>1 DEF Relinked, SameButLinks
<1>7. /\ r \in Heaps /\ r.mem \in [Addr -> Block] /\ r.free \in Ref /\ r.largest \in 0 .. HeapSize
      /\ \A x \in Addr : r.mem[x].kind = "data" => r.mem[x] = Data
  BY <1>5 DEF HeapType, Heaps
<1>8. r.mem[p] \in Block /\ r.mem[p].kind = "free" /\ r.mem[p].len = h.mem[p].len
  BY <1>3, <1>6, <1>7 DEF SameButLinks, FreeBlocks
<1>9. FreeMerge(h, p) = g
  <2>1. After(h, p) = c /\ ~(c >= h.top) /\ IsFree(h, c)
    <3>1. h.top \in Int
      BY <1>1, HeapFields, AddrNumbers
    <3> QED BY <3>1, <1>2 DEF IsFree, FreeBlocks
  <2> DEFINE r1 == [r EXCEPT !.mem[p].len = len, !.mem[c] = Data]
  <2>2. FreeMerge(h, p) = [r1 EXCEPT !.largest = IF len > r1.largest THEN len ELSE r1.largest]
    BY <2>1 DEF FreeMerge
  <2>3. r1 = [r EXCEPT !.mem = m]
    <3>1. [r.mem EXCEPT ![p].len = len, ![c] = Data] = m
      BY <1>2, <1>3, <1>7
    <3> HIDE DEF m, len
    <3> QED BY <3>1, <1>7 DEF Heaps
  <2> HIDE DEF r1, r, m, len
  <2> QED BY <2>2, <2>3, <1>7 DEF Heaps
<1> HIDE DEF r, len
<1>10. q \in Block /\ q.kind = "free" /\ q.prev = r.mem[p].prev /\ q.next = r.mem[p].next
       /\ q.pinned = r.mem[p].pinned /\ q.len = len
  BY <1>4, <1>8 DEF Block
<1>11. m[c] = Data /\ m[p] = q /\ \A x \in Addr : x # c /\ x # p => m[x] = r.mem[x]
  BY <1>2, <1>3, <1>7
<1>12. m \in [Addr -> Block]
  BY <1>2, <1>3, <1>7, <1>10, DataIsBlock
<1> HIDE DEF q, m
<1>13. \A x \in Addr : m[x].kind = "data" => m[x] = Data
  BY <1>7, <1>10, <1>11
<1>14. l \in 0 .. HeapSize /\ len <= l /\ r.largest <= l
  BY <1>4, <1>7
<1> HIDE DEF l
<1>15. HeapType(g) /\ g.mem = m /\ g.free = r.free /\ g.largest = l /\ g.top = r.top
  <2>1. IsRewritten(r, m, r.free, l, g)
    BY <1>5, <1>7, <1>12, <1>13, <1>14, HeadersSet
  <2> QED BY <2>1 DEF IsRewritten
<1> HIDE DEF g
<1>16. IsMerged(r, p, c, g)
  <2>1. r.mem[c].len = h.mem[c].len
    BY <1>6
  <2>2. q.len = r.mem[p].len + r.mem[c].len
    BY <1>8, <1>10, <2>1 DEF len
  <2> QED BY <1>10, <1>11, <1>14, <1>15, <2>2 DEF IsMerged
<1>17. /\ Tiled(r) /\ Blocks(r) = Blocks(h) /\ Bounds(r) = Bounds(h)
       /\ FreeBlocks(r) = F /\ Objects(r) = Objects(h)
       /\ \A x \in Addr : After(r, x) = After(h, x)
  BY <1>1, <1>5, <1>6, SameBlocks DEF SameButLinks
<1>18. /\ Tiled(g) /\ Blocks(g) = Blocks(r) \ {c} /\ Bounds(g) = Bounds(r) \ {c}
       /\ \A x \in Blocks(r) : x # c /\ x # p => After(g, x) = After(r, x)
       /\ After(g, p) = After(r, c)
  <2>1. After(r, p) = c
    BY <1>3, <1>17
  <2> QED BY <1>2, <1>3, <1>5, <1>16, <1>17, <2>1, MergedTiles
<1>19. /\ FreeBlocks(g) = F \ {c} /\ Objects(g) = Objects(h)
       /\ \A a \in Objects(h) : g.mem[a] = h.mem[a] /\ After(g, a) = After(h, a)
  <2>1. \A x \in Addr : x # c => g.mem[x].kind = h.mem[x].kind
    <3>1. g.mem[p].kind = "free" /\ h.mem[p].kind = "free"
      BY <1>10, <1>11, <1>15 DEF FreeBlocks
    <3>2. \A x \in Addr : x # c /\ x # p => g.mem[x] = r.mem[x]
      BY <1>11, <1>15
    <3> QED BY <3>1, <3>2, <1>6 DEF SameButLinks
  <2>2. g.mem[c].kind = "data" /\ h.mem[c].kind = "free"
    BY <1>11, <1>15, DataIsBlock DEF FreeBlocks
  <2>3. FreeBlocks(g) = F \ {c}
    BY <1>6, <1>15, <2>1, <2>2 DEF FreeBlocks
  <2>4. Objects(g) = Objects(h)
    BY <1>6, <1>15, <2>1, <2>2 DEF Objects, InUse, IsObject
  <2>5. ASSUME NEW a \in Objects(h) PROVE g.mem[a] = h.mem[a] /\ After(g, a) = After(h, a)
    <3>1. a \in Addr /\ a \notin F /\ a # c /\ a # p /\ a \in Blocks(h)
      BY <1>1, BlocksAre DEF Objects
    <3>2. g.mem[a] = r.mem[a] /\ r.mem[a] = h.mem[a]
      BY <3>1, <1>6, <1>11, <1>15
    <3> QED BY <3>2 DEF After
  <2> QED BY <2>3, <2>4, <2>5
<1>20. OnList(g, F \ {c})
  <2>1. F \ {c} \subseteq Addr
    BY <1>5 DEF OnList
  <2>2. \A a \in F \ {c} : g.mem[a].kind = "free" /\ g.mem[a].prev = r.mem[a].prev /\ g.mem[a].next = r.mem[a].next
    <3>1. \A a \in F \ {c} : a # p => g.mem[a] = r.mem[a]
      BY <2>1, <1>11, <1>15
    <3>2. g.mem[p].kind = "free" /\ g.mem[p].prev = r.mem[p].prev /\ g.mem[p].next = r.mem[p].next
      BY <1>10, <1>11, <1>15
    <3>3. \A a \in F \ {c} : r.mem[a].kind = "free"
      BY <1>5 DEF OnList
    <3> QED BY <3>1, <3>2, <3>3
  <2> HIDE DEF F
  <2> QED BY <1>5, <1>15, <2>1, <2>2 DEF OnList, Linked
<1>21. Hinted(h) => Hinted(g)
  <2> SUFFICES ASSUME Hinted(h), NEW a \in FreeBlocks(g) PROVE g.mem[a].len <= g.largest
    BY DEF Hinted
  <2>1. a \in Addr /\ a \in F /\ a # c /\ h.mem[a].len <= h.largest
    BY <1>6, <1>15, <1>19 DEF Hinted, FreeBlocks
  <2>2. CASE a = p
    BY <2>2, <1>10, <1>11, <1>14, <1>15
  <2>3. CASE a # p
    <3>1. g.mem[a].len = h.mem[a].len
      BY <2>1, <2>3, <1>6, <1>11, <1>15 DEF SameButLinks
    <3>2. h.largest \in Int /\ l \in Int /\ h.largest <= l /\ h.mem[a].len \in Int
      <4>1. h.mem[a] \in Block /\ h.largest \in 0 .. HeapSize
        BY <2>1, <1>1, HeapFields
      <4>2. HeapSize \in Int
        BY AddrNumbers
      <4> QED BY <4>1, <4>2, <1>6, <1>14, BlockFields DEF Block
    <3> QED BY <3>1, <3>2, <2>1, <1>15
  <2> QED BY <2>2, <2>3
<1>22. Sound(g)
  BY <1>15, <1>18, <1>19, <1>20 DEF Sound
<1> QED BY <1>2, <1>6, <1>9, <1>15, <1>17, <1>18, <1>19, <1>21, <1>22 DEF Joined

\* Heap g is h with the object that was at c moved down to the slot to.
Shifted(h, to, c, g) ==
    /\ Sound(g) /\ g.top = h.top /\ (Hinted(h) => Hinted(g))
    /\ Objects(g) = (Objects(h) \ {c}) \cup {to} /\ g.mem[to] = h.mem[c]
    /\ \A a \in Objects(h) : a # c => g.mem[a] = h.mem[a]

\* Heap g is h with the object c and the free block to before it in each other's place.
Slid(h, to, c, hole, g) ==
    /\ Shifted(h, to, c, g)
    /\ FreeBlocks(g) = (FreeBlocks(h) \ {to}) \cup {hole}
    /\ \A x \in Bounds(h) : x # c => x \in Bounds(g)
    /\ After(g, to) = hole /\ After(g, hole) = After(h, c) /\ to < hole /\ hole < After(h, c)
    /\ \A a \in Objects(h) : a # c => After(g, a) = After(h, a)

\* An object with a free block before it, and the slots of both.
LEMMA ObjectAfterFree ==
    ASSUME NEW h, Sound(h), NEW to \in FreeBlocks(h), NEW c \in Objects(h), After(h, to) = c,
           NEW hole, hole = to + h.mem[c].len
    PROVE  /\ to \in Blocks(h) /\ to \in Addr /\ to \in Int /\ c \in Blocks(h) /\ c \in Addr /\ c \in Int
           /\ h.mem[c] \in Block /\ h.mem[c].kind = "object"
           /\ h.mem[to].len \in 1 .. HeapSize /\ h.mem[c].len \in Int
           /\ hole \in Addr /\ hole \in Int /\ to < hole /\ hole < After(h, c) /\ hole + h.mem[to].len = After(h, c)
           /\ After(h, c) \in Int /\ After(h, c) \in Bounds(h) /\ to < c /\ c < After(h, c)
           /\ \A x \in Blocks(h) : x \in Int /\ (x < to \/ x = to \/ x = c \/ After(h, c) <= x)
           /\ \A x \in Bounds(h) : x \in Int /\ (x < to \/ x = to \/ x = c \/ After(h, c) <= x)
<1>1. HeapType(h) /\ Tiled(h)
  BY DEF Sound
<1>2. /\ to \in Blocks(h) /\ to \in Addr /\ to \in Int /\ 0 <= to
      /\ h.mem[to].len \in Int /\ 1 <= h.mem[to].len /\ c = to + h.mem[to].len
  BY FreeBlockAt
<1>3. c \in Blocks(h) /\ c \in Addr /\ h.mem[c] \in Block /\ h.mem[c].kind = "object"
  BY <1>1, BlocksAre, HeapFields DEF Objects, InUse, IsObject
<1>4. h.mem[c].len \in Int /\ 1 <= h.mem[c].len /\ h.mem[to].len \in 1 .. HeapSize
  <2>1. h.mem[to] \in Block
    BY <1>1, <1>2, HeapFields
  <2> QED BY <1>3, <2>1, BlockFields DEF Block
<1> DEFINE e == After(h, c)
<1>5. /\ c \in Int /\ e \in Bounds(h) /\ e \in Int /\ c < e /\ e < HeapSize /\ e = c + h.mem[c].len
  <2>1. e \in Bounds(h) /\ c < e /\ e = c + h.mem[c].len /\ c \in Int
    BY <1>1, <1>3, Tiles
  <2>2. e \in Addr
    BY <2>1, <1>1, Tiles
  <2> QED BY <2>1, <2>2, AddrNumbers
<1>6. ASSUME NEW x \in Bounds(h) PROVE x \in Int /\ (x < to \/ x = to \/ x = c \/ e <= x)
  <2>1. x \in Int
    BY <1>1, Tiles
  <2>2. to < x => c <= x
    BY <1>1, <1>2, Tiles
  <2>3. c < x => e <= x
    BY <1>1, <1>3, Tiles
  <2> HIDE DEF e
  <2> QED BY <2>1, <2>2, <2>3, <1>2, <1>5
<1>7. \A x \in Blocks(h) : x \in Bounds(h)
  BY DEF Bounds
<1>8. hole \in Int /\ to < hole /\ hole < e /\ hole + h.mem[to].len = e /\ to < c
  BY <1>2, <1>4, <1>5
<1>9. hole \in Addr
  BY <1>2, <1>5, <1>8, HeapSizeAssumption DEF Addr
<1> QED BY <1>2, <1>3, <1>4, <1>5, <1>6, <1>7, <1>8, <1>9

\* What the slots hold after that.
IsSlid(h, to, c, hole, g) ==
    /\ HeapType(g) /\ g.top = h.top /\ g.largest = h.largest /\ OnList(g, (FreeBlocks(h) \ {to}) \cup {hole})
    /\ g.mem[to] = h.mem[c]
    /\ g.mem[hole].kind = "free" /\ g.mem[hole].len = h.mem[to].len /\ ~g.mem[hole].pinned
    /\ \A x \in Addr : to < x /\ x < After(h, c) /\ x # hole => g.mem[x] = Data
    /\ \A x \in Addr : x < to \/ After(h, c) <= x =>
          SameButLinks(g.mem[x], h.mem[x]) /\ (x \notin FreeBlocks(h) => g.mem[x] = h.mem[x])

LEMMA SlideWrites ==
    ASSUME NEW h, Sound(h), NEW to \in FreeBlocks(h), NEW c \in Objects(h), After(h, to) = c,
           NEW hole, hole = to + h.mem[c].len,
           NEW r, r = FreeRemove(h, to),
           NEW w, w = [r EXCEPT !.mem = WriteBlock(r.mem, to, h.mem[c])],
           NEW g, g = FreeInsertAfter(w, h.mem[to].prev, hole, h.mem[to].len)
    PROVE  IsSlid(h, to, c, hole, g)
<1> DEFINE F == FreeBlocks(h)
           e == After(h, c)
           b == h.mem[c]
           len == h.mem[to].len
           before == h.mem[to].prev
<1>1. HeapType(h) /\ OnList(h, F)
  BY DEF Sound
<1>2. /\ to \in Addr /\ to \in Int /\ c \in Int /\ b \in Block /\ b.kind = "object" /\ b.len \in Int
      /\ len \in 1 .. HeapSize /\ len \in Int
      /\ hole \in Addr /\ hole \in Int /\ to < hole /\ hole < e /\ hole + len = e
      /\ e \in Int /\ to < c /\ c < e
      /\ \A x \in Blocks(h) : x \in Int /\ (x < to \/ x = to \/ x = c \/ e <= x)
  BY ObjectAfterFree
<1>3. hole = to + b.len
  OBVIOUS
<1> HIDE DEF e, b, len
<1>4. F \subseteq Blocks(h) /\ F \subseteq Addr /\ c \notin F
  BY <1>1, BlocksAre DEF FreeBlocks
<1>5. HeapType(r) /\ Relinked(h, r, F \ {to}) /\ OnList(r, F \ {to})
  BY <1>1, RemoveLinks
<1> DEFINE G == F \ {to}
<1>6. G \subseteq Addr /\ \A x \in G : x \in Int /\ (x < to \/ e <= x)
  BY <1>2, <1>4
<1> HIDE DEF G
<1>7. \A x \in Addr : /\ x \in Int
                      /\ Within(x, to, b.len) <=> to < x /\ x < hole
                      /\ Within(x, hole, len) <=> hole < x /\ x < e
  <2>1. \A x \in Addr : x \in Int
    BY AddrNumbers
  <2> QED BY <2>1, <1>2, <1>3 DEF Within
<1>8. IsWritten(r, to, b, w)
  <2>1. IsWritten(r, to, b, [r EXCEPT !.mem = WriteBlock(r.mem, to, b)])
    BY <1>2, <1>5, Written
  <2> QED BY <2>1 DEF b
<1>9. /\ HeapType(w) /\ w.top = r.top /\ w.free = r.free /\ w.largest = r.largest
      /\ \A x \in Addr : w.mem[x] = IF x = to THEN b ELSE IF Within(x, to, b.len) THEN Data ELSE r.mem[x]
  BY <1>8 DEF IsWritten
<1>10. OnList(w, G)
  <2>1. \A a \in G : w.mem[a] = r.mem[a]
    <3> SUFFICES ASSUME NEW a \in G PROVE w.mem[a] = r.mem[a]
      OBVIOUS
    <3>1. a \in Addr /\ a # to /\ ~Within(a, to, b.len)
      BY <1>2, <1>6, <1>7
    <3> QED BY <3>1, <1>9
  <2>2. SameOn(G, r, w)
    BY <2>1, <1>9 DEF SameOn
  <2>3. OnList(r, G)
    BY <1>5 DEF G
  <2> QED BY <2>2, <2>3, SameList
<1>11. hole \notin G /\ \A a \in G : ~Within(a, hole, len)
  BY <1>2, <1>6, <1>7
<1>12. IsBefore(G, hole, before)
  <2>1. IsBefore(F, to, before)
    BY <1>1, Neighbours
  <2> HIDE DEF before
  <2>2. before \in F \cup {NULL} /\ before < to /\ before \in Int /\ \A y \in F : y < to => y <= before
    BY <2>1, <1>4, AddrNumbers DEF IsBefore
  <2>3. before \in G \cup {NULL} /\ before < hole
    BY <2>2, <1>2 DEF G
  <2>4. \A y \in G : y < hole => y <= before
    <3>1. \A y \in G : y \in F
      BY DEF G
    <3> QED BY <3>1, <2>2, <1>2, <1>6
  <2> QED BY <2>3, <2>4 DEF IsBefore
<1>13. IsInserted(w, G, hole, len, g)
  <2>1. g = FreeInsertAfter(w, before, hole, len)
    BY DEF len
  <2>2. HeapType(w) /\ hole \in Addr /\ len \in 1 .. HeapSize
    BY <1>2, <1>9
  <2> HIDE DEF before
  <2> QED BY <2>1, <2>2, <1>10, <1>11, <1>12, InsertLinks
<1>14. /\ HeapType(g) /\ g.top = w.top /\ g.largest = w.largest /\ OnList(g, G \cup {hole})
       /\ g.mem[hole].kind = "free" /\ g.mem[hole].len = len /\ ~g.mem[hole].pinned
       /\ \A x \in Addr : /\ Within(x, hole, len) => g.mem[x] = Data
                          /\ x \in G => SameButLinks(g.mem[x], w.mem[x])
                          /\ x \notin G \cup {hole} /\ ~Within(x, hole, len) => g.mem[x] = w.mem[x]
  BY <1>13 DEF IsInserted
<1>15. \A x \in Addr : SameButLinks(r.mem[x], h.mem[x]) /\ (x \notin F => r.mem[x] = h.mem[x])
  BY <1>5 DEF Relinked, SameButLinks
<1>16. g.top = h.top /\ g.largest = h.largest
  BY <1>5, <1>9, <1>14 DEF Relinked
<1>17. g.mem[to] = b
  <2>1. to \notin G \cup {hole} /\ ~Within(to, hole, len)
    BY <1>2, <1>7 DEF G
  <2> QED BY <2>1, <1>2, <1>9, <1>14
<1>18. ASSUME NEW x \in Addr, to < x, x < e, x # hole PROVE g.mem[x] = Data
  <2>1. CASE hole < x
    BY <2>1, <1>7, <1>14, <1>18
  <2>2. CASE x < hole
    <3>1. Within(x, to, b.len) /\ ~Within(x, hole, len) /\ x # to /\ x \notin G
      BY <2>2, <1>2, <1>6, <1>7, <1>18
    <3>2. w.mem[x] = Data
      BY <3>1, <1>9
    <3> QED BY <3>1, <3>2, <1>14, <1>18
  <2> QED BY <2>1, <2>2, <1>2, <1>7, <1>18
<1>19. ASSUME NEW x \in Addr, x < to \/ e <= x
       PROVE  SameButLinks(g.mem[x], h.mem[x]) /\ (x \notin F => g.mem[x] = h.mem[x])
  <2>1. x # to /\ x # hole /\ ~Within(x, to, b.len) /\ ~Within(x, hole, len)
    BY <1>2, <1>7, <1>19
  <2>2. w.mem[x] = r.mem[x]
    BY <2>1, <1>9
  <2>3. SameButLinks(r.mem[x], h.mem[x]) /\ (x \notin F => r.mem[x] = h.mem[x])
    BY <1>15
  <2>4. CASE x \in G
    <3>1. SameButLinks(g.mem[x], w.mem[x]) /\ x \in F
      BY <2>4, <1>14 DEF G
    <3> HIDE DEF F
    <3> QED BY <3>1, <2>2, <2>3, ZenonT(20) DEF SameButLinks
  <2>5. CASE x \notin G
    <3>1. g.mem[x] = w.mem[x]
      BY <2>1, <2>5, <1>14
    <3> QED BY <3>1, <2>2, <2>3
  <2> QED BY <2>4, <2>5
<1> QED BY <1>14, <1>16, <1>17, <1>18, <1>19 DEF IsSlid, G, b, e, len

\* The slide leaves a heap whose free list is in order.
LEMMA SlideSwaps ==
    ASSUME NEW h, Sound(h), NEW to \in FreeBlocks(h), NEW c \in Objects(h), After(h, to) = c,
           NEW hole, hole = to + h.mem[c].len, NEW g, IsSlid(h, to, c, hole, g)
    PROVE  Slid(h, to, c, hole, g)
<1> DEFINE F == FreeBlocks(h)
           e == After(h, c)
<1>1. HeapType(h) /\ Tiled(h)
  BY DEF Sound
<1>2. /\ to \in Blocks(h) /\ to \in Addr /\ to \in Int /\ c \in Blocks(h) /\ c \in Int
      /\ h.mem[c].kind = "object" /\ h.mem[c].len \in Int /\ h.mem[to].len \in Int
      /\ hole \in Addr /\ hole \in Int /\ to < hole /\ hole < e /\ hole + h.mem[to].len = e
      /\ e \in Int /\ e \in Bounds(h) /\ to < c /\ c < e
      /\ \A x \in Bounds(h) : x \in Int /\ (x < to \/ x = to \/ x = c \/ e <= x)
      /\ \A x \in Blocks(h) : x \in Int /\ (x < to \/ x = to \/ x = c \/ e <= x)
  BY ObjectAfterFree
<1> HIDE DEF e
<1>3. /\ HeapType(g) /\ g.top = h.top /\ g.largest = h.largest /\ OnList(g, (F \ {to}) \cup {hole})
      /\ g.mem[to] = h.mem[c]
      /\ g.mem[hole].kind = "free" /\ g.mem[hole].len = h.mem[to].len /\ ~g.mem[hole].pinned
      /\ \A x \in Addr : to < x /\ x < e /\ x # hole => g.mem[x] = Data
      /\ \A x \in Addr : x < to \/ e <= x =>
            SameButLinks(g.mem[x], h.mem[x]) /\ (x \notin F => g.mem[x] = h.mem[x])
  BY DEF IsSlid, e
<1>4. Recut(h, g, to, hole, e)
  <2>1. \A x \in Addr : x < to \/ e <= x => g.mem[x].kind = h.mem[x].kind /\ g.mem[x].len = h.mem[x].len
    BY <1>3 DEF SameButLinks
  <2>2. \A x \in Addr : to < x /\ x < e /\ x # hole => g.mem[x].kind = "data"
    BY <1>3, DataIsBlock
  <2>3. g.mem[to].kind # "data" /\ g.mem[to].len = hole - to
    BY <1>2, <1>3
  <2>4. g.mem[hole].kind # "data" /\ g.mem[hole].len = e - hole
    BY <1>2, <1>3
  <2> QED BY <2>1, <2>2, <2>3, <2>4, <1>2, <1>3 DEF Recut
<1>5. /\ Tiled(g)
      /\ \A x : x \in Blocks(g) <=> x = to \/ x = hole \/ (x \in Blocks(h) /\ (x < to \/ e <= x))
      /\ After(g, to) = hole /\ After(g, hole) = e
      /\ \A x \in Blocks(h) : x < to \/ e <= x => After(g, x) = After(h, x)
  BY <1>1, <1>2, <1>3, <1>4, RecutTiles
<1>6. ASSUME NEW x \in Objects(h), x # c
      PROVE  x \in Objects(g) /\ g.mem[x] = h.mem[x] /\ After(g, x) = After(h, x) /\ x # to /\ x # hole
  <2>1. x \in Blocks(h) /\ x \in Addr /\ x \notin F /\ h.mem[x].kind = "object"
    BY <1>1, BlocksAre DEF Objects, InUse, IsObject
  <2>2. x # to
    BY <2>1
  <2>3. x \in Int /\ (x < to \/ e <= x)
    BY <2>1, <2>2, <1>2, <1>6
  <2>4. g.mem[x] = h.mem[x] /\ After(g, x) = After(h, x)
    BY <2>1, <2>3, <1>3, <1>5
  <2>5. x \in Blocks(g) /\ g.mem[x].kind = "object"
    BY <2>1, <2>3, <2>4, <1>5
  <2>6. x \in Objects(g)
    BY <2>1, <2>5, <1>3, BlocksAre DEF IsObject
  <2> QED BY <2>2, <2>3, <2>4, <2>6, <1>2
<1>7. to \in Objects(g) /\ hole \in FreeBlocks(g)
  BY <1>2, <1>3, <1>5, BlocksAre DEF IsObject, IsFree
<1>8. ASSUME NEW x \in Blocks(g), x # to, x # hole PROVE x \in Blocks(h) /\ x \in Addr /\ (x < to \/ e <= x) /\ x # c
  <2>1. x \in Blocks(h) /\ (x < to \/ e <= x)
    BY <1>5, <1>8
  <2> QED BY <2>1, <1>2 DEF Blocks
<1>9. Objects(g) = (Objects(h) \ {c}) \cup {to}
  <2>1. ASSUME NEW x \in Objects(g), x # to PROVE x \in Objects(h) /\ x # c
    <3>1. x \in Blocks(g) /\ x # hole /\ g.mem[x].kind = "object"
      BY <1>3, BlocksAre DEF IsObject
    <3>2. x \in Blocks(h) /\ x \in Addr /\ (x < to \/ e <= x) /\ x # c
      BY <3>1, <2>1, <1>8
    <3>3. h.mem[x].kind = "object"
      BY <3>1, <3>2, <1>3 DEF SameButLinks
    <3> QED BY <3>2, <3>3, <1>1, BlocksAre DEF IsObject
  <2> QED BY <2>1, <1>6, <1>7
<1>10. FreeBlocks(g) = (F \ {to}) \cup {hole}
  <2>1. ASSUME NEW x \in FreeBlocks(g), x # hole PROVE x \in F /\ x # to
    <3>1. x \in Blocks(g) /\ x # to /\ g.mem[x].kind = "free"
      <4>1. x \in Blocks(g) /\ g.mem[x].kind = "free"
        BY <1>3, BlocksAre DEF IsFree
      <4> QED BY <4>1, <1>2, <1>3
    <3>2. x \in Blocks(h) /\ x \in Addr /\ (x < to \/ e <= x) /\ x # c
      BY <3>1, <2>1, <1>8
    <3>3. h.mem[x].kind = "free"
      BY <3>1, <3>2, <1>3 DEF SameButLinks
    <3> QED BY <3>1, <3>2, <3>3, <1>1, BlocksAre DEF IsFree
  <2>2. ASSUME NEW x \in F, x # to PROVE x \in FreeBlocks(g)
    <3>1. x \in Blocks(h) /\ x \in Addr /\ h.mem[x].kind = "free"
      BY <1>1, BlocksAre DEF IsFree, FreeBlocks
    <3>2. x < to \/ e <= x
      <4>1. x # c
        BY <3>1, <1>2
      <4> QED BY <3>1, <4>1, <2>2, <1>2
    <3>3. x \in Blocks(g) /\ g.mem[x].kind = "free"
      BY <3>1, <3>2, <1>3, <1>5 DEF SameButLinks
    <3> QED BY <3>1, <3>3, <1>3, BlocksAre DEF IsFree
  <2> HIDE DEF F
  <2> QED BY <2>1, <2>2, <1>7
<1>11. Sound(g)
  BY <1>3, <1>5, <1>10 DEF Sound
<1>12. ASSUME NEW x \in Bounds(h), x # c PROVE x \in Bounds(g)
  <2>1. x \in Int /\ (x < to \/ x = to \/ e <= x) /\ (x = h.top \/ x \in Blocks(h))
    BY <1>2, <1>12 DEF Bounds
  <2> QED BY <2>1, <1>3, <1>5 DEF Bounds
<1>13. Hinted(h) => Hinted(g)
  <2> SUFFICES ASSUME Hinted(h), NEW x \in FreeBlocks(g) PROVE g.mem[x].len <= g.largest
    BY DEF Hinted
  <2>1. CASE x = hole
    BY <2>1, <1>3 DEF Hinted
  <2>2. CASE x # hole
    <3>1. x \in F /\ x # to /\ x \in Blocks(g)
      BY <2>2, <1>3, <1>10, BlocksAre
    <3>2. x \in Addr /\ (x < to \/ e <= x)
      BY <2>2, <3>1, <1>8
    <3> QED BY <3>1, <3>2, <1>3 DEF Hinted, SameButLinks
  <2> QED BY <2>1, <2>2
<1>14. Shifted(h, to, c, g)
  BY <1>3, <1>6, <1>9, <1>11, <1>13 DEF Shifted
<1> QED BY <1>2, <1>5, <1>6, <1>10, <1>12, <1>14 DEF Slid, e

\* Heap g is h with the object c in the place of the free block to, and a free block in its own.
Jumped(h, to, c, g) ==
    /\ Shifted(h, to, c, g)
    /\ FreeBlocks(g) = (FreeBlocks(h) \ {to}) \cup {c} /\ Bounds(g) = Bounds(h)
    /\ \A x \in Addr : After(g, x) = After(h, x)

\* So it is after a jump into a free block that is just as long, when the free block left
\* behind is linked after the last one below it.
LEMMA JumpSwaps ==
    ASSUME NEW h, Sound(h), NEW to \in FreeBlocks(h), NEW c \in Objects(h), to < c,
           h.mem[to].len = h.mem[c].len, NEW last, IsBefore(FreeBlocks(h) \ {to}, c, last),
           NEW r, r = FreeRemove(h, to),
           NEW w, w = [r EXCEPT !.mem = WriteBlock(r.mem, to, h.mem[c])],
           NEW g, g = FreeInsertAfter(w, last, c, h.mem[c].len)
    PROVE  Jumped(h, to, c, g) /\ \A x \in Addr : After(w, x) = After(h, x)
<1> DEFINE F == FreeBlocks(h)
           G == F \ {to}
           b == h.mem[c]
<1>1. HeapType(h) /\ Tiled(h) /\ OnList(h, F)
  BY DEF Sound
<1>2. /\ to \in Blocks(h) /\ to \in Addr /\ to \in Int /\ c \in Blocks(h) /\ c \in Addr /\ c \in Int
      /\ c \notin F /\ F \subseteq Blocks(h) /\ F \subseteq Addr
  BY <1>1, BlocksAre, AddrNumbers DEF FreeBlocks, Objects
<1>3. b \in Block /\ b.kind = "object" /\ b.len \in Int /\ b.len \in 1 .. HeapSize
  <2>1. b \in Block /\ b.kind = "object"
    BY <1>1, <1>2, HeapFields DEF Objects, InUse, IsObject
  <2> QED BY <2>1, BlockFields DEF Block
\* No block begins inside another.
<1>4. ASSUME NEW a \in Blocks(h), h.mem[a].len = b.len, NEW x \in Addr, Within(x, a, b.len)
      PROVE  x \notin Blocks(h) /\ h.mem[x] = Data
  <2>1. a < x /\ x < After(h, a) /\ After(h, a) <= h.top /\ h.top \in Int /\ x \in Int /\ After(h, a) \in Int
    <3>1. After(h, a) \in Bounds(h) /\ After(h, a) <= h.top /\ After(h, a) = a + h.mem[a].len
      BY <1>1, Tiles
    <3>2. After(h, a) \in Int /\ h.top \in Int /\ x \in Int
      BY <3>1, <1>1, Tiles, HeapFields, AddrNumbers
    <3> QED BY <3>1, <3>2, <1>4 DEF Within
  <2>2. x \notin Blocks(h)
    <3>1. \A y \in Blocks(h) : a < y => After(h, a) <= y
      BY <1>1, Tiles DEF Bounds
    <3> QED BY <3>1, <2>1
  <2> QED BY <2>1, <2>2 DEF Blocks
<1>5. HeapType(r) /\ Relinked(h, r, G) /\ OnList(r, G)
  BY <1>1, RemoveLinks
<1>6. /\ r.top = h.top /\ r.largest = h.largest
      /\ \A x \in Addr : SameButLinks(r.mem[x], h.mem[x]) /\ (x \notin G => r.mem[x] = h.mem[x])
  BY <1>5 DEF Relinked, SameButLinks
<1>7. IsWritten(r, to, b, w)
  BY <1>2, <1>3, <1>5, Written
<1>8. /\ HeapType(w) /\ w.top = r.top /\ w.free = r.free /\ w.largest = r.largest
      /\ \A x \in Addr : w.mem[x] = IF x = to THEN b ELSE IF Within(x, to, b.len) THEN Data ELSE r.mem[x]
  BY <1>7 DEF IsWritten
<1>9. \A x \in G : x \in Addr /\ ~Within(x, to, b.len) /\ ~Within(x, c, b.len) /\ x # to /\ x # c
  BY <1>2, <1>4
<1>10. OnList(w, G)
  <2>1. \A x \in G : w.mem[x] = r.mem[x]
    BY <1>8, <1>9
  <2>2. SameOn(G, r, w)
    BY <2>1, <1>8 DEF SameOn
  <2>3. OnList(r, G)
    BY <1>5
  <2> QED BY <2>2, <2>3, SameList
<1>11. IsInserted(w, G, c, b.len, g)
  <2>1. c \notin G /\ \A x \in G : ~Within(x, c, b.len)
    BY <1>9
  <2> HIDE DEF G, b
  <2>2. g = FreeInsertAfter(w, last, c, b.len) /\ IsBefore(G, c, last)
    BY DEF G, b
  <2> QED BY <2>1, <2>2, <1>2, <1>3, <1>8, <1>10, InsertLinks
<1> HIDE DEF b, G
<1>12. /\ HeapType(g) /\ g.top = h.top /\ g.largest = h.largest /\ OnList(g, G \cup {c})
       /\ g.mem[c].kind = "free" /\ g.mem[c].len = b.len
       /\ \A x \in Addr : /\ Within(x, c, b.len) => g.mem[x] = Data
                          /\ x \in G => SameButLinks(g.mem[x], w.mem[x])
                          /\ x \notin G \cup {c} /\ ~Within(x, c, b.len) => g.mem[x] = w.mem[x]
  BY <1>6, <1>8, <1>11 DEF IsInserted
<1>13. g.mem[to] = b
  <2>1. to # c /\ to \notin G /\ ~Within(to, c, b.len)
    BY <1>2 DEF G, Within
  <2> QED BY <2>1, <1>2, <1>8, <1>12
<1>14. ASSUME NEW x \in Addr, x # to, x # c
       PROVE  SameButLinks(g.mem[x], h.mem[x]) /\ (x \notin F => g.mem[x] = h.mem[x])
              /\ SameButLinks(w.mem[x], h.mem[x])
  <2>1. CASE Within(x, to, b.len)
    <3>1. h.mem[x] = Data /\ x \notin G /\ w.mem[x] = Data
      BY <2>1, <1>2, <1>3, <1>4, <1>8, <1>9, <1>14 DEF b
    <3>2. g.mem[x] = Data
      BY <3>1, <1>12, <1>14
    <3> QED BY <3>1, <3>2 DEF SameButLinks
  <2>2. CASE ~Within(x, to, b.len) /\ Within(x, c, b.len)
    <3>1. h.mem[x] = Data /\ x \notin G /\ w.mem[x] = r.mem[x] /\ r.mem[x] = h.mem[x]
      BY <2>2, <1>2, <1>4, <1>6, <1>8, <1>9, <1>14 DEF b
    <3>2. g.mem[x] = Data
      BY <2>2, <1>12
    <3> QED BY <3>1, <3>2 DEF SameButLinks
  <2>3. CASE ~Within(x, to, b.len) /\ ~Within(x, c, b.len)
    <3>1. w.mem[x] = r.mem[x] /\ (x \in F <=> x \in G)
      BY <2>3, <1>8, <1>14 DEF G
    <3>2. SameButLinks(r.mem[x], h.mem[x]) /\ (x \notin G => r.mem[x] = h.mem[x])
      BY <1>6
    <3>3. IF x \in G THEN SameButLinks(g.mem[x], w.mem[x]) ELSE g.mem[x] = w.mem[x]
      BY <2>3, <1>12, <1>14
    <3> QED BY <3>1, <3>2, <3>3 DEF SameButLinks
  <2> QED BY <2>1, <2>2, <2>3
<1>15. /\ \A x \in Addr : g.mem[x].len = h.mem[x].len /\ w.mem[x].len = h.mem[x].len
       /\ \A x \in Addr : g.mem[x].kind = "data" <=> h.mem[x].kind = "data"
  <2>1. g.mem[to].len = b.len /\ w.mem[to].len = b.len /\ h.mem[to].len = b.len /\ h.mem[to].kind = "free"
    BY <1>2, <1>8, <1>13 DEF b, FreeBlocks
  <2>2. w.mem[c].len = b.len /\ h.mem[c].kind = "object"
    <3>1. c # to /\ ~Within(c, to, b.len) /\ c \notin G
      BY <1>2, <1>3, <1>4 DEF G, b
    <3>2. w.mem[c] = h.mem[c]
      BY <3>1, <1>2, <1>6, <1>8
    <3> QED BY <3>2, <1>3 DEF b
  <2>3. h.mem[c].len = b.len
    BY DEF b
  <2>4. g.mem[to].kind = "object" /\ w.mem[to].kind = "object" /\ g.mem[c].kind = "free" /\ g.mem[c].len = b.len
    BY <1>2, <1>3, <1>8, <1>12, <1>13
  <2>5. ASSUME NEW x \in Addr
        PROVE  /\ g.mem[x].len = h.mem[x].len /\ w.mem[x].len = h.mem[x].len
               /\ g.mem[x].kind = "data" <=> h.mem[x].kind = "data"
    <3>1. CASE x = to
      BY <3>1, <2>1, <2>4
    <3>2. CASE x = c
      BY <3>2, <2>2, <2>3, <2>4
    <3>3. CASE x # to /\ x # c
      BY <3>3, <1>14 DEF SameButLinks
    <3> QED BY <3>1, <3>2, <3>3
  <2> QED BY <2>5
<1>16. /\ \A x \in Addr : After(g, x) = After(h, x) /\ After(w, x) = After(h, x)
       /\ Blocks(g) = Blocks(h) /\ Blocks(h) \subseteq Addr
  <2>1. HeapType(h) /\ HeapType(g) /\ g.top = h.top
    BY <1>1, <1>12
  <2>2. /\ \A x : x \in Blocks(h) <=> x \in Addr /\ x < h.top /\ h.mem[x].kind # "data"
        /\ \A x : x \in Blocks(g) <=> x \in Addr /\ x < g.top /\ g.mem[x].kind # "data"
    BY <2>1, BlocksAre
  <2>3. \A x : x \in Blocks(g) <=> x \in Blocks(h)
    BY <2>1, <2>2, <1>15
  <2>4. Blocks(g) = Blocks(h) /\ Blocks(h) \subseteq Addr
    BY <2>3 DEF Blocks
  <2> QED BY <2>4, <1>15 DEF After
<1>17. Tiled(g) /\ Bounds(g) = Bounds(h)
  BY <1>1, <1>12, <1>16 DEF Tiled, Bounds
<1>18. FreeBlocks(g) = G \cup {c}
  <2>1. c < h.top /\ \A x \in Addr : x # to /\ x # c => g.mem[x].kind = h.mem[x].kind
    BY <1>2, <1>14 DEF SameButLinks, Blocks
  <2>2. g.mem[to].kind = "object" /\ g.mem[c].kind = "free" /\ g.top = h.top
    BY <1>3, <1>12, <1>13
  <2>3. \A x : x \in FreeBlocks(g) <=> x \in (FreeBlocks(h) \ {to}) \cup {c}
    BY <2>1, <2>2, <1>2 DEF FreeBlocks
  <2> QED BY <2>3 DEF F, G
<1>19. Objects(g) = (Objects(h) \ {c}) \cup {to}
  <2>1. to < h.top /\ \A x \in Addr : x # to /\ x # c => g.mem[x].kind = h.mem[x].kind
    BY <1>2, <1>14 DEF SameButLinks, Blocks
  <2>2. g.mem[to].kind = "object" /\ g.mem[c].kind = "free" /\ g.top = h.top /\ h.mem[to].kind # "object"
    BY <1>3, <1>12, <1>13 DEF FreeBlocks
  <2>3. \A x : x \in Objects(g) <=> x \in (Objects(h) \ {c}) \cup {to}
    BY <2>1, <2>2, <1>2 DEF Objects, InUse, IsObject
  <2> QED BY <2>3
<1>20. \A a \in Objects(h) : a # c => g.mem[a] = h.mem[a]
  <2>1. \A a \in Objects(h) : a \in Addr /\ a \notin F
    BY <1>1, BlocksAre DEF Objects
  <2> QED BY <2>1, <1>14
<1>21. Sound(g)
  BY <1>12, <1>17, <1>18 DEF Sound
<1>22. Hinted(h) => Hinted(g)
  <2> SUFFICES ASSUME Hinted(h), NEW x \in FreeBlocks(g) PROVE g.mem[x].len <= g.largest
    BY DEF Hinted
  <2>1. g.mem[x].len = h.mem[IF x = c THEN to ELSE x].len
    BY <1>12, <1>15 DEF FreeBlocks, b
  <2>2. (IF x = c THEN to ELSE x) \in F
    BY <1>18 DEF G
  <2> QED BY <2>1, <2>2, <1>12 DEF Hinted
<1>23. Shifted(h, to, c, g)
  BY <1>12, <1>13, <1>19, <1>20, <1>21, <1>22 DEF Shifted, b
<1> QED BY <1>16, <1>17, <1>18, <1>23 DEF Jumped, G

-----------------------------------------------------------------------------
(* The relocation table *)

\* A table with an entry more.
Logged(t, c, e, to) == Append(t, [start |-> c, end |-> e, offset |-> c - to])

\* An empty table moves nothing, and pinta_gc_relocate_single looks up the table there is.
LEMMA EmptyTable ==
    /\ \A a : RelocatedBy(<< >>, a) = a
    /\ \A a : Relocated(a) = RelocatedBy(reloc, a)
<1>1. \A a : RelocatedBy(<< >>, a) = a
  <2> TAKE a
  <2> DEFINE hit == {i \in DOMAIN << >> : << >>[i].start <= a /\ a < << >>[i].end}
  <2>1. hit = {}
    OBVIOUS
  <2> QED BY <2>1 DEF RelocatedBy
<1>2. \A a : Relocated(a) = RelocatedBy(reloc, a)
  BY DEF Relocated, RelocatedBy
<1> QED BY <1>1, <1>2

\* What lies above everything moved so far has not moved.
LEMMA TableBelow ==
    ASSUME NEW t, Table(t), NEW c \in Int, \A i \in DOMAIN t : t[i].end <= c, NEW x \in Ref
    PROVE  /\ c <= x => RelocatedBy(t, x) = x
           /\ RelocatedBy(t, x) = c => x = c
<1> DEFINE hit == {i \in DOMAIN t : t[i].start <= x /\ x < t[i].end}
<1>1. x \in Int
  BY AddrNumbers
<1>2. \A i \in DOMAIN t : t[i].start \in Int /\ t[i].end \in Int /\ t[i].offset \in Int /\ 0 <= t[i].offset
  <2>1. \A i \in DOMAIN t : t[i] \in Moves
    BY DEF Table
  <2>2. \A i \in DOMAIN t : t[i].start \in Addr /\ t[i].end \in 0 .. HeapSize /\ t[i].offset \in 0 .. HeapSize
    BY <2>1 DEF Moves
  <2>3. HeapSize \in Int /\ \A a \in Addr : a \in Int
    BY AddrNumbers
  <2> QED BY <2>2, <2>3
<1>3. RelocatedBy(t, x) = IF hit = {} THEN x ELSE x - t[CHOOSE i \in hit : TRUE].offset
  BY DEF RelocatedBy
<1>4. CASE hit = {}
  BY <1>3, <1>4
<1>5. CASE hit # {}
  <2> DEFINE j == CHOOSE i \in hit : TRUE
  <2>1. j \in hit
    BY <1>5
  <2> HIDE DEF j
  <2>2. j \in DOMAIN t /\ x < t[j].end /\ t[j].end <= c
    BY <2>1
  <2>3. x < c /\ x - t[j].offset <= x
    BY <2>2, <1>1, <1>2
  <2>4. RelocatedBy(t, x) = x - t[j].offset
    BY <1>3, <1>5 DEF j
  <2>5. t[j].offset \in Int
    BY <2>2, <1>2
  <2> QED BY <2>3, <2>4, <2>5, <1>1
<1> QED BY <1>4, <1>5

\* The entry for the block at c changes what c is looked up as, and nothing outside the block.
LEMMA TableGrows ==
    ASSUME NEW t, Table(t), Len(t) < RelocMax,
           NEW c \in Addr, NEW e \in 0 .. HeapSize, NEW to \in Addr, to < c, c < e,
           \A i \in DOMAIN t : t[i].end <= c, NEW u, u = Logged(t, c, e, to)
    PROVE  /\ Table(u)
           /\ \A i \in DOMAIN u : u[i].end <= e
           /\ RelocatedBy(u, c) = to
           /\ \A x \in Ref : x < c \/ e <= x => RelocatedBy(u, x) = RelocatedBy(t, x)
<1> DEFINE m == [start |-> c, end |-> e, offset |-> c - to]
           n == Len(t)
<1>1. c \in Int /\ e \in Int /\ to \in Int /\ 0 <= to /\ HeapSize \in Int /\ c < HeapSize
  BY AddrNumbers
<1>2. c - to \in 0 .. HeapSize /\ c - to <= c /\ c - (c - to) = to
  BY <1>1
<1>3. m \in Moves
  BY <1>2 DEF Moves
<1>4. t \in Seq(Moves) /\ n \in Nat /\ DOMAIN t = 1 .. n
  BY DEF Table
<1> HIDE DEF n
<1>5. u = Append(t, m)
  BY DEF Logged
<1>6. m.start = c /\ m.end = e /\ m.offset = c - to
  OBVIOUS
<1> HIDE DEF m
<1>7. /\ u \in Seq(Moves) /\ Len(u) = n + 1 /\ DOMAIN u = 1 .. n + 1
      /\ u[n + 1] = m /\ \A i \in 1 .. n : u[i] = t[i]
  BY <1>3, <1>4, <1>5 DEF n
<1>8. Table(u)
  <2>1. RelocMax \in Nat /\ n < RelocMax
    BY GcHeapAssumption DEF n
  <2>2. Len(u) <= RelocMax
    BY <2>1, <1>4, <1>7
  <2>3. ASSUME NEW i \in DOMAIN u PROVE u[i].offset <= u[i].start
    <3>1. CASE i = n + 1
      BY <3>1, <1>2, <1>6, <1>7
    <3>2. CASE i \in 1 .. n
      BY <3>2, <1>4, <1>7 DEF Table
    <3> QED BY <3>1, <3>2, <1>4, <1>7
  <2> QED BY <2>2, <2>3, <1>7 DEF Table
<1>9. ASSUME NEW i \in DOMAIN u PROVE u[i].end <= e
  <2>1. CASE i = n + 1
    BY <2>1, <1>1, <1>6, <1>7
  <2>2. CASE i \in 1 .. n
    <3>1. u[i] = t[i] /\ t[i].end <= c
      BY <2>2, <1>4, <1>7
    <3>2. t[i].end \in Int
      <4>1. t[i] \in Moves
        BY <2>2, <1>4
      <4> QED BY <4>1, AddrNumbers DEF Moves
    <3> QED BY <3>1, <3>2, <1>1
  <2> QED BY <2>1, <2>2, <1>4, <1>7
<1>10. ASSUME NEW x \in Int
       PROVE  \A i \in 1 .. n + 1 : (u[i].start <= x /\ x < u[i].end) <=>
                                    \/ i = n + 1 /\ c <= x /\ x < e
                                    \/ i \in 1 .. n /\ t[i].start <= x /\ x < t[i].end
  BY <1>4, <1>6, <1>7
<1>11. RelocatedBy(u, c) = to
  <2> DEFINE hit == {i \in DOMAIN u : u[i].start <= c /\ c < u[i].end}
  <2>1. ASSUME NEW i \in 1 .. n PROVE ~(c < t[i].end)
    <3>1. t[i].end <= c /\ t[i] \in Moves
      BY <1>4
    <3>2. t[i].end \in Int
      BY <3>1, AddrNumbers DEF Moves
    <3> QED BY <3>1, <3>2, <1>1
  <2>2. hit = {n + 1}
    <3>1. \A i \in 1 .. n + 1 : (u[i].start <= c /\ c < u[i].end) <=> i = n + 1
      BY <2>1, <1>1, <1>4, <1>10
    <3> QED BY <3>1, <1>4, <1>7
  <2>3. (CHOOSE i \in hit : TRUE) = n + 1
    BY <2>2
  <2>4. RelocatedBy(u, c) = IF hit = {} THEN c ELSE c - u[CHOOSE i \in hit : TRUE].offset
    BY DEF RelocatedBy
  <2> HIDE DEF hit
  <2> QED BY <2>2, <2>3, <2>4, <1>2, <1>6, <1>7
<1>12. ASSUME NEW x \in Ref, x < c \/ e <= x PROVE RelocatedBy(u, x) = RelocatedBy(t, x)
  <2> DEFINE hit == {i \in DOMAIN u : u[i].start <= x /\ x < u[i].end}
             old == {i \in DOMAIN t : t[i].start <= x /\ x < t[i].end}
  <2>1. x \in Int
    BY AddrNumbers
  <2>2. hit = old
    <3>1. \A i \in 1 .. n + 1 : (u[i].start <= x /\ x < u[i].end) <=>
                                i \in 1 .. n /\ t[i].start <= x /\ x < t[i].end
      BY <2>1, <1>1, <1>10, <1>12
    <3> QED BY <3>1, <1>4, <1>7
  <2> DEFINE j == CHOOSE i \in old : TRUE
  <2>3. RelocatedBy(t, x) = IF old = {} THEN x ELSE x - t[j].offset
    BY DEF RelocatedBy
  <2>4. RelocatedBy(u, x) = IF hit = {} THEN x ELSE x - u[CHOOSE i \in hit : TRUE].offset
    BY DEF RelocatedBy
  <2>5. RelocatedBy(u, x) = IF old = {} THEN x ELSE x - u[j].offset
    <3> HIDE DEF hit, old
    <3> QED BY <2>2, <2>4
  <2>6. old # {} => u[j] = t[j]
    <3>1. old # {} => j \in old
      OBVIOUS
    <3>2. \A i \in old : i \in 1 .. n
      BY <1>4
    <3> HIDE DEF j, old
    <3> QED BY <3>1, <3>2, <1>7
  <2> HIDE DEF j, old, hit
  <2> QED BY <2>3, <2>5, <2>6
<1> QED BY <1>8, <1>9, <1>11, <1>12

-----------------------------------------------------------------------------
(* Heaps with the same blocks and links *)

\* Heap g is h with other references in its blocks.
Rereferenced(h, g) ==
    /\ HeapType(g) /\ g.top = h.top /\ g.free = h.free /\ g.largest = h.largest
    /\ \A a \in Addr : /\ g.mem[a].kind = h.mem[a].kind /\ g.mem[a].len = h.mem[a].len
                       /\ g.mem[a].next = h.mem[a].next /\ g.mem[a].prev = h.mem[a].prev

\* Heap g has the blocks heap h has.
SameHeap(h, g) ==
    /\ Sound(g) /\ (Hinted(h) => Hinted(g)) /\ (Rested(h) => Settles(h, g))
    /\ g.top = h.top /\ Blocks(g) = Blocks(h) /\ Bounds(g) = Bounds(h)
    /\ FreeBlocks(g) = FreeBlocks(h) /\ Objects(g) = Objects(h)
    /\ \A a \in Addr : After(g, a) = After(h, a)

LEMMA RereferencedIsSame ==
    ASSUME NEW h, Sound(h), NEW g, Rereferenced(h, g)
    PROVE  SameHeap(h, g)
<1>1. HeapType(h) /\ Tiled(h) /\ OnList(h, FreeBlocks(h))
  BY DEF Sound
<1>2. /\ HeapType(g) /\ g.top = h.top /\ g.free = h.free /\ g.largest = h.largest
      /\ \A a \in Addr : /\ g.mem[a].kind = h.mem[a].kind /\ g.mem[a].len = h.mem[a].len
                         /\ g.mem[a].next = h.mem[a].next /\ g.mem[a].prev = h.mem[a].prev
  BY DEF Rereferenced
<1>3. /\ Tiled(g) /\ Blocks(g) = Blocks(h) /\ Bounds(g) = Bounds(h)
      /\ FreeBlocks(g) = FreeBlocks(h) /\ Objects(g) = Objects(h)
      /\ \A x \in Addr : After(g, x) = After(h, x)
  BY <1>1, <1>2, SameBlocks
<1>4. OnList(g, FreeBlocks(h))
  <2> DEFINE F == FreeBlocks(h)
  <2>1. F \subseteq Addr
    BY DEF FreeBlocks
  <2> HIDE DEF F
  <2>2. /\ \A a \in F : h.mem[a].kind = "free" /\ IsBefore(F, a, h.mem[a].prev) /\ IsAfter(F, a, h.mem[a].next)
        /\ IsAfter(F, NULL, h.free)
    BY <1>1 DEF F, OnList, Linked
  <2>3. \A a \in F : g.mem[a].kind = "free" /\ IsBefore(F, a, g.mem[a].prev) /\ IsAfter(F, a, g.mem[a].next)
    BY <2>1, <2>2, <1>2
  <2> QED BY <2>1, <2>2, <2>3, <1>2 DEF OnList, Linked, F
<1>5. Sound(g)
  BY <1>2, <1>3, <1>4 DEF Sound
<1>6. (Hinted(h) => Hinted(g)) /\ (Rested(h) => Settles(h, g))
  <2>1. (\A a \in FreeBlocks(h) : a \in Addr) /\ \A a \in Objects(h) : a \in Addr
    BY DEF FreeBlocks, Objects
  <2>2. Merged(h) => Merged(g)
    BY <2>1, <1>3 DEF Merged
  <2>3. TopEnds(h) => TopEnds(g)
    BY <2>1, <1>2, <1>3 DEF TopEnds
  <2>4. Hinted(h) => Hinted(g)
    BY <2>1, <1>2, <1>3 DEF Hinted
  <2> QED BY <2>2, <2>3, <2>4, <1>5 DEF Rested, Settles
<1> QED BY <1>2, <1>3, <1>5, <1>6 DEF SameHeap

\* pinta_gc_relocate_heap looks up every reference, and changes nothing else.
IsRelocated(h, t, g) ==
    /\ SameHeap(h, g)
    /\ \A a \in Objects(h) : /\ g.mem[a].ref = RelocatedBy(t, h.mem[a].ref)
                              /\ g.mem[a].id = h.mem[a].id /\ g.mem[a].len = h.mem[a].len
                              /\ g.mem[a].pinned = h.mem[a].pinned

LEMMA RelocatedHeapIs ==
    ASSUME NEW h, Sound(h),
           \A a \in Objects(h) : RelocatedBy(reloc, h.mem[a].ref) \in Objects(h) \cup {NULL}
    PROVE  IsRelocated(h, reloc, RelocatedHeap(h))
<1> DEFINE b(a) == [h.mem[a] EXCEPT !.ref = Relocated(h.mem[a].ref)]
           m == [a \in Addr |-> IF a \in Objects(h) THEN b(a) ELSE h.mem[a]]
           g == RelocatedHeap(h)
<1>1. HeapType(h)
  BY DEF Sound
<1>2. \A a \in Objects(h) : a \in Addr /\ a \in Ref
  BY DEF Objects, Ref
<1>3. ASSUME NEW a \in Objects(h)
      PROVE  /\ b(a) \in Block /\ b(a).kind = h.mem[a].kind /\ b(a).len = h.mem[a].len
             /\ b(a).next = h.mem[a].next /\ b(a).prev = h.mem[a].prev /\ b(a).pinned = h.mem[a].pinned
             /\ b(a).kind = "object" /\ b(a).ref = RelocatedBy(reloc, h.mem[a].ref)
             /\ b(a).id = h.mem[a].id
  <2>1. h.mem[a] \in Block /\ h.mem[a].kind = "object"
    BY <1>1, <1>2, HeapFields DEF Objects, InUse, IsObject
  <2>2. Relocated(h.mem[a].ref) = RelocatedBy(reloc, h.mem[a].ref)
    BY EmptyTable
  <2>3. Relocated(h.mem[a].ref) \in Ref
    BY <2>2, <1>2 DEF Ref
  <2> QED BY <2>1, <2>2, <2>3 DEF Block
<1>4. g = [h EXCEPT !.mem = m]
  BY DEF RelocatedHeap
<1> HIDE DEF b
<1>5. \A a \in Addr : h.mem[a] \in Block
  BY <1>1, HeapFields
<1>6. m \in [Addr -> Block]
  BY <1>3, <1>5
<1>7. \A a \in Addr : m[a] = IF a \in Objects(h) THEN b(a) ELSE h.mem[a]
  OBVIOUS
<1> HIDE DEF m, g
<1>8. h \in Heaps /\ \A a \in Addr : h.mem[a].kind = "data" => h.mem[a] = Data
  BY <1>1 DEF HeapType, Heaps
<1>9. \A a \in Addr : m[a].kind = "data" => m[a] = Data
  <2> SUFFICES ASSUME NEW a \in Addr, m[a].kind = "data" PROVE m[a] = Data
    OBVIOUS
  <2>1. a \notin Objects(h)
    BY <1>3, <1>7
  <2> QED BY <2>1, <1>7, <1>8
<1>10. g \in Heaps /\ g.mem = m /\ g.top = h.top /\ g.free = h.free /\ g.largest = h.largest
  BY <1>4, <1>6, <1>8 DEF Heaps
<1>11. HeapType(g)
  BY <1>9, <1>10 DEF HeapType, Heaps
<1>12. \A a \in Addr : /\ m[a].kind = h.mem[a].kind /\ m[a].len = h.mem[a].len
                       /\ m[a].next = h.mem[a].next /\ m[a].prev = h.mem[a].prev
  <2> SUFFICES ASSUME NEW a \in Addr
               PROVE /\ m[a].kind = h.mem[a].kind /\ m[a].len = h.mem[a].len
                     /\ m[a].next = h.mem[a].next /\ m[a].prev = h.mem[a].prev
    OBVIOUS
  <2>1. CASE a \in Objects(h)
    BY <2>1, <1>3, <1>7
  <2>2. CASE a \notin Objects(h)
    BY <2>2, <1>7
  <2> QED BY <2>1, <2>2
<1>13. Rereferenced(h, g)
  BY <1>10, <1>11, <1>12 DEF Rereferenced
<1>14. SameHeap(h, g)
  BY <1>13, RereferencedIsSame
<1>15. \A a \in Objects(h) : /\ g.mem[a].ref = RelocatedBy(reloc, h.mem[a].ref)
                              /\ g.mem[a].id = h.mem[a].id /\ g.mem[a].len = h.mem[a].len
                              /\ g.mem[a].pinned = h.mem[a].pinned
  BY <1>2, <1>3, <1>7, <1>10
<1> QED BY <1>14, <1>15 DEF IsRelocated, g

\* A table applied to the references of the roots and of the objects can be emptied.
LEMMA RelocationCloses ==
    ASSUME NEW h, NEW t, Closed(h, root, t), t = reloc, NEW g, IsRelocated(h, t, g)
    PROVE  Closed(g, RelocatedRoots, << >>)
<1>1. Objects(g) = Objects(h)
  BY DEF IsRelocated, SameHeap
<1>2. ASSUME NEW r \in Roots PROVE RelocatedBy(<< >>, RelocatedRoots[r]) \in Objects(g) \cup {NULL}
  <2>1. RelocatedRoots[r] = RelocatedBy(t, root[r])
    BY EmptyTable DEF RelocatedRoots
  <2> QED BY <2>1, <1>1, EmptyTable DEF Closed
<1>3. ASSUME NEW a \in Objects(g) PROVE RelocatedBy(<< >>, g.mem[a].ref) \in Objects(g) \cup {NULL}
  <2>1. g.mem[a].ref = RelocatedBy(t, h.mem[a].ref)
    BY <1>1 DEF IsRelocated
  <2> QED BY <2>1, <1>1, EmptyTable DEF Closed
<1> QED BY <1>2, <1>3 DEF Closed

\* The roots looked up in the table are references again.
LEMMA RelocatedRootsAre ==
    ASSUME NEW h, Closed(h, root, reloc)
    PROVE  RelocatedRoots \in [Roots -> Ref]
<1>1. \A r \in Roots : RelocatedBy(reloc, root[r]) \in Ref
  BY DEF Closed, Objects, Ref
<1>2. \A r \in Roots : Relocated(root[r]) \in Ref
  BY <1>1, EmptyTable
<1> QED BY <1>2 DEF RelocatedRoots

LEMMA IdleIs == Idle \in Comps /\ Idle.current = 0 /\ Idle.alive_last = NULL /\ Idle.free_last = NULL
<1>1. HeapSize \in Int /\ 0 <= HeapSize
  BY AddrNumbers
<1> QED BY <1>1 DEF Idle, Comps, Ref

\* Heap g is h cut at the slot top: what lies above is no longer a block, and the free list ends
\* with the last free block below.
CutAt(h, top, g) ==
    /\ Sound(g) /\ Hinted(g) /\ g.top = top
    /\ \A x : x \in FreeBlocks(g) <=> x \in FreeBlocks(h) /\ x < top
    /\ \A x : x \in Objects(g) <=> x \in Objects(h) /\ x < top
    /\ \A x \in Addr : After(g, x) = After(h, x)
    /\ \A x \in Objects(h) : g.mem[x] = h.mem[x]

\* Where the list passes the new top: the last free block before it is the one found.
LEMMA LastBelow ==
    ASSUME NEW h, HeapType(h), NEW F, OnList(h, F), NEW top \in Addr, h.free \in F, h.free < top,
           NEW last, \/ last = NULL /\ \A a \in F : ~(h.mem[a].next >= top)
                     \/ /\ last \in F /\ h.mem[last].next >= top
                        /\ \A b \in F : h.mem[b].next >= top => last <= b
    PROVE  /\ last = NULL => \A y \in F : y < top
           /\ last # NULL => last \in F /\ last < top /\ \A y \in F : y < top => y <= last
<1>1. /\ F \subseteq Addr /\ F \subseteq Int /\ top \in Int /\ 0 <= top /\ NULL = -1 /\ NULL \notin F /\ NULL \notin Addr
      /\ \A y \in F : 0 <= y
  BY AddrNumbers DEF OnList
<1>2. \A y \in F : /\ h.mem[y].prev \in F \cup {NULL} /\ h.mem[y].prev < y
                   /\ \A z \in F : z < y => z <= h.mem[y].prev
                   /\ \/ h.mem[y].next = NULL /\ \A z \in F : z <= y
                      \/ h.mem[y].next \in F /\ y < h.mem[y].next /\ \A z \in F : y < z => h.mem[y].next <= z
  BY DEF OnList, Linked, IsBefore, IsAfter
\* The block before one that lies at or above top has a link that leads there.
<1>3. ASSUME NEW z \in F, top <= z
      PROVE  \E p \in F : p < z /\ h.mem[p].next = z
  <2> DEFINE p == h.mem[z].prev
  <2>1. h.free < z /\ h.free \in Int
    <3>1. h.free \in Int /\ z \in Int /\ top \in Int
      BY <1>1
    <3> QED BY <3>1, <1>3
  <2>2. p \in F \cup {NULL} /\ p < z /\ h.free <= p /\ \A y \in F : y < z => y <= p
    BY <1>2, <2>1
  <2> HIDE DEF p
  <2>3. p # NULL
    <3>1. h.free \in Int /\ 0 <= h.free /\ NULL = -1
      BY <1>1
    <3>2. ~(h.free <= NULL)
      BY <3>1
    <3> QED BY <2>2, <3>2
  <2>4. p \in F /\ p \in Int /\ z \in Int
    BY <2>2, <2>3, <1>1
  <2> DEFINE n == h.mem[p].next
  <2>5. \/ n = NULL /\ \A y \in F : y <= p
        \/ n \in F /\ p < n /\ \A y \in F : p < y => n <= y
    BY <2>4, <1>2
  <2> HIDE DEF n
  <2>6. n \in F /\ n \in Int /\ p < n /\ n <= z
    <3>1. n \in F /\ p < n /\ n <= z
      <4>1. p < z /\ ~(z <= p)
        BY <2>2, <2>4
      <4> QED BY <4>1, <2>5
    <3> QED BY <3>1, <1>1
  <2>7. ~(n < z)
    BY <2>2, <2>4, <2>6
  <2>8. h.mem[p].next = z
    BY <2>4, <2>6, <2>7 DEF n
  <2> QED BY <2>2, <2>4, <2>8
<1>4. CASE last = NULL
  <2>1. \A y \in F : ~(h.mem[y].next >= top)
    BY <1>1, <1>4
  <2>2. ASSUME NEW z \in F, ~(z < top) PROVE FALSE
    <3>1. top <= z
      BY <2>2, <1>1
    <3>2. PICK p \in F : h.mem[p].next = z
      BY <3>1, <1>3
    <3> QED BY <3>1, <3>2, <2>1, <1>1
  <2> QED BY <2>2, <1>4
<1>5. CASE last # NULL
  <2>1. last \in F /\ last \in Int /\ h.mem[last].next >= top
    BY <1>1, <1>5
  <2>2. \A b \in F : h.mem[b].next >= top => last <= b
    BY <1>1, <1>5
  <2>3. last < top
    <3> SUFFICES ASSUME ~(last < top) PROVE FALSE
      OBVIOUS
    <3>1. top <= last
      BY <2>1, <1>1
    <3>2. PICK p \in F : p < last /\ h.mem[p].next = last
      BY <3>1, <2>1, <1>3
    <3>3. last <= p
      BY <3>1, <3>2, <2>2, <2>1, <1>1
    <3> QED BY <3>2, <3>3, <2>1, <1>1
  <2>4. ASSUME NEW y \in F, y < top PROVE y <= last
    <3> DEFINE n == h.mem[last].next
    <3>1. n = NULL \/ (n \in F /\ \A z \in F : last < z => n <= z)
      BY <2>1, <1>2
    <3>2. n >= top
      BY <2>1
    <3> HIDE DEF n
    <3>3. n # NULL
      BY <3>2, <1>1
    <3>4. n \in Int /\ y \in Int
      BY <3>1, <3>3, <1>1
    <3> QED BY <3>1, <3>2, <3>3, <3>4, <2>1, <2>4, <1>1
  <2> QED BY <2>1, <2>3, <2>4, <1>5
<1> QED BY <1>4, <1>5

\* pinta_gc_fixup_free_list cuts the heap at a slot where an object ends.
LEMMA FixupCuts ==
    ASSUME NEW h, Sound(h), Hinted(h), NEW al \in Objects(h) \cup {NULL},
           NEW top, top = (IF al = NULL THEN 0 ELSE After(h, al)),
           NEW g, g = FixupFreeList([h EXCEPT !.top = top])
    PROVE  CutAt(h, top, g)
<1> DEFINE F == FreeBlocks(h)
           h0 == [h EXCEPT !.top = top]
           h1 == IF h0.free >= h0.top THEN [h0 EXCEPT !.free = NULL] ELSE h0
           fits == {a \in Addr : h1.mem[a].next >= h1.top}
           last == FirstFree(h1, fits)
<1>1. HeapType(h) /\ Tiled(h) /\ OnList(h, F)
  BY DEF Sound
<1>2. g = IF h0.free = NULL \/ last = NULL THEN h1 ELSE SetNext(h1, last, NULL)
  BY DEF FixupFreeList
<1> HIDE DEF last, fits
<1>3. /\ h \in Heaps /\ h.free \in Ref /\ h.free \in Int
      /\ \A a \in Addr : h.mem[a].kind = "data" => h.mem[a] = Data
  BY <1>1, HeapFields, AddrNumbers DEF HeapType, Heaps
<1>4. /\ top \in Bounds(h) /\ top \in Addr /\ top \in Int /\ 0 <= top
      /\ al # NULL => al \in Objects(h) /\ al \in Blocks(h) /\ al \in Int /\ 0 <= al /\ al < top /\ After(h, al) = top
      /\ al = NULL => top = 0
  <2>1. al = NULL => top \in Bounds(h)
    BY <1>1, Tiles
  <2>2. al # NULL => al \in Blocks(h) /\ After(h, al) = top
    BY <1>1, BlocksAre
  <2>3. top \in Bounds(h)
    BY <2>1, <2>2, <1>1, Tiles
  <2>4. al # NULL => al < top /\ al \in Int /\ al \in Bounds(h)
    BY <2>2, <1>1, Tiles DEF Bounds
  <2> QED BY <2>2, <2>3, <2>4, <1>1, Tiles
\* No free block begins between the object and its end.
<1>5. ASSUME al # NULL, NEW y \in F, y < top PROVE y < al
  <2>1. y \in Blocks(h) /\ y \in Int /\ y # al
    BY <1>1, <1>4, <1>5, BlocksAre, Tiles
  <2>2. ~(al < y)
    <3>1. al < y => top <= y
      BY <2>1, <1>1, <1>4, <1>5, Tiles DEF Bounds
    <3> QED BY <3>1, <2>1, <1>4, <1>5
  <2> QED BY <2>1, <2>2, <1>4, <1>5
<1>6. /\ h0 \in Heaps /\ h0.mem = h.mem /\ h0.top = top /\ h0.free = h.free /\ h0.largest = h.largest
      /\ h1 \in Heaps /\ h1.mem = h.mem /\ h1.top = top /\ h1.largest = h.largest
      /\ h1.free = IF h.free >= top THEN NULL ELSE h.free
  <2>1. h0 \in Heaps /\ h0.mem = h.mem /\ h0.top = top /\ h0.free = h.free /\ h0.largest = h.largest
    BY <1>3, <1>4 DEF Heaps
  <2> HIDE DEF h0
  <2>2. CASE h.free >= top
    <3>1. h1 = [h0 EXCEPT !.free = NULL]
      BY <2>1, <2>2
    <3> QED BY <2>1, <2>2, <3>1 DEF Heaps, Ref
  <2>3. CASE ~(h.free >= top)
    BY <2>1, <2>3
  <2> QED BY <2>2, <2>3
<1> HIDE DEF h1, h0
<1>7. HeapType(h1)
  <2>1. \A a \in Addr : h1.mem[a].kind = "data" => h1.mem[a] = Data
    BY <1>3, <1>6
  <2> QED BY <2>1, <1>6 DEF HeapType, Heaps
<1>8. /\ F \subseteq Addr /\ (\A a \in F : h.mem[a].kind = "free") /\ Linked(h.mem, F) /\ IsAfter(F, NULL, h.free)
      /\ \A y \in F : y \in Int /\ 0 <= y
  BY <1>1, AddrNumbers DEF OnList
<1>9. h.free # NULL => h.free \in F /\ \A y \in F : h.free <= y
  <2>1. \A y \in F : NULL < y
    BY <1>8, AddrNumbers
  <2> HIDE DEF F
  <2> QED BY <2>1, <1>8 DEF IsAfter
<1>10. h.free = NULL => F = {}
  <2> SUFFICES ASSUME h.free = NULL, NEW y \in F PROVE FALSE
    OBVIOUS
  <2>1. NULL < y /\ ~(y <= NULL) /\ NULL \notin F
    BY <1>8, AddrNumbers
  <2> HIDE DEF F
  <2> QED BY <2>1, <1>8 DEF IsAfter
<1> DEFINE G == {a \in F : a < top}
<1> HIDE DEF F
<1>11. ASSUME h.free = NULL \/ h.free >= top PROVE IsCut(h1, F, top, g)
  <2>1. h1.free = NULL
    BY <1>6, <1>11
  <2>2. OnList(h1, {})
    BY <2>1 DEF OnList, Linked, IsAfter
  <2>3. last = NULL
    <3>1. fits \in SUBSET Addr /\ last = FirstFree(h1, fits)
      BY DEF last, fits
    <3> QED BY <3>1, <2>2, <1>7, FirstFreeIs
  <2>4. g = h1
    BY <2>3, <1>2
  <2>5. G = {}
    BY <1>4, <1>3, <1>8, <1>9, <1>10, <1>11
  <2>6. OnList(g, G)
    <3> HIDE DEF G
    <3> QED BY <2>2, <2>4, <2>5
  <2>7. \A x \in Addr : SameButLinks(g.mem[x], h1.mem[x]) /\ (h1.mem[x].kind # "free" => g.mem[x] = h1.mem[x])
    BY <2>4 DEF SameButLinks
  <2> QED BY <2>4, <2>6, <2>7, <1>6, <1>7 DEF IsCut
<1>12. ASSUME h.free # NULL /\ ~(h.free >= top) PROVE IsCut(h1, F, top, g)
  <2>1. h1.free = h.free /\ h.free < top /\ h.free \in F
    BY <1>3, <1>4, <1>6, <1>9, <1>12
  <2>2. OnList(h1, F)
    BY <2>1, <1>6, <1>8 DEF OnList
  <2>3. fits \in SUBSET Addr /\ last = FirstFree(h1, fits) /\ fits = {a \in Addr : h.mem[a].next >= top}
    BY <1>6 DEF last, fits
  <2>4. \/ last = NULL /\ \A a \in F : ~(h.mem[a].next >= top)
        \/ last \in F /\ h.mem[last].next >= top /\ \A b \in F : h.mem[b].next >= top => last <= b
    <3>1. \/ last = NULL /\ F \cap fits = {}
          \/ last \in F \cap fits /\ \A b \in F \cap fits : last <= b
      <4> HIDE DEF fits
      <4> QED BY <2>2, <2>3, <1>7, FirstFreeIs
    <3>2. \A a \in F : a \in fits <=> h.mem[a].next >= top
      BY <2>3, <1>8
    <3> HIDE DEF fits
    <3> QED BY <3>1, <3>2
  <2>5. /\ last = NULL => \A y \in F : y < top
        /\ last # NULL => last \in F /\ last < top /\ \A y \in F : y < top => y <= last
    <3>1. HeapType(h) /\ OnList(h, F)
      BY <1>1 DEF F
    <3> HIDE DEF fits, last, F, h0, h1
    <3> QED BY <3>1, <2>1, <2>4, <1>4, LastBelow
  <2>6. CASE last = NULL
    <3>1. g = h1 /\ G = F
      BY <2>5, <2>6, <1>2
    <3>2. OnList(g, G)
      <4> HIDE DEF G
      <4> QED BY <3>1, <2>2
    <3>3. \A x \in Addr : SameButLinks(g.mem[x], h1.mem[x]) /\ (h1.mem[x].kind # "free" => g.mem[x] = h1.mem[x])
      BY <3>1 DEF SameButLinks
    <3> QED BY <3>1, <3>2, <3>3, <1>6, <1>7 DEF IsCut
  <2>7. CASE last # NULL
    <3>1. g = CutTail(h1, last)
      BY <2>1, <2>7, <1>2, <1>6, <1>12 DEF CutTail
    <3>2. top # 0 /\ al # NULL
      BY <2>1, <1>4, <1>8
    <3>3. IsBefore(F, al, last)
      BY <2>5, <2>7, <3>2, <1>4, <1>5, <1>8 DEF IsBefore
    <3>4. CutList(h, F, top, last, h1)
      <4>1. F # {} /\ h1.free = IF h.free >= top THEN NULL ELSE h.free
        BY <2>1, <1>6
      <4>2. \E a \in Int : IsBefore(F, a, last) /\ a < top /\ 0 <= a /\ \A y \in F : y < top => y < a
        BY <3>2, <3>3, <1>4, <1>5
      <4> QED BY <4>1, <4>2, <3>2, <1>6, <1>8 DEF CutList
    <3> QED BY <3>1, <3>4, <1>4, <1>7, CutLinks
  <2> QED BY <2>6, <2>7
<1>13. /\ HeapType(g) /\ g.top = top /\ g.largest = h.largest
       /\ \A x \in Addr : SameButLinks(g.mem[x], h.mem[x])
       /\ \A x \in Addr : h.mem[x].kind # "free" => g.mem[x] = h.mem[x]
       /\ OnList(g, G)
  <2>1. IsCut(h1, F, top, g)
    BY <1>11, <1>12
  <2> HIDE DEF G
  <2> QED BY <2>1, <1>6 DEF IsCut, G
<1>14. /\ Tiled(h1) /\ \A x : x \in FreeBlocks(h1) <=> x \in FreeBlocks(h) /\ x < top
       /\ \A x : x \in Objects(h1) <=> x \in Objects(h) /\ x < top
       /\ \A x : After(h1, x) = After(h, x)
  BY <1>1, <1>4, <1>6, <1>7, TruncatedTiles
<1>15. /\ Tiled(g) /\ FreeBlocks(g) = FreeBlocks(h1) /\ Objects(g) = Objects(h1)
       /\ \A x \in Addr : After(g, x) = After(h1, x)
  <2>1. \A x \in Addr : g.mem[x].kind = h1.mem[x].kind /\ g.mem[x].len = h1.mem[x].len
    BY <1>6, <1>13 DEF SameButLinks
  <2> QED BY <2>1, <1>6, <1>7, <1>13, <1>14, SameBlocks
<1>16. FreeBlocks(g) = G
  BY <1>14, <1>15 DEF F
<1>17. Sound(g)
  BY <1>13, <1>15, <1>16 DEF Sound
<1>18. Hinted(g)
  <2>1. \A x \in G : x \in Addr /\ h.mem[x].len <= h.largest
    BY <1>8 DEF Hinted, F
  <2> QED BY <2>1, <1>13, <1>16 DEF Hinted, SameButLinks
<1>19. \A x \in Objects(h) : g.mem[x] = h.mem[x]
  BY <1>13 DEF Objects, InUse, IsObject
<1> QED BY <1>13, <1>14, <1>15, <1>17, <1>18, <1>19 DEF CutAt

\* When every block has been looked at, and every object counted, the heap is cut where the last
\* object ends: no object is lost.
LEMMA LoopEnds ==
    ASSUME NEW h, Sound(h), Hinted(h), NEW al \in Objects(h) \cup {NULL}, \A a \in Objects(h) : a <= al,
           NEW top, top = (IF al = NULL THEN 0 ELSE After(h, al)),
           NEW g, g = FixupFreeList([h EXCEPT !.top = top])
    PROVE  /\ Rested(g) /\ Objects(g) = Objects(h) /\ \A a \in Objects(h) : g.mem[a] = h.mem[a]
           /\ FreeBlocks(g) = {a \in FreeBlocks(h) : a < top}
<1>1. CutAt(h, top, g)
  BY FixupCuts
<1>2. HeapType(h) /\ Tiled(h)
  BY DEF Sound
<1>3. al # NULL => al \in Objects(h) /\ al \in Addr /\ al < top /\ After(h, al) = top /\ top \in Int
  <2>1. al # NULL => al \in Blocks(h) /\ al \in Addr
    BY <1>2, BlocksAre DEF Objects
  <2> QED BY <2>1, <1>2, Tiles
<1>4. \A a \in Objects(h) : a < top
  <2> SUFFICES ASSUME NEW a \in Objects(h) PROVE a < top
    OBVIOUS
  <2>1. a \in Int /\ al \in Int /\ 0 <= a /\ NULL = -1
    BY AddrNumbers DEF Objects
  <2>2. al # NULL
    BY <2>1
  <2> QED BY <2>1, <2>2, <1>3
<1>5. Objects(g) = Objects(h) /\ \A a \in Objects(h) : g.mem[a] = h.mem[a]
  BY <1>1, <1>4 DEF CutAt
<1>6. FreeBlocks(g) = {a \in FreeBlocks(h) : a < top}
  BY <1>1 DEF CutAt
<1>7. TopEnds(g)
  BY <1>1, <1>3, <1>5 DEF CutAt, TopEnds
<1> QED BY <1>1, <1>5, <1>6, <1>7 DEF CutAt, Rested

-----------------------------------------------------------------------------
(* The iterations of the compactor preserve the invariant *)

\* What is known at an iteration.
AtBlock(h, k) ==
    /\ k.current \in Blocks(h) /\ k.current \in Addr /\ k.current \in Int
    /\ After(h, k.current) \in Bounds(h) /\ After(h, k.current) \in Int
    /\ k.current < After(h, k.current) /\ After(h, k.current) \in 0 .. HeapSize
    /\ After(h, k.current) = k.current + h.mem[k.current].len
    /\ \A x \in Bounds(h) : x \in Int /\ (x <= k.current \/ After(h, k.current) <= x)

LEMMA LoopAtBlock ==
    ASSUME NEW h, HeapType(h), Tiled(h), NEW k, k.current \in Bounds(h), k.current < h.top
    PROVE  AtBlock(h, k)
<1> DEFINE c == k.current
<1>1. c \in Bounds(h)
  OBVIOUS
<1>2. c \in Addr /\ c \in Int /\ c \in Blocks(h)
  <2>1. c \in Addr /\ c \in Int /\ (c # h.top => c \in Blocks(h))
    BY <1>1, Tiles
  <2>2. h.top \in Int
    BY HeapFields, AddrNumbers
  <2> QED BY <2>1, <2>2
<1>3. /\ After(h, c) \in Bounds(h) /\ c < After(h, c) /\ After(h, c) = c + h.mem[c].len
      /\ \A x \in Bounds(h) : c < x => After(h, c) <= x
  BY <1>2, Tiles
<1>4. After(h, c) \in Addr /\ \A x \in Bounds(h) : x \in Int
  BY <1>3, Tiles
<1>5. After(h, c) \in Int /\ After(h, c) \in 0 .. HeapSize
  <2>1. HeapSize \in Int /\ \A a \in Addr : a \in Int /\ 0 <= a /\ a < HeapSize
    BY AddrNumbers
  <2> HIDE DEF c
  <2> QED BY <2>1, <1>4
<1> HIDE DEF c
<1>6. \A x \in Bounds(h) : x \in Int /\ (x <= c \/ After(h, c) <= x)
  BY <1>2, <1>3, <1>4
<1> QED BY <1>2, <1>3, <1>5, <1>6 DEF AtBlock, c

LEMMA LoopAt ==
    ASSUME GcInv, pc = "compact", current < heap.top
    PROVE  /\ Sound(heap) /\ Hinted(heap) /\ HeapType(heap) /\ Tiled(heap)
           /\ AtBlock(heap, comp) /\ Roaming(heap, comp, reloc) /\ next = After(heap, current)
           /\ root \in [Roots -> Ref] /\ comp \in Comps /\ Table(reloc) /\ Closed(heap, root, reloc)
           /\ request = NoRequest \/ request \in Requests
           /\ PinBelow(heap, comp) \/ Compacting(heap, comp)
           /\ \A x \in Blocks(heap) : x \in Bounds(heap) /\ (x \in FreeBlocks(heap) \/ x \in Objects(heap))
           /\ \A x \in FreeBlocks(heap) : x \in Blocks(heap) /\ x \in Addr /\ x \in Int /\ x # NULL
           /\ \A x \in Objects(heap) : x \in Blocks(heap) /\ x \in Addr /\ x \in Int /\ x \notin FreeBlocks(heap)
           /\ \A i \in DOMAIN reloc : reloc[i].end \in Int
<1>1. /\ Sound(heap) /\ Hinted(heap) /\ Roaming(heap, comp, reloc)
      /\ root \in [Roots -> Ref] /\ comp \in Comps /\ Table(reloc) /\ Closed(heap, root, reloc)
      /\ request = NoRequest \/ request \in Requests
      /\ PinBelow(heap, comp) \/ Compacting(heap, comp)
  BY DEF GcInv
<1>2. HeapType(heap) /\ Tiled(heap)
  BY <1>1 DEF Sound
<1>3. AtBlock(heap, comp)
  BY <1>1, <1>2, LoopAtBlock DEF Roaming, current
<1>4. next = After(heap, current)
  BY DEF next, Size, After
<1>5. \A i \in DOMAIN reloc : reloc[i].end \in Int
  <2>1. \A i \in DOMAIN reloc : reloc[i] \in Moves
    BY <1>1 DEF Table
  <2> QED BY <2>1, AddrNumbers DEF Moves
<1>6. /\ \A x \in Blocks(heap) : x \in Bounds(heap) /\ (x \in FreeBlocks(heap) \/ x \in Objects(heap))
      /\ \A x \in FreeBlocks(heap) : x \in Blocks(heap) /\ x \in Addr /\ x \in Int /\ x # NULL
      /\ \A x \in Objects(heap) : x \in Blocks(heap) /\ x \in Addr /\ x \in Int /\ x \notin FreeBlocks(heap)
  <2>1. \A x \in Blocks(heap) : x \in Bounds(heap) /\ (x \in FreeBlocks(heap) \/ x \in Objects(heap))
    BY <1>2, BlocksAre DEF Bounds
  <2>2. \A x \in FreeBlocks(heap) : x \in Blocks(heap) /\ x \in Addr
    BY <1>2, BlocksAre
  <2>3. \A x \in Objects(heap) : x \in Blocks(heap) /\ x \in Addr /\ x \notin FreeBlocks(heap)
    BY <1>2, BlocksAre
  <2> QED BY <2>1, <2>2, <2>3, AddrNumbers
<1> QED BY <1>1, <1>2, <1>3, <1>4, <1>5, <1>6

\* What has been moved lies below the slot reached.
LEMMA TableWithin ==
    ASSUME NEW g, Sound(g), NEW k, k.current \in Bounds(g), NEW t, NEW e \in Int, e <= k.current,
           \A i \in DOMAIN t : t[i].end \in Int /\ t[i].end <= e
    PROVE  \A i \in DOMAIN t : t[i].end <= Scanned(g, k)
<1>1. k.current \in Int
  BY Tiles DEF Sound
<1>2. Scanned(g, k) \in Int /\ k.current <= Scanned(g, k)
  <2>1. CASE k.current \in FreeBlocks(g)
    <3>1. /\ g.mem[k.current].len \in Int /\ 1 <= g.mem[k.current].len
          /\ After(g, k.current) = k.current + g.mem[k.current].len
      BY <2>1, FreeBlockAt
    <3> QED BY <2>1, <3>1, <1>1 DEF Scanned
  <2>2. CASE k.current \notin FreeBlocks(g)
    BY <2>2, <1>1 DEF Scanned
  <2> QED BY <2>1, <2>2
<1> QED BY <1>1, <1>2

\* Where nothing below is pinned, the free block carried along ends at the object the compactor
\* has reached, and pinta_gc_find_free_object finds it: no free block lies below it.
LEMMA FreeObjectIs ==
    ASSUME GcInv, pc = "compact", current < heap.top, Compacting(heap, comp),
           current \in Objects(heap), comp.free_last # NULL
    PROVE  /\ FreeObject = comp.free_last /\ comp.free_last \in FreeBlocks(heap)
           /\ After(heap, comp.free_last) = current /\ comp.free_last # current /\ comp.free_last < current
           /\ Packed(heap, comp.free_last, comp.alive_last)
<1> DEFINE F == FreeBlocks(heap)
           fl == comp.free_last
           fits == {a \in Addr : a >= current \/ Size(a) <= Size(current) \/ After(heap, a) = current}
<1>1. Sound(heap)
  BY DEF GcInv
<1>2. HeapType(heap) /\ OnList(heap, F)
  BY <1>1 DEF Sound
<1>3. fl \in F /\ (fl = current \/ After(heap, fl) = current) /\ Packed(heap, fl, comp.alive_last)
  BY DEF Compacting, current
<1>4. F \cap Objects(heap) = {} /\ \A x \in F : x \in Blocks(heap) /\ x \in Addr
  BY <1>2, BlocksAre DEF FreeBlocks
<1>5. fl # current /\ After(heap, fl) = current
  BY <1>3, <1>4
<1>6. fl < current
  <2>1. fl \in Blocks(heap) /\ Tiled(heap)
    BY <1>1, <1>3, <1>4 DEF Sound
  <2>2. fl < After(heap, fl)
    BY <2>1, <1>2, Tiles
  <2> QED BY <2>2, <1>5
<1>7. fl \in F \cap fits
  BY <1>3, <1>4, <1>5
<1>8. FreeObject = FirstFree(heap, fits) /\ fits \in SUBSET Addr
  BY DEF FreeObject
<1> HIDE DEF fits
<1>9. FreeObject \in F \cap fits /\ \A b \in F \cap fits : FreeObject <= b
  BY <1>2, <1>7, <1>8, FirstFreeIs
<1>10. FreeObject = fl
  <2>1. FreeObject <= fl /\ FreeObject \in Blocks(heap) /\ FreeObject \notin Objects(heap)
    BY <1>4, <1>7, <1>9
  <2>2. ~(FreeObject < fl)
    BY <2>1, <1>3 DEF Packed
  <2>3. FreeObject \in Int /\ fl \in Int
    BY <1>3, <1>4, <1>9, AddrNumbers
  <2> QED BY <2>1, <2>2, <2>3
<1> QED BY <1>3, <1>5, <1>6, <1>10

\* In general the block found is a free block below the current object, which it touches or
\* is not longer than.  One that touches it is the free block carried along.
FoundAt(to) ==
    /\ current \in Objects(heap) /\ ~heap.mem[current].pinned
    /\ to \in FreeBlocks(heap) /\ to < current
    /\ comp.free_last \in FreeBlocks(heap) /\ to <= comp.free_last /\ comp.free_last < current
    /\ After(heap, to) # current => heap.mem[to].len <= heap.mem[current].len
    /\ After(heap, to) = current => to = comp.free_last
    /\ Compacting(heap, comp) => After(heap, to) = current /\ Packed(heap, to, comp.alive_last)

LEMMA TargetIs ==
    ASSUME GcInv, pc = "compact", current < heap.top, MoveFound
    PROVE  FoundAt(Target)
<1> DEFINE F == FreeBlocks(heap)
           fl == comp.free_last
           fits == {a \in Addr : a >= current \/ Size(a) <= Size(current) \/ After(heap, a) = current}
<1>1. /\ Sound(heap) /\ HeapType(heap) /\ Tiled(heap) /\ AtBlock(heap, comp) /\ Roaming(heap, comp, reloc)
      /\ \A x \in F : x \in Blocks(heap) /\ x \in Addr /\ x \in Int /\ x # NULL
      /\ \A x \in Blocks(heap) : x \in Bounds(heap)
  BY LoopAt
<1>2. /\ IsObject(heap, current) /\ ~heap.mem[current].pinned
      /\ fl # NULL /\ Target = FreeObject /\ Target # NULL /\ Target < current
  BY DEF MoveFound, Movable, Target
<1>3. current \in Objects(heap) /\ current \in Int /\ current \notin F
  <2>1. current \in Objects(heap)
    BY <1>1, <1>2, BlocksAre DEF AtBlock, current
  <2> QED BY <2>1, <1>1, BlocksAre DEF AtBlock, current
<1>4. FreeObject = FirstFree(heap, fits) /\ fits \in SUBSET Addr
  BY DEF FreeObject
<1>5. Target \in F \cap fits
  <2> HIDE DEF fits
  <2>1. OnList(heap, F)
    BY <1>1 DEF Sound
  <2> QED BY <2>1, <1>1, <1>2, <1>4, FirstFreeIs
<1>6. After(heap, Target) # current => heap.mem[Target].len <= heap.mem[current].len
  BY <1>1, <1>2, <1>3, <1>5 DEF Size
<1>7. fl \in F /\ fl <= current /\ Target <= fl
  BY <1>1, <1>2, <1>5 DEF Roaming, current
<1>8. fl < current
  BY <1>1, <1>3, <1>7
<1>9. ASSUME After(heap, Target) = current PROVE Target = fl
  <2>1. Target < fl => After(heap, Target) <= fl
    BY <1>1, <1>5, <1>7, Tiles
  <2> QED BY <2>1, <1>1, <1>3, <1>5, <1>7, <1>8, <1>9
<1>10. Compacting(heap, comp) => After(heap, Target) = current /\ Packed(heap, Target, comp.alive_last)
  BY <1>2, <1>3, FreeObjectIs
<1> QED BY <1>2, <1>3, <1>5, <1>6, <1>7, <1>8, <1>9, <1>10 DEF FoundAt

\* The last live block lies below the free block carried along.
LEMMA LastIsLower ==
    ASSUME NEW h, Sound(h), NEW to, to \in Blocks(h), NEW last \in Ref, Packed(h, to, last)
    PROVE  last < to
<1>1. HeapType(h) /\ Tiled(h)
  BY DEF Sound
<1>2. CASE last = NULL /\ to = 0
  BY <1>2, AddrNumbers
<1>3. CASE last \in Objects(h) /\ After(h, last) = to
  <2>1. last \in Blocks(h)
    BY <1>1, <1>3, BlocksAre
  <2> QED BY <2>1, <1>1, <1>3, Tiles
<1> QED BY <1>2, <1>3 DEF Packed

\* What is pinned below the current slot stays there.
LEMMA PinStaysBelow ==
    ASSUME NEW h, NEW k, PinBelow(h, k), NEW g, NEW l,
           \A a \in Objects(h) : a < k.current =>
                 a \in Objects(g) /\ g.mem[a].pinned = h.mem[a].pinned /\ a < l.current
    PROVE  PinBelow(g, l)
BY DEF PinBelow

\* The iterations that go on to the next block: the one at current stays in place.
LEMMA GoOn ==
    ASSUME GcInv, pc = "compact", current < heap.top, current \in Objects(heap),
           UNCHANGED <<heap, reloc, root, pc, request>>,
           NEW last, last = current \/ last = comp.alive_last,
           comp' = [comp EXCEPT !.current = next, !.alive_last = last]
    PROVE  /\ comp'.current = After(heap, current) /\ comp'.free_last = comp.free_last
           /\ comp'.alive_last = last /\ comp' \in Comps
           /\ Roaming(heap', comp', reloc')
           /\ PinBelow(heap, comp) \/ heap.mem[current].pinned => PinBelow(heap', comp')
<1> DEFINE e == After(heap, current)
<1>1. /\ Sound(heap) /\ AtBlock(heap, comp) /\ Roaming(heap, comp, reloc) /\ next = e /\ comp \in Comps
      /\ \A x \in FreeBlocks(heap) : x \in Blocks(heap) /\ x \in Int
      /\ \A x \in Blocks(heap) : x \in Bounds(heap)
      /\ \A x \in Objects(heap) : x \notin FreeBlocks(heap) /\ x \in Int
      /\ \A i \in DOMAIN reloc : reloc[i].end \in Int
  BY LoopAt
<1>2. /\ e \in Bounds(heap) /\ e \in Int /\ e \in 0 .. HeapSize /\ current \in Int /\ current < e
      /\ current \in Addr /\ current \in Ref /\ current \notin FreeBlocks(heap)
      /\ \A x \in Bounds(heap) : x \in Int /\ (x <= current \/ e <= x)
  BY <1>1 DEF AtBlock, current, Ref
<1> HIDE DEF e
<1>3. comp.alive_last \in Ref /\ comp.free_last \in Ref
  BY <1>1 DEF Comps
<1>4. /\ comp'.current = e /\ comp'.free_last = comp.free_last /\ comp'.alive_last = last /\ comp' \in Comps
  BY <1>1, <1>2, <1>3 DEF Comps
<1>5. /\ comp.alive_last \in Objects(heap) \cup {NULL} /\ comp.alive_last < current /\ comp.alive_last \in Int
      /\ comp.free_last # NULL =>
            /\ comp.free_last \in FreeBlocks(heap) /\ comp.free_last <= current
            /\ \A a \in FreeBlocks(heap) : a < current => a <= comp.free_last
      /\ \A i \in DOMAIN reloc : reloc[i].end <= current
  BY <1>1, <1>2, <1>3, AddrNumbers DEF Roaming, Scanned, current
<1>6. last \in Objects(heap) \cup {NULL} /\ last < e
  BY <1>2, <1>5
<1>7. comp.free_last # NULL =>
            /\ comp.free_last \in FreeBlocks(heap) /\ comp.free_last <= e
            /\ \A a \in FreeBlocks(heap) : a < e => a <= comp.free_last
  <2> SUFFICES ASSUME comp.free_last # NULL
               PROVE  /\ comp.free_last \in FreeBlocks(heap) /\ comp.free_last <= e
                      /\ \A a \in FreeBlocks(heap) : a < e => a <= comp.free_last
    OBVIOUS
  <2>1. comp.free_last \in FreeBlocks(heap) /\ comp.free_last <= e
    BY <1>1, <1>2, <1>5
  <2>2. ASSUME NEW a \in FreeBlocks(heap), a < e PROVE a <= comp.free_last
    <3>1. a \in Bounds(heap) /\ a \in Int /\ a # current
      BY <1>1, <1>2
    <3>2. a < current
      BY <3>1, <2>2, <1>2
    <3> QED BY <3>2, <1>5
  <2> QED BY <2>1, <2>2
<1>8. \A i \in DOMAIN reloc : reloc[i].end <= Scanned(heap, comp')
  <2>1. comp'.current \in Bounds(heap) /\ current <= comp'.current
    BY <1>2, <1>4
  <2> QED BY <2>1, <1>1, <1>2, <1>5, TableWithin
<1>9. Roaming(heap', comp', reloc')
  BY <1>2, <1>4, <1>6, <1>7, <1>8 DEF Roaming
<1>10. PinBelow(heap, comp) \/ heap.mem[current].pinned => PinBelow(heap', comp')
  <2>1. \A a \in Objects(heap) : a < current => a < e
    BY <1>1, <1>2
  <2>2. PinBelow(heap, comp) => PinBelow(heap', comp')
    BY <2>1, <1>4, PinStaysBelow DEF current
  <2>3. heap.mem[current].pinned => PinBelow(heap', comp')
    BY <1>2, <1>4 DEF PinBelow
  <2> QED BY <2>2, <2>3
<1> QED BY <1>4, <1>9, <1>10 DEF e

\* What stays in place counts as the last live block; unless something is pinned, there is no
\* free block below it.
LEMMA KeepKeeps == GcInv /\ KeepInPlace => GcInv'
<1> SUFFICES ASSUME GcInv, KeepInPlace PROVE GcInv'
  OBVIOUS
<1>1. /\ pc = "compact" /\ current < heap.top /\ UNCHANGED <<heap, reloc, root, pc, request>>
      /\ comp' = [comp EXCEPT !.current = next, !.alive_last = current]
      /\ IsObject(heap, current)
  BY DEF KeepInPlace, Looping, Movable
<1>2. /\ Sound(heap) /\ Hinted(heap) /\ HeapType(heap) /\ AtBlock(heap, comp) /\ Roaming(heap, comp, reloc)
      /\ root \in [Roots -> Ref] /\ Table(reloc) /\ Closed(heap, root, reloc)
      /\ request = NoRequest \/ request \in Requests
      /\ PinBelow(heap, comp) \/ Compacting(heap, comp)
      /\ \A x \in Blocks(heap) : x \in Bounds(heap)
      /\ \A x \in FreeBlocks(heap) : x \in Int /\ x # NULL
  BY <1>1, LoopAt
<1>3. current \in Objects(heap)
  BY <1>1, <1>2, BlocksAre DEF AtBlock, current
<1> DEFINE e == After(heap, current)
<1>4. /\ comp'.current = e /\ comp'.free_last = comp.free_last /\ comp'.alive_last = current /\ comp' \in Comps
      /\ Roaming(heap', comp', reloc')
      /\ PinBelow(heap, comp) \/ heap.mem[current].pinned => PinBelow(heap', comp')
  BY <1>1, <1>3, GoOn
<1>5. PinBelow(heap', comp') \/ Compacting(heap', comp')
  <2> SUFFICES ASSUME ~heap.mem[current].pinned, Compacting(heap, comp) PROVE Compacting(heap', comp')
    BY <1>2, <1>4
  <2>1. Movable
    BY <1>1 DEF Movable
  <2>2. comp.free_last = NULL
    <3>1. CASE comp.free_last # NULL /\ (FreeObject = NULL \/ FreeObject > current)
      <4>1. /\ FreeObject = comp.free_last /\ comp.free_last < current /\ comp.free_last \in FreeBlocks(heap)
        BY <1>1, <1>3, <3>1, FreeObjectIs
      <4>2. comp.free_last \in Int /\ comp.free_last # NULL
        BY <4>1, <1>2
      <4> QED BY <4>1, <4>2, <3>1, <1>2 DEF AtBlock, current
    <3> QED BY <2>1, <3>1 DEF KeepInPlace
  <2>3. \A x \in Blocks(heap) : x < current => x \in Objects(heap)
    <3>1. Packed(heap, current, comp.alive_last)
      BY <1>2, <2>2 DEF Compacting, current
    <3> QED BY <3>1 DEF Packed
  <2>4. \A x \in Blocks(heap) : x \in Int /\ (x <= current \/ e <= x)
    BY <1>2 DEF AtBlock, current
  <2>5. current \in Int /\ e \in Int
    BY <1>2 DEF AtBlock, current
  <2>6. \A x \in Blocks(heap) : x < e => x \in Objects(heap)
    <3> HIDE DEF e
    <3> QED BY <2>3, <2>4, <2>5, <1>3
  <2>7. Packed(heap, e, current)
    BY <2>6, <1>3 DEF Packed
  <2> QED BY <2>2, <2>7, <1>1, <1>4 DEF Compacting
<1>6. Sound(heap') /\ Hinted(heap') /\ root' \in [Roots -> Ref] /\ Table(reloc') /\ Closed(heap', root', reloc')
  BY <1>1, <1>2
<1> QED BY <1>1, <1>2, <1>4, <1>5, <1>6 DEF GcInv

\* What is left behind is not counted; something below it is pinned.
LEMMA LeaveKeeps == GcInv /\ LeaveBehind => GcInv'
<1> SUFFICES ASSUME GcInv, LeaveBehind PROVE GcInv'
  OBVIOUS
<1>1. /\ pc = "compact" /\ current < heap.top /\ UNCHANGED <<heap, reloc, root, pc, request>>
      /\ comp' = [comp EXCEPT !.current = next] /\ MoveFound /\ After(heap, Target) # current
  BY DEF LeaveBehind, Looping
<1>2. /\ Sound(heap) /\ Hinted(heap) /\ root \in [Roots -> Ref] /\ Table(reloc) /\ Closed(heap, root, reloc)
      /\ request = NoRequest \/ request \in Requests
      /\ PinBelow(heap, comp) \/ Compacting(heap, comp)
  BY <1>1, LoopAt
<1>3. FoundAt(Target)
  BY <1>1, TargetIs
<1>4. current \in Objects(heap) /\ PinBelow(heap, comp)
  BY <1>1, <1>2, <1>3 DEF FoundAt
<1>5. comp' = [comp EXCEPT !.current = next, !.alive_last = comp.alive_last]
  <2>1. comp \in Comps
    BY <1>1, LoopAt
  <2> QED BY <2>1, <1>1 DEF Comps
<1>6. comp' \in Comps /\ Roaming(heap', comp', reloc') /\ PinBelow(heap', comp')
  BY <1>1, <1>4, <1>5, GoOn
<1>7. Sound(heap') /\ Hinted(heap') /\ root' \in [Roots -> Ref] /\ Table(reloc') /\ Closed(heap', root', reloc')
  BY <1>1, <1>2
<1> QED BY <1>1, <1>2, <1>6, <1>7 DEF GcInv

\* A free block joins the one carried along, or is the one carried along from now on.
LEMMA PassKeeps == GcInv /\ PassFree => GcInv'
<1> SUFFICES ASSUME GcInv, PassFree PROVE GcInv'
  OBVIOUS
<1> DEFINE fl == comp.free_last
           e == After(heap, current)
<1>1. /\ pc = "compact" /\ current < heap.top /\ UNCHANGED <<reloc, root, pc, request>>
      /\ IsFree(heap, current)
  BY DEF PassFree, Looping
<1>2. /\ Sound(heap) /\ Hinted(heap) /\ HeapType(heap) /\ Tiled(heap)
      /\ AtBlock(heap, comp) /\ Roaming(heap, comp, reloc) /\ next = e
      /\ root \in [Roots -> Ref] /\ comp \in Comps /\ Table(reloc) /\ Closed(heap, root, reloc)
      /\ request = NoRequest \/ request \in Requests
      /\ PinBelow(heap, comp) \/ Compacting(heap, comp)
      /\ \A x \in Blocks(heap) : x \in Bounds(heap)
      /\ \A x \in FreeBlocks(heap) : x \in Blocks(heap) /\ x \in Addr /\ x \in Int /\ x # NULL
      /\ \A x \in Objects(heap) : x \in Blocks(heap) /\ x \in Int /\ x \notin FreeBlocks(heap)
      /\ \A i \in DOMAIN reloc : reloc[i].end \in Int
  BY <1>1, LoopAt
<1>3. current \in FreeBlocks(heap)
  BY <1>1, <1>2, BlocksAre DEF AtBlock, current
<1>4. /\ e \in Bounds(heap) /\ e \in Int /\ e \in 0 .. HeapSize /\ current \in Int /\ current < e
      /\ current \in Addr /\ current \in Ref
      /\ \A x \in Bounds(heap) : x \in Int /\ (x <= current \/ e <= x)
  BY <1>2 DEF AtBlock, current, Ref
<1>5. /\ comp.alive_last \in Objects(heap) \cup {NULL} /\ comp.alive_last < current /\ comp.alive_last \in Int
      /\ fl # NULL => /\ fl \in FreeBlocks(heap) /\ fl <= current
                      /\ \A a \in FreeBlocks(heap) : a < current => a <= fl
      /\ \A i \in DOMAIN reloc : reloc[i].end <= e
  <2>1. comp.alive_last \in Int
    BY <1>2, AddrNumbers DEF Comps
  <2>2. Scanned(heap, comp) = e
    BY <1>3 DEF Scanned, current
  <2> HIDE DEF e
  <2> QED BY <2>1, <2>2, <1>2 DEF Roaming, current
<1>6. \A a \in FreeBlocks(heap) : a < e => a <= current
  BY <1>2, <1>4
<1> HIDE DEF e
<1>7. CASE fl # NULL /\ After(heap, fl) = current
  <2>1. heap' = FreeMerge(heap, fl) /\ comp' = [comp EXCEPT !.current = next]
    BY <1>7 DEF PassFree
  <2>2. fl \in FreeBlocks(heap)
    BY <1>5, <1>7
  <2>3. Joined(heap, fl, current, heap')
    BY <2>1, <2>2, <1>2, <1>3, <1>7, MergeJoins
  <2>4. /\ Sound(heap') /\ heap'.top = heap.top /\ Hinted(heap')
        /\ FreeBlocks(heap') = FreeBlocks(heap) \ {current} /\ Objects(heap') = Objects(heap)
        /\ Bounds(heap') = Bounds(heap) \ {current}
        /\ \A a \in Objects(heap) : heap'.mem[a] = heap.mem[a] /\ After(heap', a) = After(heap, a)
        /\ After(heap', fl) = e
    BY <2>3, <1>2 DEF Joined, e
  <2>5. fl \in Int /\ fl < current /\ fl \in Blocks(heap)
    <3>1. fl \in Blocks(heap) /\ fl \in Int
      BY <2>2, <1>2
    <3>2. fl < After(heap, fl)
      BY <3>1, <1>2, Tiles
    <3> QED BY <3>1, <3>2, <1>7
  <2>6. comp'.current = e /\ comp'.free_last = fl /\ comp'.alive_last = comp.alive_last /\ comp' \in Comps
    BY <2>1, <1>2, <1>4 DEF Comps
  <2>7. fl # current /\ fl # e /\ e # current /\ e \in Bounds(heap')
    BY <2>4, <2>5, <1>4
  <2>8. Roaming(heap', comp', reloc')
    <3>1. \A a \in FreeBlocks(heap') : a < e => a <= fl
      BY <2>4, <1>2, <1>4, <1>5, <1>6, <1>7
    <3>2. \A i \in DOMAIN reloc : reloc[i].end <= Scanned(heap', comp')
      BY <2>4, <2>6, <2>7, <1>2, <1>4, <1>5, TableWithin
    <3>3. comp.alive_last < e /\ fl <= e
      BY <2>5, <1>4, <1>5
    <3> QED BY <3>1, <3>2, <3>3, <2>2, <2>4, <2>6, <2>7, <1>1, <1>5 DEF Roaming
  <2>9. PinBelow(heap, comp) => PinBelow(heap', comp')
    <3>1. \A a \in Objects(heap) : a < current => a < e
      BY <1>2, <1>4
    <3> QED BY <3>1, <2>4, <2>6, PinStaysBelow DEF current
  <2>10. Compacting(heap, comp) => Compacting(heap', comp')
    <3> SUFFICES ASSUME Compacting(heap, comp) PROVE Compacting(heap', comp')
      OBVIOUS
    <3>1. Packed(heap, fl, comp.alive_last)
      BY <1>7 DEF Compacting
    <3>2. ASSUME NEW x \in Blocks(heap'), x < fl PROVE x \in Objects(heap')
      <4>1. x \in Bounds(heap) /\ x < fl /\ fl < heap.top /\ x \in Int /\ heap.top \in Int
        <5>1. x \in Bounds(heap)
          BY <2>4 DEF Bounds
        <5>2. x \in Int /\ heap.top \in Int
          BY <5>1, <1>2, Tiles
        <5> QED BY <5>1, <5>2, <3>2, <2>2 DEF FreeBlocks
      <4>2. x \in Blocks(heap)
        BY <4>1, <2>5, <1>2, Tiles
      <4> QED BY <4>2, <3>1, <3>2, <2>4 DEF Packed
    <3>3. Packed(heap', fl, comp.alive_last)
      BY <3>1, <3>2, <2>4 DEF Packed
    <3> QED BY <3>3, <2>2, <2>4, <2>6, <2>7 DEF Compacting
  <2>11. Closed(heap', root', reloc')
    BY <1>1, <1>2, <2>4 DEF Closed
  <2>12. root' \in [Roots -> Ref] /\ Table(reloc')
    BY <1>1, <1>2
  <2> QED BY <2>4, <2>6, <2>8, <2>9, <2>10, <2>11, <2>12, <1>1, <1>2 DEF GcInv
<1>8. CASE ~(fl # NULL /\ After(heap, fl) = current)
  <2>1. heap' = heap /\ comp' = [comp EXCEPT !.current = next, !.free_last = current]
    BY <1>8 DEF PassFree
  <2>2. comp'.current = e /\ comp'.free_last = current /\ comp'.alive_last = comp.alive_last /\ comp' \in Comps
    BY <2>1, <1>2, <1>4 DEF Comps
  <2>3. Roaming(heap', comp', reloc')
    <3>1. \A i \in DOMAIN reloc : reloc[i].end <= Scanned(heap', comp')
      <4>1. Sound(heap') /\ comp'.current \in Bounds(heap') /\ e <= comp'.current
        BY <2>1, <2>2, <1>2, <1>4
      <4>2. \A i \in DOMAIN reloc : reloc[i].end \in Int /\ reloc[i].end <= e
        BY <1>2, <1>5
      <4> QED BY <4>1, <4>2, <1>4, TableWithin
    <3>2. comp.alive_last < e /\ current <= e
      BY <1>4, <1>5
    <3> QED BY <3>1, <3>2, <2>1, <2>2, <1>1, <1>3, <1>4, <1>5, <1>6 DEF Roaming
  <2>4. PinBelow(heap, comp) => PinBelow(heap', comp')
    <3>1. \A a \in Objects(heap) : a < current => a < e
      BY <1>2, <1>4
    <3> QED BY <3>1, <2>1, <2>2, PinStaysBelow DEF current
  <2>5. Compacting(heap, comp) => Compacting(heap', comp')
    <3> SUFFICES ASSUME Compacting(heap, comp) PROVE Compacting(heap', comp')
      OBVIOUS
    <3>1. fl = NULL \/ fl = current
      BY <1>2, <1>8 DEF Compacting, current
    <3>2. Packed(heap, current, comp.alive_last)
      BY <3>1, <1>2, <1>3 DEF Compacting, current
    <3>3. After(heap, current) = e
      BY DEF e
    <3> QED BY <3>2, <3>3, <2>1, <2>2, <1>3 DEF Compacting
  <2>6. /\ Sound(heap') /\ Hinted(heap') /\ Closed(heap', root', reloc')
        /\ root' \in [Roots -> Ref] /\ Table(reloc')
    BY <2>1, <1>1, <1>2
  <2> QED BY <2>2, <2>3, <2>4, <2>5, <2>6, <1>1, <1>2 DEF GcInv
<1> QED BY <1>7, <1>8

\* An object moved down: the references to it are looked up in the table from now on, the others
\* as before.
LEMMA MoveLooksUp ==
    ASSUME NEW h, Sound(h), NEW t, Table(t), Len(t) < RelocMax,
           NEW to \in Addr, NEW c \in Objects(h), to < c,
           \A i \in DOMAIN t : t[i].end <= c, NEW u, u = Logged(t, c, After(h, c), to)
    PROVE  /\ Table(u) /\ \A i \in DOMAIN u : u[i].end <= After(h, c)
           /\ \A x \in Ref : RelocatedBy(t, x) \in Objects(h) \cup {NULL} =>
                 RelocatedBy(u, x) = IF RelocatedBy(t, x) = c THEN to ELSE RelocatedBy(t, x)
<1> DEFINE e == After(h, c)
<1>1. HeapType(h) /\ Tiled(h)
  BY DEF Sound
<1>2. c \in Blocks(h) /\ c \in Addr /\ c \in Int /\ to \in Int
  BY <1>1, BlocksAre, AddrNumbers
<1>3. c < e /\ e \in Bounds(h) /\ e \in Addr /\ e \in Int
  BY <1>1, <1>2, Tiles
<1>4. \A x \in Blocks(h) : x \in Int /\ (x <= c \/ e <= x)
  BY <1>1, <1>2, Tiles DEF Bounds
<1>5. e \in 0 .. HeapSize
  <2>1. HeapSize \in Int /\ \A a \in Addr : 0 <= a /\ a < HeapSize
    BY AddrNumbers
  <2> HIDE DEF e
  <2> QED BY <2>1, <1>3
<1>6. u = Logged(t, c, e, to)
  OBVIOUS
<1> HIDE DEF e
<1>7. /\ Table(u) /\ (\A i \in DOMAIN u : u[i].end <= e) /\ RelocatedBy(u, c) = to
      /\ \A x \in Ref : x < c \/ e <= x => RelocatedBy(u, x) = RelocatedBy(t, x)
  BY <1>2, <1>3, <1>5, <1>6, TableGrows
<1>8. ASSUME NEW x \in Ref, RelocatedBy(t, x) \in Objects(h) \cup {NULL}
      PROVE  RelocatedBy(u, x) = IF RelocatedBy(t, x) = c THEN to ELSE RelocatedBy(t, x)
  <2>1. c <= x => RelocatedBy(t, x) = x
    BY <1>2, TableBelow
  <2>2. RelocatedBy(t, x) = c => x = c
    BY <1>2, TableBelow
  <2>3. x \in Int /\ c \in Int /\ NULL = -1 /\ NULL < c
    BY <1>2, AddrNumbers
  <2>4. CASE x = c
    BY <2>1, <2>3, <2>4, <1>7
  <2>5. CASE x # c
    <3>1. x < c \/ e <= x
      <4>1. CASE c <= x
        <5>1. x \in Objects(h)
          BY <4>1, <2>1, <2>3, <1>8
        <5>2. x \in Blocks(h)
          BY <5>1, <1>1, BlocksAre
        <5> QED BY <5>2, <4>1, <2>3, <2>5, <1>4
      <4> QED BY <4>1, <2>3
    <3>2. RelocatedBy(u, x) = RelocatedBy(t, x)
      BY <3>1, <1>7
    <3> QED BY <3>2, <2>2, <2>5
  <2> QED BY <2>4, <2>5
<1> QED BY <1>7, <1>8 DEF e

LEMMA MoveCloses ==
    ASSUME NEW h, Sound(h), NEW roots \in [Roots -> Ref], NEW t, Table(t), Len(t) < RelocMax,
           Closed(h, roots, t), NEW to \in Addr, NEW c \in Objects(h), to < c,
           \A i \in DOMAIN t : t[i].end <= c, NEW g, Shifted(h, to, c, g),
           NEW u, u = Logged(t, c, After(h, c), to)
    PROVE  Table(u) /\ Closed(g, roots, u) /\ \A i \in DOMAIN u : u[i].end <= After(h, c)
<1>1. HeapType(h)
  BY DEF Sound
<1>2. /\ Table(u) /\ \A i \in DOMAIN u : u[i].end <= After(h, c)
      /\ \A x \in Ref : RelocatedBy(t, x) \in Objects(h) \cup {NULL} =>
            RelocatedBy(u, x) = IF RelocatedBy(t, x) = c THEN to ELSE RelocatedBy(t, x)
  BY MoveLooksUp
<1>3. /\ Objects(g) = (Objects(h) \ {c}) \cup {to} /\ g.mem[to] = h.mem[c]
      /\ \A a \in Objects(h) : a # c => g.mem[a] = h.mem[a]
  BY DEF Shifted
<1>4. ASSUME NEW x \in Ref, RelocatedBy(t, x) \in Objects(h) \cup {NULL}
      PROVE  RelocatedBy(u, x) \in Objects(g) \cup {NULL}
  BY <1>2, <1>3, <1>4
<1>5. ASSUME NEW r \in Roots PROVE RelocatedBy(u, roots[r]) \in Objects(g) \cup {NULL}
  <2>1. roots[r] \in Ref /\ RelocatedBy(t, roots[r]) \in Objects(h) \cup {NULL}
    BY DEF Closed
  <2> QED BY <2>1, <1>4
<1>6. ASSUME NEW a \in Objects(g) PROVE RelocatedBy(u, g.mem[a].ref) \in Objects(g) \cup {NULL}
  <2>1. \E b \in Objects(h) : g.mem[a] = h.mem[b]
    BY <1>3
  <2>2. PICK b \in Objects(h) : g.mem[a] = h.mem[b]
    BY <2>1
  <2>3. h.mem[b].ref \in Ref
    <3>1. h.mem[b] \in Block
      BY <1>1, HeapFields DEF Objects
    <3> QED BY <3>1, BlockFields
  <2>4. RelocatedBy(t, h.mem[b].ref) \in Objects(h) \cup {NULL}
    BY DEF Closed
  <2>5. RelocatedBy(u, h.mem[b].ref) \in Objects(g) \cup {NULL}
    BY <2>3, <2>4, <1>4
  <2> QED BY <2>2, <2>5
<1> QED BY <1>2, <1>5, <1>6 DEF Closed

\* What a slide and a jump do: the object at c moves down to the slot to.
MoveDoes(c, to) ==
    /\ Sound(heap) /\ c = current /\ c \in Objects(heap) /\ ~heap.mem[c].pinned
    /\ to \in Addr /\ to < c /\ Shifted(heap, to, c, heap')
    /\ reloc' = Logged(reloc, c, After(heap, c), to) /\ \A i \in DOMAIN reloc : reloc[i].end <= c
    /\ Table(reloc) /\ Len(reloc) < RelocMax /\ Closed(heap, root, reloc) /\ root \in [Roots -> Ref]
    /\ UNCHANGED <<root, pc, request>>

\* What both find.
LEMMA MoveFinds ==
    ASSUME GcInv, Looping, MoveFound, LogMove(Target)
    PROVE  /\ pc = "compact" /\ current < heap.top /\ FoundAt(Target)
           /\ reloc' = Logged(reloc, current, After(heap, current), Target)
           /\ Table(reloc) /\ Len(reloc) < RelocMax
           /\ \A i \in DOMAIN reloc : reloc[i].end <= current
<1>1. pc = "compact" /\ current < heap.top /\ ~TableFull
  BY DEF Looping
<1>2. FoundAt(Target)
  BY <1>1, TargetIs
<1>3. /\ Roaming(heap, comp, reloc) /\ next = After(heap, current) /\ Table(reloc)
      /\ \A x \in Objects(heap) : x \notin FreeBlocks(heap)
  BY <1>1, LoopAt
<1>4. \A i \in DOMAIN reloc : reloc[i].end <= current
  <2>1. current \notin FreeBlocks(heap)
    BY <1>2, <1>3 DEF FoundAt
  <2> QED BY <2>1, <1>3 DEF Roaming, Scanned, current
<1>5. Len(reloc) < RelocMax
  <2>1. Len(reloc) \in Nat /\ RelocMax \in Nat
    BY <1>3, GcHeapAssumption DEF Table
  <2> QED BY <2>1, <1>1 DEF TableFull
<1>6. reloc' = Logged(reloc, current, After(heap, current), Target)
  BY <1>3 DEF LogMove, Logged
<1> QED BY <1>1, <1>2, <1>3, <1>4, <1>5, <1>6

LEMMA SlideIs ==
    ASSUME GcInv, Slide, NEW c, c = current, NEW to, to = Target, NEW hole, hole = to + heap.mem[c].len
    PROVE  /\ FoundAt(to) /\ to = comp.free_last /\ After(heap, to) = c
           /\ Slid(heap, to, c, hole, heap') /\ MoveDoes(c, to)
<1>1. /\ pc = "compact" /\ current < heap.top /\ FoundAt(Target)
      /\ reloc' = Logged(reloc, current, After(heap, current), Target)
      /\ Table(reloc) /\ Len(reloc) < RelocMax
      /\ \A i \in DOMAIN reloc : reloc[i].end <= current
  BY MoveFinds DEF Slide
<1>2. /\ Sound(heap) /\ Closed(heap, root, reloc) /\ root \in [Roots -> Ref]
      /\ \A x \in FreeBlocks(heap) : x \in Addr
  BY <1>1, LoopAt
<1>3. After(heap, to) = c /\ to = comp.free_last /\ UNCHANGED <<root, pc, request>>
  BY <1>1 DEF Slide, FoundAt, Looping
<1>4. c \in Objects(heap) /\ ~heap.mem[c].pinned /\ to \in FreeBlocks(heap) /\ to < c
  BY <1>1 DEF FoundAt
<1>5. Size(c) = heap.mem[c].len /\ Size(to) = heap.mem[to].len
  BY DEF Size
<1> DEFINE r == FreeRemove(heap, to)
           w == [r EXCEPT !.mem = WriteBlock(r.mem, to, heap.mem[c])]
<1>6. heap' = FreeInsertAfter(w, heap.mem[to].prev, hole, heap.mem[to].len)
  <2>1. Moved(r, to) = w
    BY DEF Moved
  <2>2. heap' = FreeInsertAfter(Moved(FreeRemove(heap, Target), Target), heap.mem[Target].prev,
                                Target + Size(current), Size(Target))
    BY DEF Slide
  <2> HIDE DEF w
  <2> QED BY <2>1, <2>2, <1>5
<1> HIDE DEF w
<1>7. IsSlid(heap, to, c, hole, heap')
  BY <1>2, <1>3, <1>4, <1>6, SlideWrites DEF w
<1>8. Slid(heap, to, c, hole, heap')
  BY <1>2, <1>3, <1>4, <1>7, SlideSwaps
<1>9. MoveDoes(c, to)
  BY <1>1, <1>2, <1>3, <1>4, <1>8 DEF MoveDoes, Slid
<1> QED BY <1>1, <1>3, <1>8, <1>9

\* What both keep.
LEMMA MoveKeeps ==
    ASSUME NEW c, NEW to, MoveDoes(c, to), Hinted(heap), comp' \in Comps
    PROVE  /\ Sound(heap') /\ Hinted(heap') /\ root' \in [Roots -> Ref] /\ Table(reloc')
           /\ Closed(heap', root', reloc')
           /\ \A i \in DOMAIN reloc' : reloc'[i].end \in Int /\ reloc'[i].end <= After(heap, c)
           /\ comp.current = c /\ (\A a \in Objects(heap) : a < c => a < comp'.current)
                 /\ PinBelow(heap, comp) => PinBelow(heap', comp')
<1>1. /\ Sound(heap) /\ c = current /\ c \in Objects(heap) /\ ~heap.mem[c].pinned
      /\ to \in Addr /\ to < c /\ Shifted(heap, to, c, heap')
      /\ reloc' = Logged(reloc, c, After(heap, c), to) /\ \A i \in DOMAIN reloc : reloc[i].end <= c
      /\ Table(reloc) /\ Len(reloc) < RelocMax /\ Closed(heap, root, reloc) /\ root \in [Roots -> Ref]
      /\ root' = root
  BY DEF MoveDoes
<1>2. Table(reloc') /\ Closed(heap', root, reloc') /\ \A i \in DOMAIN reloc' : reloc'[i].end <= After(heap, c)
  BY <1>1, MoveCloses
<1>3. \A i \in DOMAIN reloc' : reloc'[i].end \in Int
  <2>1. \A i \in DOMAIN reloc' : reloc'[i] \in Moves
    BY <1>2 DEF Table
  <2> QED BY <2>1, AddrNumbers DEF Moves
<1>4. comp.current = c /\ (\A a \in Objects(heap) : a < c => a < comp'.current)
         /\ PinBelow(heap, comp) => PinBelow(heap', comp')
  <2> SUFFICES ASSUME comp.current = c, \A a \in Objects(heap) : a < c => a < comp'.current, PinBelow(heap, comp)
               PROVE  PinBelow(heap', comp')
    OBVIOUS
  <2>1. \A a \in Objects(heap) : a < c => a # c /\ a \in Objects(heap') /\ heap'.mem[a] = heap.mem[a]
    <3>1. \A a \in Objects(heap) : a \in Int
      BY AddrNumbers DEF Objects
    <3> QED BY <3>1, <1>1 DEF Shifted
  <2> QED BY <2>1, PinStaysBelow
<1> QED BY <1>1, <1>2, <1>3, <1>4 DEF Shifted

LEMMA SlideKeeps == GcInv /\ Slide => GcInv'
<1> SUFFICES ASSUME GcInv, Slide PROVE GcInv'
  OBVIOUS
<1> DEFINE c == current
           to == Target
           e == After(heap, c)
           hole == to + heap.mem[c].len
<1>1. pc = "compact" /\ current < heap.top /\ UNCHANGED <<root, pc, request>>
  BY DEF Slide, Looping
<1>2. /\ Sound(heap) /\ Hinted(heap) /\ Roaming(heap, comp, reloc) /\ comp \in Comps
      /\ request = NoRequest \/ request \in Requests
      /\ PinBelow(heap, comp) \/ Compacting(heap, comp)
      /\ \A x \in Blocks(heap) : x \in Bounds(heap) /\ (x \in FreeBlocks(heap) \/ x \in Objects(heap))
      /\ \A x \in FreeBlocks(heap) : x \in Blocks(heap) /\ x \in Int
      /\ \A x \in Objects(heap) : x \in Blocks(heap) /\ x \notin FreeBlocks(heap)
  BY <1>1, LoopAt
<1>3. /\ FoundAt(to) /\ to = comp.free_last /\ After(heap, to) = c
      /\ Slid(heap, to, c, hole, heap') /\ MoveDoes(c, to)
  BY SlideIs
<1>4. c \in Objects(heap) /\ to \in FreeBlocks(heap) /\ to < c
      /\ (Compacting(heap, comp) => Packed(heap, to, comp.alive_last))
  BY <1>3 DEF FoundAt
<1> HIDE DEF c, to
<1>5. /\ to \in Addr /\ to \in Int /\ to \in Blocks(heap) /\ c \in Int /\ c \in Addr
      /\ hole \in Addr /\ hole \in Int /\ to < hole /\ hole < e /\ e \in Int /\ to < c /\ c < e
      /\ \A x \in Blocks(heap) : x \in Int /\ (x < to \/ x = to \/ x = c \/ e <= x)
  BY <1>2, <1>3, <1>4, ObjectAfterFree
<1>6. Size(c) = heap.mem[c].len
  BY DEF Size
<1>7. /\ Sound(heap') /\ heap'.top = heap.top
      /\ FreeBlocks(heap') = (FreeBlocks(heap) \ {to}) \cup {hole}
      /\ Objects(heap') = (Objects(heap) \ {c}) \cup {to}
      /\ After(heap', to) = hole /\ After(heap', hole) = e
  BY <1>3 DEF Slid, Shifted
<1>8. comp.alive_last \in Ref /\ comp.alive_last \in Int /\ comp.alive_last < to
  <2>1. comp.alive_last \in Objects(heap) \cup {NULL} /\ comp.alive_last < c /\ comp.alive_last \in Ref
    BY <1>2 DEF Roaming, Comps, c, current
  <2>2. NULL < to /\ comp.alive_last \in Int
    <3>1. NULL = -1 /\ 0 <= to
      BY <1>5, AddrNumbers
    <3>2. \A x \in Ref : x \in Int
      BY AddrNumbers
    <3>3. comp.alive_last \in Int
      BY <3>2, <2>1
    <3>4. NULL < to
      <4>1. to \in Int
        BY <1>5
      <4> QED BY <4>1, <3>1
    <3> QED BY <3>3, <3>4
  <2>3. comp.alive_last \in Objects(heap) => comp.alive_last \in Blocks(heap) /\ comp.alive_last # to
    BY <1>2, <1>4
  <2> QED BY <2>1, <2>2, <2>3, <1>5
<1>9. comp'.current = hole /\ comp'.alive_last = to /\ comp'.free_last = hole /\ comp' \in Comps
  <2>1. comp' = [current |-> to + Size(c), alive_last |-> Larger(comp.alive_last, to),
                 free_last |-> Larger(comp.free_last, to + Size(c))]
    BY DEF Slide, c, to
  <2>2. Larger(comp.alive_last, to) = to /\ Larger(to, hole) = hole
    BY <1>5, <1>8 DEF Larger
  <2>3. comp' = [current |-> hole, alive_last |-> to, free_last |-> hole]
    BY <2>1, <2>2, <1>3, <1>6
  <2>4. hole \in 0 .. HeapSize
    <3>1. HeapSize \in Int /\ 0 <= hole /\ hole < HeapSize
      BY <1>5, AddrNumbers
    <3> QED BY <3>1, <1>5
  <2> HIDE DEF hole
  <2> QED BY <2>3, <2>4, <1>5 DEF Comps, Ref
<1> HIDE DEF hole, e
<1>10. /\ Hinted(heap') /\ root' \in [Roots -> Ref] /\ Table(reloc') /\ Closed(heap', root', reloc')
       /\ \A i \in DOMAIN reloc' : reloc'[i].end <= e
       /\ comp.current = c /\ (\A a \in Objects(heap) : a < c => a < comp'.current)
             /\ PinBelow(heap, comp) => PinBelow(heap', comp')
  BY <1>2, <1>3, <1>9, MoveKeeps DEF e
<1>11. hole \in FreeBlocks(heap') /\ hole \in Bounds(heap')
  <2>1. hole \in FreeBlocks(heap') /\ HeapType(heap')
    BY <1>7 DEF Sound
  <2> QED BY <2>1, BlocksAre DEF Bounds
<1>12. Roaming(heap', comp', reloc')
  <2>1. Scanned(heap', comp') = e
    BY <1>7, <1>9, <1>11 DEF Scanned
  <2>2. hole <= hole /\ \A a \in FreeBlocks(heap') : a < hole => a <= hole
    <3>1. \A a \in FreeBlocks(heap') : a = hole \/ a \in Int
      BY <1>2, <1>7
    <3> QED BY <3>1, <1>5
  <2> QED BY <2>1, <2>2, <1>5, <1>7, <1>9, <1>10, <1>11 DEF Roaming
<1>13. PinBelow(heap, comp) => PinBelow(heap', comp')
  <2>1. \A a \in Objects(heap) : a < c => a < hole
    <3>1. \A a \in Objects(heap) : a \in Int /\ (a < to \/ a = to \/ a = c \/ e <= a) /\ a # to
      BY <1>2, <1>4, <1>5
    <3> QED BY <3>1, <1>5
  <2> QED BY <2>1, <1>9, <1>10 DEF c, current
<1>14. Compacting(heap, comp) => Compacting(heap', comp')
  <2> SUFFICES ASSUME Compacting(heap, comp) PROVE Compacting(heap', comp')
    OBVIOUS
  <2>1. ASSUME NEW x \in Blocks(heap'), x < hole PROVE x \in Objects(heap')
    <3>1. HeapType(heap')
      BY <1>7 DEF Sound
    <3>2. x \in FreeBlocks(heap') \/ x \in Objects(heap')
      BY <3>1, BlocksAre
    <3>3. CASE x \in FreeBlocks(heap) /\ x # to
      <4>1. x \in Blocks(heap) /\ x \notin Objects(heap)
        BY <3>3, <1>2
      <4>2. ~(x < to)
        BY <4>1, <1>4 DEF Packed
      <4>3. x # c
        BY <4>1, <1>4
      <4> QED BY <4>1, <4>2, <4>3, <2>1, <3>3, <1>5
    <3> QED BY <3>2, <3>3, <2>1, <1>5, <1>7
  <2>2. Packed(heap', hole, to)
    BY <2>1, <1>7 DEF Packed
  <2> QED BY <2>2, <1>9, <1>11 DEF Compacting
<1> QED BY <1>1, <1>2, <1>7, <1>9, <1>10, <1>12, <1>13, <1>14 DEF GcInv

\* A jump goes into a free block that is just as long, and links the one left behind after the
\* last free block below it.
LEMMA JumpIs ==
    ASSUME GcInv, Jump, NEW c, c = current, NEW to, to = Target
    PROVE  /\ FoundAt(to) /\ After(heap, to) # c
           /\ Jumped(heap, to, c, heap') /\ MoveDoes(c, to)
           /\ \E last : /\ IsBefore(FreeBlocks(heap) \ {to}, c, last)
                        /\ LET touches == last # NULL /\ After(heap, last) = c
                           IN  comp' = [current |-> IF touches THEN c ELSE After(heap, c),
                                        alive_last |-> Larger(comp.alive_last, to),
                                        free_last |-> IF last # NULL /\ ~touches THEN c ELSE last]
<1> DEFINE F == FreeBlocks(heap)
           G == F \ {to}
           fl == comp.free_last
           len == Size(current)
           rest == Size(Target) - len
           taken == Moved(FreeRemove(heap, Target), Target)
           h1 == IF rest # 0 THEN FreeInsertAfter(taken, heap.mem[Target].prev, Target + len, rest) ELSE taken
           last == CASE rest # 0 -> Larger(comp.free_last, Target + len)
                     [] rest = 0 /\ comp.free_last = Target -> heap.mem[comp.free_last].prev
                     [] rest = 0 /\ comp.free_last # Target -> comp.free_last
           touches == last # NULL /\ After(h1, last) = current
<1>1. /\ pc = "compact" /\ current < heap.top /\ FoundAt(Target)
      /\ reloc' = Logged(reloc, current, After(heap, current), Target)
      /\ Table(reloc) /\ Len(reloc) < RelocMax
      /\ \A i \in DOMAIN reloc : reloc[i].end <= current
  BY MoveFinds DEF Jump
<1>2. /\ Sound(heap) /\ HeapType(heap) /\ Closed(heap, root, reloc) /\ root \in [Roots -> Ref]
      /\ Roaming(heap, comp, reloc) /\ next = After(heap, current)
      /\ \A x \in F : x \in Addr /\ x \in Int /\ x # NULL
      /\ \A x \in Objects(heap) : x \in Addr /\ x \in Int
  BY <1>1, LoopAt
<1>3. /\ After(heap, Target) # current /\ Size(Target) >= len /\ UNCHANGED <<root, pc, request>>
      /\ heap' = FreeInsertAfter(h1, last, current, len)
      /\ comp' = [current |-> IF touches THEN current ELSE next,
                  alive_last |-> Larger(comp.alive_last, Target),
                  free_last |-> IF last # NULL /\ ~touches THEN current ELSE last]
  BY DEF Jump, Looping
<1>4. c \in Objects(heap) /\ ~heap.mem[c].pinned /\ to \in F /\ to < c
      /\ fl \in F /\ to <= fl /\ fl < c /\ heap.mem[to].len <= heap.mem[c].len
  BY <1>1, <1>3 DEF FoundAt
<1>5. heap.mem[to].len = heap.mem[c].len /\ rest = 0 /\ len = heap.mem[c].len
  <2>1. heap.mem[to].len \in Int /\ heap.mem[c].len \in Int
    <3>1. heap.mem[to] \in Block /\ heap.mem[c] \in Block
      BY <1>2, <1>4, HeapFields
    <3> QED BY <3>1, BlockFields
  <2> QED BY <2>1, <1>3, <1>4 DEF Size
<1> DEFINE r == FreeRemove(heap, to)
           w == [r EXCEPT !.mem = WriteBlock(r.mem, to, heap.mem[c])]
<1>6. h1 = w
  BY <1>5 DEF Moved
<1>7. last = IF fl = to THEN heap.mem[fl].prev ELSE fl
  BY <1>5
<1> HIDE DEF h1, last, w, rest, len, touches
<1>8. IsBefore(G, c, last)
  <2>1. c \in Int /\ to \in Int /\ fl \in Int
    BY <1>2, <1>4
  <2>2. \A y \in F : y < c => y <= fl
    BY <1>2, <1>4 DEF Roaming, current
  <2>3. CASE fl = to
    <3>1. IsBefore(F, to, last)
      <4>1. OnList(heap, F)
        BY <1>2 DEF Sound
      <4> QED BY <4>1, <2>3, <1>2, <1>4, <1>7, Neighbours
    <3>2. last \in F \cup {NULL} /\ last < to /\ last \in Int
      BY <3>1, <1>2, AddrNumbers DEF IsBefore
    <3>3. last \in G \cup {NULL} /\ last < c
      BY <3>2, <2>1, <1>4
    <3>4. ASSUME NEW y \in G, y < c PROVE y <= last
      <4>1. y \in F /\ y # to /\ y \in Int /\ y <= to
        BY <3>4, <2>2, <2>3, <1>2
      <4> QED BY <4>1, <3>1, <2>1 DEF IsBefore
    <3> QED BY <3>3, <3>4 DEF IsBefore
  <2>4. CASE fl # to
    <3>1. last = fl /\ fl \in G
      BY <2>4, <1>4, <1>7
    <3> QED BY <3>1, <2>2, <1>4 DEF IsBefore
  <2> QED BY <2>3, <2>4
<1>9. Jumped(heap, to, c, heap') /\ \A x \in Addr : After(w, x) = After(heap, x)
  <2>1. heap' = FreeInsertAfter(w, last, c, heap.mem[c].len)
    BY <1>3, <1>5, <1>6
  <2> QED BY <2>1, <1>2, <1>4, <1>5, <1>8, JumpSwaps DEF w
<1>10. touches <=> last # NULL /\ After(heap, last) = c
  <2>1. last # NULL => last \in Addr
    BY <1>2, <1>8 DEF IsBefore
  <2> QED BY <2>1, <1>6, <1>9 DEF touches
<1>11. MoveDoes(c, to)
  BY <1>1, <1>2, <1>3, <1>4, <1>9 DEF MoveDoes, Jumped
<1>12. comp' = [current |-> IF last # NULL /\ After(heap, last) = c THEN c ELSE After(heap, c),
                alive_last |-> Larger(comp.alive_last, to),
                free_last |-> IF last # NULL /\ ~(last # NULL /\ After(heap, last) = c) THEN c ELSE last]
  BY <1>2, <1>3, <1>10
<1> QED BY <1>1, <1>3, <1>8, <1>9, <1>11, <1>12

LEMMA JumpKeeps == GcInv /\ Jump => GcInv'
<1> SUFFICES ASSUME GcInv, Jump PROVE GcInv'
  OBVIOUS
<1> DEFINE c == current
           to == Target
           e == After(heap, c)
           F == FreeBlocks(heap)
<1>1. pc = "compact" /\ current < heap.top /\ UNCHANGED <<root, pc, request>>
  BY DEF Jump, Looping
<1>2. /\ Sound(heap) /\ Hinted(heap) /\ AtBlock(heap, comp) /\ Roaming(heap, comp, reloc) /\ comp \in Comps
      /\ request = NoRequest \/ request \in Requests
      /\ PinBelow(heap, comp) \/ Compacting(heap, comp)
      /\ \A x \in Blocks(heap) : x \in Bounds(heap)
      /\ \A x \in F : x \in Blocks(heap) /\ x \in Int /\ x \in Addr
      /\ \A x \in Objects(heap) : x \in Int /\ x \in Addr
  BY <1>1, LoopAt
<1>3. /\ FoundAt(to) /\ After(heap, to) # c
      /\ Jumped(heap, to, c, heap') /\ MoveDoes(c, to)
      /\ \E last : /\ IsBefore(F \ {to}, c, last)
                   /\ LET touches == last # NULL /\ After(heap, last) = c
                      IN  comp' = [current |-> IF touches THEN c ELSE After(heap, c),
                                   alive_last |-> Larger(comp.alive_last, to),
                                   free_last |-> IF last # NULL /\ ~touches THEN c ELSE last]
  BY JumpIs
<1>4. PICK last : /\ IsBefore(F \ {to}, c, last)
                  /\ LET touches == last # NULL /\ After(heap, last) = c
                     IN  comp' = [current |-> IF touches THEN c ELSE After(heap, c),
                                  alive_last |-> Larger(comp.alive_last, to),
                                  free_last |-> IF last # NULL /\ ~touches THEN c ELSE last]
  BY <1>3
<1> DEFINE touches == last # NULL /\ After(heap, last) = c
<1>5. /\ comp'.current = IF touches THEN c ELSE e
      /\ comp'.alive_last = Larger(comp.alive_last, to)
      /\ comp'.free_last = IF last # NULL /\ ~touches THEN c ELSE last
      /\ comp' = [current |-> comp'.current, alive_last |-> comp'.alive_last, free_last |-> comp'.free_last]
  BY <1>4
<1>6. c \in Objects(heap) /\ to \in F /\ to < c /\ PinBelow(heap, comp)
  BY <1>2, <1>3 DEF FoundAt
<1>7. /\ e \in Bounds(heap) /\ e \in Int /\ e \in 0 .. HeapSize /\ c \in Int /\ c < e
      /\ c \in Addr /\ c \in Ref /\ c \in Bounds(heap) /\ c \in 0 .. HeapSize
      /\ \A x \in Bounds(heap) : x \in Int /\ (x <= c \/ e <= x)
  BY <1>2 DEF AtBlock, current, Ref, Comps
<1>8. /\ Sound(heap') /\ Bounds(heap') = Bounds(heap)
      /\ FreeBlocks(heap') = (F \ {to}) \cup {c}
      /\ Objects(heap') = (Objects(heap) \ {c}) \cup {to}
      /\ After(heap', c) = e
  BY <1>3, <1>7 DEF Jumped, Shifted
<1>9. comp.alive_last \in Objects(heap) \cup {NULL} /\ comp.alive_last < c /\ comp.alive_last \in Int
  <2>1. comp.alive_last \in Objects(heap) \cup {NULL} /\ comp.alive_last < c
    BY <1>2 DEF Roaming, current
  <2> QED BY <2>1, <1>2, AddrNumbers
<1>10. /\ last \in (F \ {to}) \cup {NULL} /\ last < c /\ last \in Int /\ last \in Ref
       /\ \A y \in F \ {to} : y < c => y <= last
  <2>1. /\ last \in (F \ {to}) \cup {NULL} /\ last < c
        /\ \A y \in F \ {to} : y < c => y <= last
    BY <1>4 DEF IsBefore
  <2>2. last \in Ref
    BY <2>1, <1>2 DEF Ref
  <2> QED BY <2>1, <2>2, AddrNumbers
<1> HIDE DEF c, to, e, F, touches
<1>11. comp'.alive_last \in Objects(heap') /\ comp'.alive_last < c /\ comp'.alive_last \in Int
  <2>1. to \in Int /\ NULL < to /\ comp.alive_last # c
    <3>1. to \in Int /\ to \in Addr
      BY <1>2, <1>6
    <3>2. NULL < to
      BY <3>1, AddrNumbers
    <3> QED BY <3>1, <3>2, <1>7, <1>9
  <2>2. CASE comp.alive_last < to
    BY <2>1, <2>2, <1>5, <1>6, <1>8 DEF Larger
  <2>3. CASE ~(comp.alive_last < to)
    <3>1. comp.alive_last \in Objects(heap)
      BY <2>1, <2>3, <1>9
    <3> QED BY <3>1, <2>1, <2>3, <1>5, <1>8, <1>9 DEF Larger
  <2> QED BY <2>2, <2>3
<1>12. comp' \in Comps
  <2>1. comp'.alive_last \in Ref
    BY <1>11 DEF Objects, Ref
  <2>2. comp'.current \in 0 .. HeapSize
    BY <1>5, <1>7
  <2>3. comp'.free_last \in Ref
    BY <1>5, <1>7, <1>10
  <2> QED BY <2>1, <2>2, <2>3, <1>5 DEF Comps
<1>13. comp'.current \in Int /\ c <= comp'.current /\ comp'.current \in Bounds(heap')
  BY <1>5, <1>7, <1>8
<1>14. /\ Hinted(heap') /\ root' \in [Roots -> Ref] /\ Table(reloc') /\ Closed(heap', root', reloc')
       /\ \A i \in DOMAIN reloc' : reloc'[i].end \in Int /\ reloc'[i].end <= e
       /\ comp.current = c /\ (\A a \in Objects(heap) : a < c => a < comp'.current)
             /\ PinBelow(heap, comp) => PinBelow(heap', comp')
  BY <1>2, <1>3, <1>12, MoveKeeps DEF e
<1>15. PinBelow(heap', comp')
  <2>1. \A a \in Objects(heap) : a < c => a < comp'.current
    BY <1>2, <1>7, <1>13
  <2> QED BY <2>1, <1>6, <1>14 DEF c, current
<1>16. \A i \in DOMAIN reloc' : reloc'[i].end <= Scanned(heap', comp')
  <2>1. CASE touches
    <3>1. comp'.current = c /\ c \in FreeBlocks(heap')
      BY <2>1, <1>5, <1>8
    <3>2. Scanned(heap', comp') = e
      BY <3>1, <1>8 DEF Scanned
    <3> QED BY <3>2, <1>14
  <2>2. CASE ~touches
    <3>1. comp'.current = e
      BY <2>2, <1>5
    <3> QED BY <3>1, <1>7, <1>8, <1>13, <1>14, TableWithin
  <2> QED BY <2>1, <2>2
<1>17. comp'.free_last # NULL =>
            /\ comp'.free_last \in FreeBlocks(heap') /\ comp'.free_last <= comp'.current
            /\ \A a \in FreeBlocks(heap') : a < comp'.current => a <= comp'.free_last
  <2> SUFFICES ASSUME comp'.free_last # NULL
               PROVE  /\ comp'.free_last \in FreeBlocks(heap') /\ comp'.free_last <= comp'.current
                      /\ \A a \in FreeBlocks(heap') : a < comp'.current => a <= comp'.free_last
    OBVIOUS
  <2>1. last # NULL /\ last \in F \ {to}
    BY <1>5, <1>10 DEF touches
  <2>2. \A a \in FreeBlocks(heap') : a = c \/ (a \in F \ {to} /\ a \in Int /\ a \in Bounds(heap))
    BY <1>2, <1>8 DEF F
  <2>3. CASE touches
    <3>1. comp'.current = c /\ comp'.free_last = last
      BY <2>3, <1>5
    <3>2. \A a \in FreeBlocks(heap') : a < c => a <= last
      BY <2>2, <1>7, <1>10
    <3> QED BY <3>1, <3>2, <2>1, <1>7, <1>8, <1>10
  <2>4. CASE ~touches
    <3>1. comp'.current = e /\ comp'.free_last = c
      BY <2>1, <2>4, <1>5
    <3>2. \A a \in FreeBlocks(heap') : a < e => a <= c
      BY <2>2, <1>7
    <3> QED BY <3>1, <3>2, <1>7, <1>8
  <2> QED BY <2>3, <2>4
<1>18. Roaming(heap', comp', reloc')
  <2>1. comp'.alive_last < comp'.current
    BY <1>7, <1>11, <1>13
  <2> QED BY <2>1, <1>11, <1>13, <1>16, <1>17 DEF Roaming
<1> QED BY <1>1, <1>2, <1>8, <1>12, <1>14, <1>15, <1>18 DEF GcInv

\* The table applied: the compactor goes on where it was.
LEMMA FlushKeeps == GcInv /\ FlushRelocations => GcInv'
<1> SUFFICES ASSUME GcInv, FlushRelocations PROVE GcInv'
  OBVIOUS
<1>1. /\ pc = "compact" /\ current < heap.top /\ UNCHANGED <<pc, request, comp>>
      /\ heap' = RelocatedHeap(heap) /\ root' = RelocatedRoots /\ reloc' = << >>
  BY DEF FlushRelocations, ApplyRelocations
<1>2. /\ Sound(heap) /\ Hinted(heap) /\ Roaming(heap, comp, reloc) /\ comp \in Comps /\ Closed(heap, root, reloc)
      /\ request = NoRequest \/ request \in Requests
      /\ PinBelow(heap, comp) \/ Compacting(heap, comp)
  BY <1>1, LoopAt
<1>3. IsRelocated(heap, reloc, heap')
  <2>1. \A a \in Objects(heap) : RelocatedBy(reloc, heap.mem[a].ref) \in Objects(heap) \cup {NULL}
    BY <1>2 DEF Closed
  <2> QED BY <2>1, <1>1, <1>2, RelocatedHeapIs
<1>4. Closed(heap', root', reloc')
  <2>1. Closed(heap', RelocatedRoots, << >>)
    BY <1>2, <1>3, RelocationCloses
  <2> QED BY <2>1, <1>1
<1>5. root' \in [Roots -> Ref]
  BY <1>1, <1>2, RelocatedRootsAre
<1>6. SameHeap(heap, heap')
  BY <1>3 DEF IsRelocated
<1>7. /\ Sound(heap') /\ Hinted(heap') /\ heap'.top = heap.top /\ Blocks(heap') = Blocks(heap)
      /\ Bounds(heap') = Bounds(heap) /\ FreeBlocks(heap') = FreeBlocks(heap) /\ Objects(heap') = Objects(heap)
      /\ \A a \in Addr : After(heap', a) = After(heap, a)
  BY <1>2, <1>6 DEF SameHeap
<1>8. /\ \A a \in Objects(heap) : After(heap', a) = After(heap, a)
      /\ \A a \in FreeBlocks(heap) : After(heap', a) = After(heap, a)
  BY <1>7 DEF Objects, FreeBlocks
<1>9. Compacting(heap, comp) => Compacting(heap', comp)
  <2>1. \A a, last : Packed(heap, a, last) => Packed(heap', a, last)
    BY <1>7, <1>8 DEF Packed
  <2>2. comp.free_last \in FreeBlocks(heap) => After(heap', comp.free_last) = After(heap, comp.free_last)
    BY <1>8
  <2> QED BY <2>1, <2>2, <1>7 DEF Compacting
<1>10. PinBelow(heap, comp) => PinBelow(heap', comp)
  BY <1>3, <1>7 DEF IsRelocated, PinBelow
<1>11. Roaming(heap', comp, << >>)
  <2>1. \A i \in DOMAIN << >> : FALSE
    OBVIOUS
  <2> QED BY <2>1, <1>2, <1>7 DEF Roaming
<1>12. Table(<< >>)
  BY GcHeapAssumption DEF Table
<1> QED BY <1>1, <1>2, <1>4, <1>5, <1>7, <1>9, <1>10, <1>11, <1>12 DEF GcInv

\* The end of a compaction that has counted every object.
LEMMA FinishIs ==
    ASSUME GcInv, AllCounted, FinishCompaction,
           NEW h, h = FixupFreeList([heap EXCEPT !.top = IF comp.alive_last = NULL THEN 0
                                                         ELSE After(heap, comp.alive_last)])
    PROVE  /\ Sound(heap) /\ Closed(heap, root, reloc) /\ root \in [Roots -> Ref] /\ Table(reloc)
           /\ pc = "compact" /\ (request = NoRequest \/ request \in Requests)
           /\ Rested(h) /\ Objects(h) = Objects(heap) /\ Closed(h, root, reloc)
           /\ \A a \in Objects(heap) : h.mem[a] = heap.mem[a]
           /\ Compacting(heap, comp) => FreeBlocks(h) = {}
           /\ heap' = IF reloc # << >> THEN RelocatedHeap(h) ELSE h
           /\ root' = RelocatedRoots /\ reloc' = << >> /\ comp' = Idle /\ request' = request
           /\ pc' = IF request = NoRequest THEN "run" ELSE "retry"
<1> DEFINE top == IF comp.alive_last = NULL THEN 0 ELSE After(heap, comp.alive_last)
<1>1. /\ pc = "compact" /\ current >= heap.top
      /\ heap' = IF reloc # << >> THEN RelocatedHeap(h) ELSE h
      /\ root' = RelocatedRoots /\ reloc' = << >> /\ comp' = Idle /\ request' = request
      /\ pc' = IF request = NoRequest THEN "run" ELSE "retry"
  BY DEF FinishCompaction, ApplyRelocations
<1>2. /\ Sound(heap) /\ Hinted(heap) /\ Closed(heap, root, reloc) /\ root \in [Roots -> Ref] /\ Table(reloc)
      /\ (request = NoRequest \/ request \in Requests) /\ Roaming(heap, comp, reloc)
  BY <1>1 DEF GcInv
<1>3. comp.alive_last \in Objects(heap) \cup {NULL} /\ \A a \in Objects(heap) : a <= comp.alive_last
  BY <1>1, <1>2 DEF Roaming, AllCounted
<1>4. h = FixupFreeList([heap EXCEPT !.top = top])
  OBVIOUS
<1>5. /\ Rested(h) /\ Objects(h) = Objects(heap) /\ \A a \in Objects(heap) : h.mem[a] = heap.mem[a]
      /\ FreeBlocks(h) = {a \in FreeBlocks(heap) : a < top}
  BY <1>2, <1>3, <1>4, LoopEnds
<1> HIDE DEF top
<1>6. Closed(h, root, reloc)
  BY <1>2, <1>5 DEF Closed
\* Where there is but one free block it lies above all objects.
<1>7. Compacting(heap, comp) => FreeBlocks(h) = {}
  <2> SUFFICES ASSUME Compacting(heap, comp), NEW a \in FreeBlocks(heap), a < top PROVE FALSE
    BY <1>5
  <2>1. HeapType(heap) /\ Tiled(heap)
    BY <1>2 DEF Sound
  <2>2. a \in Blocks(heap) /\ a \in Int /\ a < heap.top /\ a \notin Objects(heap) /\ 0 <= a
    BY <2>1, BlocksAre, AddrNumbers DEF FreeBlocks
  <2>3. comp.current \in Int /\ comp.current = heap.top
    <3>1. comp.current \in Int /\ comp.current <= heap.top /\ heap.top \in Int
      BY <1>2, <2>1, Tiles DEF Roaming
    <3> QED BY <3>1, <1>1 DEF current
  <2>4. \A x : Packed(heap, x, comp.alive_last) => top = x
    <3>1. comp.alive_last \in Objects(heap) => comp.alive_last # NULL
      BY AddrNumbers DEF Objects
    <3> QED BY <3>1 DEF Packed, top
  <2>5. CASE comp.free_last = NULL /\ Packed(heap, comp.current, comp.alive_last)
    BY <2>2, <2>3, <2>5 DEF Packed
  <2>6. CASE Packed(heap, comp.free_last, comp.alive_last)
    <3>1. a < comp.free_last
      BY <2>4, <2>6
    <3> QED BY <3>1, <2>2, <2>6 DEF Packed
  <2> QED BY <2>5, <2>6 DEF Compacting
<1> QED BY <1>1, <1>2, <1>5, <1>6, <1>7

LEMMA FinishKeeps ==
    ASSUME GcInv, AllCounted, FinishCompaction
    PROVE  /\ GcInv'
           /\ Unpinned(heap) => Unpinned(heap')
           /\ Compacting(heap, comp) => FreeBlocks(heap') = {}
<1> DEFINE h == FixupFreeList([heap EXCEPT !.top = IF comp.alive_last = NULL THEN 0
                                                   ELSE After(heap, comp.alive_last)])
<1>1. /\ Sound(heap) /\ Closed(heap, root, reloc) /\ root \in [Roots -> Ref]
      /\ pc = "compact" /\ (request = NoRequest \/ request \in Requests)
      /\ Rested(h) /\ Objects(h) = Objects(heap) /\ Closed(h, root, reloc)
      /\ \A a \in Objects(heap) : h.mem[a] = heap.mem[a]
      /\ Compacting(heap, comp) => FreeBlocks(h) = {}
      /\ heap' = IF reloc # << >> THEN RelocatedHeap(h) ELSE h
      /\ root' = RelocatedRoots /\ reloc' = << >> /\ comp' = Idle /\ request' = request
      /\ pc' = IF request = NoRequest THEN "run" ELSE "retry"
  BY FinishIs
<1> HIDE DEF h
<1>2. Sound(h)
  BY <1>1 DEF Rested
<1>3. /\ Rested(heap') /\ Closed(heap', root', << >>)
      /\ Unpinned(heap) => Unpinned(heap')
      /\ Compacting(heap, comp) => FreeBlocks(heap') = {}
  <2>1. CASE reloc # << >>
    <3>1. heap' = RelocatedHeap(h)
      BY <2>1, <1>1
    <3>2. IsRelocated(h, reloc, heap')
      <4>1. \A a \in Objects(h) : RelocatedBy(reloc, h.mem[a].ref) \in Objects(h) \cup {NULL}
        BY <1>1 DEF Closed
      <4> QED BY <4>1, <3>1, <1>2, RelocatedHeapIs
    <3>3. Closed(heap', root', << >>)
      BY <3>2, <1>1, RelocationCloses
    <3>4. Rested(heap') /\ FreeBlocks(heap') = FreeBlocks(h)
      BY <3>2, <1>1 DEF IsRelocated, SameHeap, Settles
    <3>5. Unpinned(heap) => Unpinned(heap')
      BY <3>2, <1>1 DEF IsRelocated, SameHeap, Unpinned
    <3> QED BY <3>3, <3>4, <3>5, <1>1
  <2>2. CASE reloc = << >>
    <3>1. heap' = h
      BY <2>2, <1>1
    <3>2. \A r \in Roots : root'[r] = RelocatedBy(<< >>, root[r]) /\ RelocatedBy(<< >>, root'[r]) = root'[r]
      BY <2>2, <1>1, EmptyTable DEF RelocatedRoots
    <3>3. Closed(heap', root', << >>)
      BY <2>2, <3>1, <3>2, <1>1 DEF Closed
    <3> QED BY <3>1, <3>3, <1>1 DEF Unpinned
  <2> QED BY <2>1, <2>2
<1>4. root' \in [Roots -> Ref]
  BY <1>1, RelocatedRootsAre
<1>5. Table(<< >>)
  BY GcHeapAssumption DEF Table
<1>6. Idle \in Comps
  BY IdleIs
<1> QED BY <1>1, <1>3, <1>4, <1>5, <1>6 DEF GcInv, Rested

-----------------------------------------------------------------------------
(* The steps of the program *)

\* What the memory manager leaves whenever the program runs.
Usable(h, roots) == Rested(h) /\ roots \in [Roots -> Ref] /\ Closed(h, roots, << >>)

\* Heap g is as tidy as h: no free blocks touch, and nothing is pinned, if so it was.
Tidy(h, g) == (Merged(h) => Merged(g)) /\ (Unpinned(h) => Unpinned(g))

LEMMA UsableIs ==
    ASSUME NEW h, NEW roots
    PROVE  Closed(h, roots, << >>) <=>
              /\ \A r \in Roots : roots[r] \in Objects(h) \cup {NULL}
              /\ \A a \in Objects(h) : h.mem[a].ref \in Objects(h) \cup {NULL}
BY EmptyTable DEF Closed

LEMMA RunsUsable ==
    /\ GcInv /\ (pc = "run" \/ pc = "retry") => Usable(heap, root) /\ reloc = << >> /\ comp \in Comps
    /\ GcInv /\ pc = "run" => request = NoRequest
    /\ GcInv /\ pc = "retry" => request \in Requests
<1>1. GcInv /\ (pc = "run" \/ pc = "retry") => /\ Rested(heap) /\ root \in [Roots -> Ref]
                                               /\ Closed(heap, root, reloc) /\ reloc = << >> /\ comp \in Comps
  BY DEF GcInv, Rested
<1>2. GcInv /\ pc = "run" => request = NoRequest
  BY DEF GcInv
<1>3. GcInv /\ pc = "retry" => request \in Requests
  BY DEF GcInv
<1> QED BY <1>1, <1>2, <1>3 DEF Usable

\* The invariant goes on to hold, also the one for programs that pin nothing.
Holds == GcInv' /\ (BareInv => BareInv')

\* And that is enough to run on.
LEMMA UsableRuns ==
    ASSUME Usable(heap, root)', pc' = "run", request' = NoRequest, reloc' = << >>, comp' \in Comps,
           pc # "compact"
    PROVE  GcInv' /\ (Tidy(heap, heap') => Holds)
<1>1. Table(<< >>)
  BY GcHeapAssumption DEF Table
<1>2. GcInv'
  BY <1>1 DEF GcInv, Usable, Rested
<1> QED BY <1>2 DEF Holds, BareInv, Tidy

\* A collection leaves the objects it marked: those the program can reach.
LEMMA SweptIs ==
    ASSUME NEW h, Usable(h, root), NEW g, g = Swept(h)
    PROVE  /\ SweptTo(h, Objects(g), g) /\ HoldsReachable(h, {root[r] : r \in Roots}, Objects(g))
           /\ \A A : HoldsReachable(h, {root[r] : r \in Roots}, A) => Objects(g) \subseteq A
<1> DEFINE roots == {root[r] : r \in Roots}
           live == Marked(h)
<1>1. Sound(h) /\ HeapType(h)
  BY DEF Usable, Rested, Sound
<1>2. /\ \A r \in Roots : root[r] \in Objects(h) \cup {NULL}
      /\ \A a \in Objects(h) : h.mem[a].ref \in Objects(h) \cup {NULL}
  BY UsableIs DEF Usable
<1>3. RefsLand(h, roots)
  BY <1>2 DEF RefsLand
<1>4. HoldsReachable(h, roots, live) /\ \A A : HoldsReachable(h, roots, A) => live \subseteq A
  BY <1>1, <1>3, MarkedHolds
<1>5. live \subseteq Objects(h)
  BY <1>4 DEF HoldsReachable
<1> HIDE DEF live
<1>6. SweptTo(h, live, g)
  <2>1. g = Sweep(h, live)
    BY DEF Swept, live
  <2> QED BY <2>1, <1>1, <1>5, SweepSettles
<1>7. Objects(g) = live
  BY <1>6 DEF SweptTo
<1> QED BY <1>4, <1>6, <1>7

\* A collection keeps the heap usable.
LEMMA SweptUsable ==
    ASSUME NEW h, Usable(h, root)
    PROVE  Usable(Swept(h), root) /\ Tidy(h, Swept(h))
<1> DEFINE roots == {root[r] : r \in Roots}
           g == Swept(h)
<1>1. SweptTo(h, Objects(g), g) /\ HoldsReachable(h, roots, Objects(g)) /\ root \in [Roots -> Ref]
  BY SweptIs DEF Usable
<1> HIDE DEF g
<1>2. Rested(g) /\ (\A a \in Objects(g) : g.mem[a] = h.mem[a]) /\ Tidy(h, g)
  BY <1>1 DEF SweptTo, Unpinned, HoldsReachable, Settled, Tidy
<1>3. \A r \in Roots : root[r] \in Objects(g) \cup {NULL}
  BY <1>1 DEF HoldsReachable
<1>4. \A a \in Objects(g) : g.mem[a].ref \in Objects(g) \cup {NULL}
  BY <1>1, <1>2 DEF HoldsReachable
<1>5. Closed(g, root, << >>)
  BY <1>3, <1>4, UsableIs
<1> QED BY <1>1, <1>2, <1>5 DEF Usable, g

\* So does an attempt to allocate that finds no room.
LEMMA TriedUsable ==
    ASSUME NEW h, Usable(h, root), NEW len \in Lengths, NEW id, Place(h, len) = NULL,
           NEW g, g = HeapAlloc(h, len, id)
    PROVE  Usable(g, root) /\ Rehinted(h, g) /\ Tidy(h, g)
<1>1. len \in 1 .. HeapSize /\ Rested(h) /\ Sound(h)
  BY GcHeapAssumption DEF Usable, Rested
<1>2. Rehinted(h, g) /\ Rested(g) /\ (Merged(h) => Merged(g))
  BY <1>1, AllocTries DEF Settles
<1>3. Objects(g) = Objects(h) /\ g.mem = h.mem
  BY <1>1, <1>2, RehintedSettles DEF Rehinted
<1> QED BY <1>2, <1>3 DEF Usable, Unpinned, Closed, Tidy

\* And one that finds room, whose object the caller receives.
LEMMA DeliveredUsable ==
    ASSUME NEW h, Usable(h, root), NEW r \in Roots, NEW len \in Lengths, NEW id \in Ids,
           Place(h, len) # NULL, Deliver(h, r, len, id)
    PROVE  Usable(heap, root)' /\ Tidy(h, heap')
<1> DEFINE at == Place(h, len)
           g == HeapAlloc(h, len, id)
<1>1. len \in 1 .. HeapSize /\ Rested(h) /\ root \in [Roots -> Ref]
  BY GcHeapAssumption DEF Usable
<1>2. Rested(g) /\ (Merged(h) => Merged(g)) /\ Allocated(h, g, at, len, id)
  BY <1>1, AllocPlaces DEF Settles
<1>3. heap' = g /\ root' = [root EXCEPT ![r] = at]
  BY DEF Deliver
<1> HIDE DEF g, at
<1>4. /\ at \in Addr /\ Objects(g) = Objects(h) \cup {at} /\ g.mem[at].ref = NULL
      /\ \A a \in Objects(h) : g.mem[a] = h.mem[a]
      /\ Unpinned(h) => Unpinned(g)
  <2>1. g.mem[at].ref = NULL /\ ~g.mem[at].pinned
    BY <1>1, <1>2, ObjectIs DEF Allocated
  <2> QED BY <2>1, <1>1, <1>2 DEF Allocated, Unpinned
<1>5. /\ \A q \in Roots : root[q] \in Objects(h) \cup {NULL}
      /\ \A a \in Objects(h) : h.mem[a].ref \in Objects(h) \cup {NULL}
  BY UsableIs DEF Usable
<1>6. root' \in [Roots -> Ref] /\ \A q \in Roots : root'[q] \in Objects(g) \cup {NULL}
  BY <1>1, <1>3, <1>4, <1>5 DEF Ref
<1>7. \A a \in Objects(g) : g.mem[a].ref \in Objects(g) \cup {NULL}
  BY <1>4, <1>5
<1>8. Closed(g, root', << >>)
  BY <1>6, <1>7, UsableIs
<1> QED BY <1>2, <1>3, <1>4, <1>6, <1>8 DEF Usable, Tidy

\* The compactor starts with nothing looked at.
LEMMA StartKeeps ==
    ASSUME NEW h, Usable(h, root), StartCompaction(h), root' = root,
           request' = NoRequest \/ request' \in Requests, Unpinned(heap) => Unpinned(h)
    PROVE  Holds
<1>1. heap' = h /\ pc' = "compact" /\ comp' = Idle /\ reloc' = << >>
  BY DEF StartCompaction
<1>2. /\ Sound(h) /\ Hinted(h) /\ root \in [Roots -> Ref] /\ Closed(h, root, << >>)
      /\ HeapType(h) /\ Tiled(h)
  BY DEF Usable, Rested, Sound
<1>3. Idle.current = 0 /\ Idle.alive_last = NULL /\ Idle.free_last = NULL /\ Idle \in Comps
  BY IdleIs
<1>4. Packed(h, 0, NULL)
  <2>1. \A x \in Blocks(h) : ~(x < 0)
    BY <1>2, Tiles, AddrNumbers DEF Blocks
  <2> QED BY <2>1 DEF Packed
<1>5. Compacting(h, Idle)
  BY <1>3, <1>4 DEF Compacting
<1>6. Roaming(h, Idle, << >>)
  <2>1. 0 \in Bounds(h) /\ NULL < 0
    BY <1>2, Tiles, AddrNumbers
  <2>2. \A i \in DOMAIN << >> : FALSE
    OBVIOUS
  <2> QED BY <2>1, <2>2, <1>3 DEF Roaming
<1>7. Table(<< >>)
  BY GcHeapAssumption DEF Table
<1>8. GcInv'
  BY <1>1, <1>2, <1>3, <1>5, <1>6, <1>7 DEF GcInv
<1> QED BY <1>1, <1>8 DEF Holds, BareInv

\* The program reads and writes references.
LEMMA ReferencesKeep ==
    ASSUME GcInv, NEW r \in Roots, NEW q \in Roots, Clear(r) \/ Copy(r, q) \/ Load(r, q)
    PROVE  Holds
<1>1. pc = "run" /\ UNCHANGED <<pc, request, comp, reloc, heap>>
  BY DEF Clear, Copy, Load, Running
<1>2. Usable(heap, root) /\ reloc = << >> /\ comp \in Comps /\ request = NoRequest
  BY <1>1, RunsUsable
<1>3. /\ \A p \in Roots : root[p] \in Objects(heap) \cup {NULL}
      /\ \A a \in Objects(heap) : heap.mem[a].ref \in Objects(heap) \cup {NULL}
  BY <1>2, UsableIs DEF Usable
<1>4. \E x \in Objects(heap) \cup {NULL} : root' = [root EXCEPT ![r] = x]
  <2>1. CASE Clear(r)
    BY <2>1 DEF Clear
  <2>2. CASE Copy(r, q)
    BY <2>2, <1>3 DEF Copy
  <2>3. CASE Load(r, q)
    BY <2>3, <1>3 DEF Load, Held, At
  <2> QED BY <2>1, <2>2, <2>3
<1>5. PICK x \in Objects(heap) \cup {NULL} : root' = [root EXCEPT ![r] = x]
  BY <1>4
<1>6. root \in [Roots -> Ref] /\ x \in Ref
  BY <1>2 DEF Usable, Objects, Ref
<1>7. root' \in [Roots -> Ref] /\ \A p \in Roots : root'[p] \in Objects(heap) \cup {NULL}
  BY <1>3, <1>5, <1>6
<1>8. Closed(heap, root', << >>)
  BY <1>3, <1>7, UsableIs
<1>9. Usable(heap, root)'
  BY <1>1, <1>2, <1>7, <1>8 DEF Usable
<1>10. Tidy(heap, heap')
  BY <1>1 DEF Tidy
<1> QED BY <1>1, <1>2, <1>9, <1>10, UsableRuns

\* The program writes a field of an object, or pins it.
LEMMA FieldSet ==
    ASSUME GcInv, pc = "run", NEW q \in Roots, NEW a, a = root[q], a # NULL, NEW b \in Block,
           NEW old, old = heap.mem[a],
           b.kind = old.kind, b.len = old.len, b.next = old.next, b.prev = old.prev,
           b.ref \in Objects(heap) \cup {NULL},
           NEW m, m = [heap.mem EXCEPT ![a] = b], heap' = [heap EXCEPT !.mem = m],
           UNCHANGED <<pc, request, comp, reloc, root>>
    PROVE  /\ GcInv' /\ ((Unpinned(heap) => ~b.pinned) => Holds)
           /\ SameHeap(heap, heap') /\ a \in Objects(heap) /\ heap'.mem[a] = b
           /\ \A x \in Addr : x # a => heap'.mem[x] = heap.mem[x]
<1>1. Usable(heap, root) /\ reloc = << >> /\ comp \in Comps /\ request = NoRequest
  BY RunsUsable
<1>2. /\ \A p \in Roots : root[p] \in Objects(heap) \cup {NULL}
      /\ \A x \in Objects(heap) : heap.mem[x].ref \in Objects(heap) \cup {NULL}
  BY <1>1, UsableIs DEF Usable
<1>3. Rested(heap) /\ Sound(heap) /\ HeapType(heap) /\ root \in [Roots -> Ref]
  BY <1>1 DEF Usable, Rested, Sound
<1>4. a \in Objects(heap) /\ a \in Addr
  BY <1>2 DEF Objects
<1>5. /\ b.kind = heap.mem[a].kind /\ b.len = heap.mem[a].len
      /\ b.next = heap.mem[a].next /\ b.prev = heap.mem[a].prev
      /\ b.ref \in Objects(heap) \cup {NULL}
  OBVIOUS
<1>6. heap' = [heap EXCEPT !.mem = m]
  OBVIOUS
<1>7. heap \in Heaps /\ heap.mem \in [Addr -> Block] /\ \A x \in Addr : heap.mem[x].kind = "data" => heap.mem[x] = Data
  BY <1>3 DEF HeapType, Heaps
<1>8. m \in [Addr -> Block] /\ m[a] = b /\ \A x \in Addr : x # a => m[x] = heap.mem[x]
  BY <1>4, <1>7
<1>9. /\ heap' \in Heaps /\ heap'.mem = m /\ heap'.top = heap.top /\ heap'.free = heap.free
      /\ heap'.largest = heap.largest
  BY <1>6, <1>7, <1>8 DEF Heaps
<1>10. HeapType(heap')
  <2>1. heap.mem[a].kind = "object"
    BY <1>4 DEF Objects, InUse, IsObject
  <2>2. \A x \in Addr : m[x].kind = "data" => m[x] = Data
    BY <2>1, <1>5, <1>7, <1>8
  <2> QED BY <2>2, <1>9 DEF HeapType, Heaps
<1>11. \A x \in Addr : /\ m[x].kind = heap.mem[x].kind /\ m[x].len = heap.mem[x].len
                       /\ m[x].next = heap.mem[x].next /\ m[x].prev = heap.mem[x].prev
  BY <1>5, <1>8
<1>12. SameHeap(heap, heap')
  <2>1. Rereferenced(heap, heap')
    BY <1>9, <1>10, <1>11 DEF Rereferenced
  <2> QED BY <2>1, <1>3, RereferencedIsSame
<1>13. Rested(heap') /\ (Merged(heap) => Merged(heap')) /\ Objects(heap') = Objects(heap)
  BY <1>3, <1>12 DEF SameHeap, Settles
<1>14. \A x \in Objects(heap) : x \in Addr
  BY DEF Objects
<1>15. (Unpinned(heap) => ~b.pinned) => Tidy(heap, heap')
  <2> SUFFICES ASSUME Unpinned(heap) => ~b.pinned PROVE Tidy(heap, heap')
    OBVIOUS
  <2>1. ASSUME Unpinned(heap), NEW x \in Objects(heap) PROVE ~heap'.mem[x].pinned
    BY <2>1, <1>4, <1>5, <1>8, <1>9, <1>14 DEF Unpinned
  <2>2. Unpinned(heap) => Unpinned(heap')
    BY <2>1, <1>13 DEF Unpinned
  <2> QED BY <2>2, <1>13 DEF Tidy
<1>16. \A x \in Objects(heap') : heap'.mem[x].ref \in Objects(heap') \cup {NULL}
  BY <1>2, <1>5, <1>8, <1>9, <1>13, <1>14
<1>17. Closed(heap', root', << >>)
  <2>1. root' = root /\ \A p \in Roots : root'[p] \in Objects(heap') \cup {NULL}
    BY <1>2, <1>13
  <2> QED BY <2>1, <1>16, UsableIs
<1>18. Usable(heap, root)'
  BY <1>3, <1>13, <1>17 DEF Usable
<1>19. GcInv' /\ ((Unpinned(heap) => ~b.pinned) => Holds)
  <2>1. pc' = "run" /\ pc # "compact" /\ request' = NoRequest /\ reloc' = << >> /\ comp' \in Comps
    BY <1>1
  <2>2. GcInv' /\ (Tidy(heap, heap') => Holds)
    BY <2>1, <1>18, UsableRuns
  <2> QED BY <2>2, <1>15
<1>20. heap'.mem[a] = b /\ \A x \in Addr : x # a => heap'.mem[x] = heap.mem[x]
  BY <1>8, <1>9
<1> QED BY <1>4, <1>12, <1>19, <1>20

\* The new block at A is the old one but for the field that the action sets.
LEMMA FieldIs ==
    ASSUME GcInv, pc = "run", NEW q \in Roots, NEW a, a = root[q], a # NULL, NEW old, old = heap.mem[a]
    PROVE  /\ a \in Objects(heap) /\ a \in Addr /\ old \in Block
           /\ old.ref \in Objects(heap) \cup {NULL} /\ old.pinned \in BOOLEAN
           /\ heap \in Heaps /\ heap.mem \in [Addr -> Block] /\ root \in [Roots -> Ref]
           /\ \A p \in Roots : root[p] \in Objects(heap) \cup {NULL} /\ root[p] \in Ref
<1>1. Usable(heap, root)
  BY RunsUsable
<1>2. /\ \A p \in Roots : root[p] \in Objects(heap) \cup {NULL}
      /\ \A x \in Objects(heap) : heap.mem[x].ref \in Objects(heap) \cup {NULL}
  BY <1>1, UsableIs DEF Usable
<1>3. HeapType(heap) /\ root \in [Roots -> Ref]
  BY <1>1 DEF Usable, Rested, Sound
<1>4. a \in Objects(heap) /\ a \in Addr
  BY <1>2 DEF Objects
<1>5. heap \in Heaps /\ heap.mem \in [Addr -> Block]
  BY <1>3 DEF HeapType, Heaps
<1>6. old \in Block
  BY <1>4, <1>5
<1>7. old.pinned \in BOOLEAN
  BY <1>6 DEF Block
<1> QED BY <1>2, <1>3, <1>4, <1>5, <1>6, <1>7

LEMMA StoreKeeps ==
    ASSUME GcInv, NEW q \in Roots, NEW r \in Roots, Store(q, r)
    PROVE  Holds
<1> DEFINE a == root[q]
           old == heap.mem[a]
           b == [old EXCEPT !.ref = root[r]]
           m == [heap.mem EXCEPT ![a] = b]
<1>1. /\ pc = "run" /\ UNCHANGED <<pc, request, comp, reloc, root>> /\ a # NULL
      /\ heap' = [heap EXCEPT !.mem[a].ref = root[r]]
  BY DEF Store, Running, Held
<1>2. /\ a \in Objects(heap) /\ a \in Addr /\ old \in Block
      /\ heap \in Heaps /\ heap.mem \in [Addr -> Block]
      /\ root[r] \in Objects(heap) \cup {NULL} /\ root[r] \in Ref
  BY <1>1, FieldIs
<1>3. heap' = [heap EXCEPT !.mem = m]
  <2>1. [heap.mem EXCEPT ![a].ref = root[r]] = m
    OBVIOUS
  <2> HIDE DEF m
  <2> QED BY <2>1, <1>1, <1>2 DEF Heaps
<1> HIDE DEF a, old
<1>4. /\ b \in Block /\ b.kind = old.kind /\ b.len = old.len /\ b.next = old.next /\ b.prev = old.prev
      /\ b.pinned = old.pinned /\ b.ref = root[r]
  BY <1>2 DEF Block
<1> HIDE DEF b
<1>5. GcInv' /\ ((Unpinned(heap) => ~b.pinned) => Holds)
  <2>1. a = root[q] /\ old = heap.mem[a] /\ m = [heap.mem EXCEPT ![a] = b] /\ b.ref \in Objects(heap) \cup {NULL}
    BY <1>2, <1>4 DEF a, old
  <2> HIDE DEF m
  <2> QED BY <2>1, <1>1, <1>3, <1>4, FieldSet
<1>6. Unpinned(heap) => ~old.pinned
  BY <1>2 DEF Unpinned, old
<1> QED BY <1>4, <1>5, <1>6

\* Only an object whose identity is in PinIds is ever pinned.
LEMMA PinKeeps ==
    ASSUME GcInv, NEW r \in Roots, NEW pinned \in BOOLEAN, SetPinned(r, pinned)
    PROVE  GcInv' /\ PinIds # {}
<1> DEFINE a == root[r]
           old == heap.mem[a]
           b == [old EXCEPT !.pinned = pinned]
           m == [heap.mem EXCEPT ![a] = b]
<1>1. /\ pc = "run" /\ UNCHANGED <<pc, request, comp, reloc, root>> /\ a # NULL
      /\ heap' = [heap EXCEPT !.mem[a].pinned = pinned]
  BY DEF SetPinned, Running, Held
<1>2. /\ a \in Objects(heap) /\ a \in Addr /\ old \in Block /\ old.ref \in Objects(heap) \cup {NULL}
      /\ heap \in Heaps /\ heap.mem \in [Addr -> Block]
  BY <1>1, FieldIs
<1>3. heap' = [heap EXCEPT !.mem = m]
  <2>1. [heap.mem EXCEPT ![a].pinned = pinned] = m
    OBVIOUS
  <2> HIDE DEF m
  <2> QED BY <2>1, <1>1, <1>2 DEF Heaps
<1> HIDE DEF a, old
<1>4. /\ b \in Block /\ b.kind = old.kind /\ b.len = old.len /\ b.next = old.next /\ b.prev = old.prev
      /\ b.ref = old.ref
  BY <1>2 DEF Block
<1> HIDE DEF b
<1>5. GcInv'
  <2>1. a = root[r] /\ old = heap.mem[a] /\ m = [heap.mem EXCEPT ![a] = b] /\ b.ref \in Objects(heap) \cup {NULL}
    BY <1>2, <1>4 DEF a, old
  <2> HIDE DEF m
  <2> QED BY <2>1, <1>1, <1>3, <1>4, FieldSet
<1>6. PinIds # {}
  BY DEF SetPinned
<1> QED BY <1>5, <1>6

\* The program allocates.
LEMMA AllocKeeps ==
    ASSUME GcInv, NEW r \in Roots, NEW len \in Lengths, NEW id \in Ids,
           \/ AllocAtOnce(r, len, id) \/ AllocAfterSweep(r, len, id) \/ AllocNeedsCompaction(r, len, id)
    PROVE  Holds
<1> DEFINE tried == HeapAlloc(heap, len, id)
           swept == Swept(tried)
<1>1. pc = "run"
  BY DEF AllocAtOnce, AllocAfterSweep, AllocNeedsCompaction, Running
<1>2. Usable(heap, root) /\ reloc = << >> /\ comp \in Comps /\ request = NoRequest
  BY <1>1, RunsUsable
<1>3. Place(heap, len) = NULL => Usable(swept, root) /\ Tidy(heap, swept)
  <2>1. Place(heap, len) = NULL => Usable(tried, root) /\ Tidy(heap, tried)
    BY <1>2, TriedUsable
  <2> HIDE DEF tried
  <2>2. Usable(tried, root) => Usable(swept, root) /\ Tidy(tried, swept)
    BY SweptUsable
  <2> QED BY <2>1, <2>2 DEF Tidy
<1>4. CASE AllocAtOnce(r, len, id)
  <2>1. Usable(heap, root)' /\ Tidy(heap, heap')
    BY <1>2, <1>4, DeliveredUsable DEF AllocAtOnce
  <2>2. pc = "run" /\ pc' = "run" /\ UNCHANGED <<request, comp, reloc>>
    BY <1>4 DEF AllocAtOnce, Running
  <2> QED BY <2>1, <2>2, <1>2, UsableRuns
<1>5. CASE AllocAfterSweep(r, len, id)
  <2>1. Place(heap, len) = NULL /\ Place(swept, len) # NULL /\ Deliver(swept, r, len, id)
    BY <1>5 DEF AllocAfterSweep
  <2>2. pc = "run" /\ pc' = "run" /\ UNCHANGED <<request, comp, reloc>>
    BY <1>5 DEF AllocAfterSweep, Running
  <2> HIDE DEF swept
  <2>3. Usable(heap, root)' /\ Tidy(heap, heap')
    <3>1. Usable(heap, root)' /\ Tidy(swept, heap')
      BY <2>1, <1>3, DeliveredUsable
    <3> QED BY <3>1, <2>1, <1>3 DEF Tidy
  <2> QED BY <2>2, <2>3, <1>2, UsableRuns
<1>6. CASE AllocNeedsCompaction(r, len, id)
  <2>1. /\ Place(heap, len) = NULL /\ Place(swept, len) = NULL
        /\ request' = [root |-> r, len |-> len, id |-> id]
        /\ StartCompaction(HeapAlloc(swept, len, id)) /\ root' = root
    BY <1>6 DEF AllocNeedsCompaction
  <2> HIDE DEF swept
  <2>2. Usable(HeapAlloc(swept, len, id), root) /\ Tidy(swept, HeapAlloc(swept, len, id))
    BY <2>1, <1>3, TriedUsable
  <2>3. request' \in Requests
    BY <2>1 DEF Requests
  <2>4. Unpinned(heap) => Unpinned(HeapAlloc(swept, len, id))
    BY <2>1, <2>2, <1>3 DEF Tidy
  <2> QED BY <2>1, <2>2, <2>3, <2>4, StartKeeps
<1> QED BY <1>4, <1>5, <1>6

\* The last attempt after a compaction.
LEMMA RetryKeeps ==
    ASSUME GcInv, AllocAfterCompaction \/ AllocFails
    PROVE  Holds
<1>1. pc = "retry" /\ pc' = "run" /\ request' = NoRequest /\ UNCHANGED <<comp, reloc>>
  BY DEF AllocAfterCompaction, AllocFails
<1>2. Usable(heap, root) /\ reloc = << >> /\ comp \in Comps /\ request \in Requests
  BY <1>1, RunsUsable
<1>3. request.root \in Roots /\ request.len \in Lengths /\ request.id \in Ids
  BY <1>2 DEF Requests
<1>4. Usable(heap, root)' /\ Tidy(heap, heap')
  <2>1. CASE AllocAfterCompaction
    <3>1. Place(heap, request.len) # NULL /\ Deliver(heap, request.root, request.len, request.id)
      BY <2>1 DEF AllocAfterCompaction
    <3> QED BY <3>1, <1>2, <1>3, DeliveredUsable
  <2>2. CASE AllocFails
    <3>1. /\ Place(heap, request.len) = NULL /\ root' = root
          /\ heap' = HeapAlloc(heap, request.len, request.id)
      BY <2>2 DEF AllocFails
    <3>2. Usable(heap', root) /\ Tidy(heap, heap')
      BY <3>1, <1>2, <1>3, TriedUsable
    <3> QED BY <3>1, <3>2
  <2> QED BY <2>1, <2>2
<1> QED BY <1>1, <1>2, <1>4, UsableRuns

\* The program asks for a collection.
LEMMA CollectKeeps ==
    ASSUME GcInv, Collect \/ CollectAndCompact
    PROVE  Holds
<1>1. pc = "run" /\ root' = root /\ request' = request
  BY DEF Collect, CollectAndCompact, Running
<1>2. Usable(heap, root) /\ reloc = << >> /\ comp \in Comps /\ request = NoRequest
  BY <1>1, RunsUsable
<1>3. Usable(Swept(heap), root) /\ Tidy(heap, Swept(heap))
  BY <1>2, SweptUsable
<1>4. CASE Collect
  <2>1. heap' = Swept(heap) /\ pc' = "run" /\ UNCHANGED <<comp, reloc>>
    BY <1>4 DEF Collect, Running
  <2>2. Usable(heap, root)' /\ Tidy(heap, heap')
    BY <2>1, <1>1, <1>3
  <2> QED BY <2>1, <2>2, <1>1, <1>2, UsableRuns
<1>5. CASE CollectAndCompact
  <2>1. StartCompaction(Swept(heap))
    BY <1>5 DEF CollectAndCompact
  <2> QED BY <2>1, <1>1, <1>2, <1>3, StartKeeps DEF Tidy
<1> QED BY <1>4, <1>5

-----------------------------------------------------------------------------
(* The invariants, and what follows from them *)

LEMMA GcInvInit == Init => BareInv
<1> SUFFICES ASSUME Init PROVE BareInv
  OBVIOUS
<1>1. /\ heap = EmptyHeap /\ root = [r \in Roots |-> NULL] /\ pc = "run" /\ request = NoRequest
      /\ comp = Idle /\ reloc = << >>
  BY DEF Init
<1>2. /\ heap.top = 0 /\ heap.free = NULL /\ heap.largest = 0 /\ heap.mem = [a \in Addr |-> Data]
      /\ HeapType(heap)
  <2>1. HeapSize \in Int /\ 0 <= HeapSize /\ 0 \in Addr /\ NULL \in Ref /\ Data \in Block
    BY AddrNumbers, DataIsBlock DEF Ref
  <2> QED BY <2>1, <1>1 DEF EmptyHeap, HeapType
<1>3. FreeBlocks(heap) = {} /\ Objects(heap) = {} /\ Blocks(heap) = {}
  <2>1. \A a \in Addr : ~(a < 0)
    BY AddrNumbers
  <2> QED BY <2>1, <1>2 DEF FreeBlocks, Objects, InUse, Blocks
<1>4. Sound(heap)
  <2>1. Tiled(heap)
    BY <1>2, <1>3 DEF Tiled
  <2>2. OnList(heap, {})
    BY <1>2 DEF OnList, Linked, IsAfter
  <2> QED BY <2>1, <2>2, <1>2, <1>3 DEF Sound
<1>5. Rested(heap) /\ Merged(heap)
  BY <1>2, <1>3, <1>4 DEF Rested, Merged, TopEnds, Hinted
<1>6. Unpinned(heap)
  BY <1>3 DEF Unpinned
<1>7. root \in [Roots -> Ref] /\ Closed(heap, root, << >>)
  <2>1. \A r \in Roots : root[r] \in Objects(heap) \cup {NULL}
    BY <1>1
  <2>2. Closed(heap, root, << >>)
    BY <2>1, <1>3, UsableIs
  <2> QED BY <2>2, <1>1 DEF Ref
<1>8. comp \in Comps
  BY <1>1, IdleIs
<1>9. Table(<< >>)
  BY GcHeapAssumption DEF Table
<1>10. GcInv
  BY <1>1, <1>4, <1>5, <1>7, <1>8, <1>9 DEF GcInv, Rested
<1> QED BY <1>1, <1>5, <1>6, <1>10 DEF BareInv

\* What the program does preserves the invariant, and, if nothing is pinned, more.
LEMMA ProgramKeeps ==
    ASSUME GcInv, Mutator \/ Collect \/ CollectAndCompact
    PROVE  GcInv' /\ (PinIds = {} => Holds)
<1>1. CASE Mutator
  <2>1. PICK r \in Roots :
          \/ Clear(r)
          \/ \E q \in Roots : Copy(r, q) \/ Load(r, q) \/ Store(q, r)
          \/ \E pinned \in BOOLEAN : SetPinned(r, pinned)
          \/ \E len \in Lengths, id \in Ids :
                AllocAtOnce(r, len, id) \/ AllocAfterSweep(r, len, id) \/ AllocNeedsCompaction(r, len, id)
    BY <1>1 DEF Mutator
  <2>2. CASE Clear(r)
    BY <2>2, ReferencesKeep DEF Holds
  <2>3. ASSUME NEW q \in Roots, Copy(r, q) \/ Load(r, q) \/ Store(q, r) PROVE Holds
    BY <2>3, ReferencesKeep, StoreKeeps
  <2>4. ASSUME NEW pinned \in BOOLEAN, SetPinned(r, pinned) PROVE GcInv' /\ PinIds # {}
    BY <2>4, PinKeeps
  <2>5. ASSUME NEW len \in Lengths, NEW id \in Ids,
               AllocAtOnce(r, len, id) \/ AllocAfterSweep(r, len, id) \/ AllocNeedsCompaction(r, len, id)
        PROVE  Holds
    BY <2>5, AllocKeeps
  <2>6. Holds => GcInv'
    BY DEF Holds
  <2> QED BY <2>1, <2>2, <2>3, <2>4, <2>5, <2>6
<1>2. CASE Collect \/ CollectAndCompact
  <2>1. Holds
    BY <1>2, CollectKeeps
  <2> QED BY <2>1 DEF Holds
<1> QED BY <1>1, <1>2

\* As long as the compactor counts every object it cuts none off, and the invariant holds.
LEMMA GcInvStep ==
    ASSUME GcInv, [AllCounted /\ Next]_vars
    PROVE  GcInv'
<1>1. CASE UNCHANGED vars
  <2>1. /\ heap' = heap /\ root' = root /\ pc' = pc /\ request' = request /\ comp' = comp /\ reloc' = reloc
    BY <1>1 DEF vars
  <2> QED BY <2>1 DEF GcInv
<1>2. CASE Mutator \/ Collect \/ CollectAndCompact
  BY <1>2, ProgramKeeps
<1>3. CASE AllocAfterCompaction \/ AllocFails
  BY <1>3, RetryKeeps DEF Holds
<1>4. CASE AllCounted /\ FinishCompaction
  BY <1>4, FinishKeeps
<1>5. CASE FlushRelocations \/ KeepInPlace \/ PassFree \/ Slide \/ Jump \/ LeaveBehind
  BY <1>5, FlushKeeps, KeepKeeps, PassKeeps, SlideKeeps, JumpKeeps, LeaveKeeps
<1> QED BY <1>1, <1>2, <1>3, <1>4, <1>5 DEF Next, Collector

\* Where nothing below the slot the compactor has reached is pinned, every object is counted.
LEMMA BareCounts ==
    ASSUME GcInv, ~PinBelow(heap, comp)
    PROVE  AllCounted
<1> SUFFICES ASSUME pc = "compact", current >= heap.top, NEW x \in Objects(heap) PROVE x <= comp.alive_last
  BY DEF AllCounted
<1> DEFINE al == comp.alive_last
           fl == comp.free_last
<1>1. Sound(heap) /\ Roaming(heap, comp, reloc) /\ Compacting(heap, comp) /\ comp \in Comps
  BY DEF GcInv
<1>2. HeapType(heap) /\ Tiled(heap)
  BY <1>1 DEF Sound
<1>3. /\ x \in Blocks(heap) /\ x \in Bounds(heap) /\ x \in Int /\ 0 <= x /\ x < heap.top /\ x \notin FreeBlocks(heap)
      /\ heap.top \in Int
  <2>1. x \in Blocks(heap) /\ x \notin FreeBlocks(heap)
    BY <1>2, BlocksAre
  <2> QED BY <2>1, <1>2, Tiles DEF Bounds, Blocks
<1>4. current = heap.top
  <2>1. current \in Bounds(heap)
    BY <1>1 DEF Roaming, current
  <2>2. current \in Int /\ current <= heap.top
    BY <2>1, <1>2, Tiles
  <2> QED BY <2>2, <1>3
\* The object lies below the free block at the end, if there is one.
<1>5. PICK a : a \in Int /\ x < a /\ Packed(heap, a, al)
  <2>1. CASE fl = NULL /\ Packed(heap, current, al)
    BY <2>1, <1>3, <1>4
  <2>2. CASE fl \in FreeBlocks(heap) /\ (fl = current \/ After(heap, fl) = current) /\ Packed(heap, fl, al)
    <3>1. fl \in Blocks(heap) /\ fl \in Int /\ fl < heap.top /\ After(heap, fl) = heap.top
      <4>1. fl \in Blocks(heap)
        BY <2>2, <1>2, BlocksAre
      <4> QED BY <4>1, <2>2, <1>2, <1>4, Tiles DEF Blocks
    <3>2. fl < x => After(heap, fl) <= x
      BY <3>1, <1>2, <1>3, Tiles
    <3>3. x < fl
      BY <3>1, <3>2, <2>2, <1>3
    <3> QED BY <3>1, <3>3, <2>2, <1>4
  <2> QED BY <2>1, <2>2, <1>1 DEF Compacting, current
<1>6. al \in Objects(heap) /\ After(heap, al) = a
  BY <1>3, <1>5 DEF Packed
<1>7. al \in Blocks(heap) /\ al \in Int
  <2>1. al \in Blocks(heap)
    BY <1>2, <1>6, BlocksAre
  <2> QED BY <2>1, <1>2, Tiles
<1>8. al < x => After(heap, al) <= x
  BY <1>2, <1>3, <1>7, Tiles
<1> HIDE DEF al
<1>9. ~(al < x)
  BY <1>3, <1>5, <1>6, <1>8
<1>10. x <= al
  BY <1>3, <1>7, <1>9
<1> QED BY <1>10 DEF al

\* The compactor moves no pin to an object that has none.
LEMMA LoopBare ==
    ASSUME GcInv, Unpinned(heap),
           FlushRelocations \/ KeepInPlace \/ PassFree \/ Slide \/ Jump \/ LeaveBehind
    PROVE  Unpinned(heap') /\ pc' = "compact"
<1>1. pc' = "compact"
  BY DEF FlushRelocations, KeepInPlace, PassFree, Slide, Jump, LeaveBehind, Looping
<1>2. CASE KeepInPlace \/ LeaveBehind
  BY <1>1, <1>2 DEF KeepInPlace, LeaveBehind
<1>3. CASE FlushRelocations
  <2>1. heap' = RelocatedHeap(heap) /\ Sound(heap) /\ Closed(heap, root, reloc)
    BY <1>3 DEF FlushRelocations, GcInv
  <2>2. IsRelocated(heap, reloc, heap')
    BY <2>1, RelocatedHeapIs DEF Closed
  <2> QED BY <2>2, <1>1 DEF IsRelocated, SameHeap, Unpinned
<1>4. CASE PassFree
  <2>1. pc = "compact" /\ current < heap.top /\ IsFree(heap, current)
    BY <1>4 DEF PassFree, Looping
  <2>2. CASE heap' = heap
    BY <2>2, <1>1
  <2>3. CASE comp.free_last # NULL /\ After(heap, comp.free_last) = current /\ heap' = FreeMerge(heap, comp.free_last)
    <3>1. Sound(heap) /\ comp.free_last \in FreeBlocks(heap) /\ HeapType(heap) /\ current \in Blocks(heap)
      BY <2>1, <2>3, LoopAt DEF Roaming, AtBlock, current
    <3>2. current \in FreeBlocks(heap)
      BY <3>1, <2>1, BlocksAre
    <3>3. Joined(heap, comp.free_last, current, heap')
      BY <3>1, <3>2, <2>3, MergeJoins
    <3> QED BY <3>3, <1>1 DEF Joined, Unpinned
  <2> QED BY <2>2, <2>3, <1>4 DEF PassFree
<1>5. CASE Slide \/ Jump
  <2>1. PICK c, to : MoveDoes(c, to)
    BY <1>5, SlideIs, JumpIs
  <2>2. Shifted(heap, to, c, heap') /\ c \in Objects(heap)
    BY <2>1 DEF MoveDoes
  <2> QED BY <2>2, <1>1 DEF Shifted, Unpinned
<1> QED BY <1>2, <1>3, <1>4, <1>5

\* Where nothing is ever pinned, no object is ever cut off, and a compaction leaves no free block.
LEMMA BareInvStep ==
    ASSUME PinIds = {}, BareInv, [Next]_vars
    PROVE  BareInv'
<1>1. GcInv /\ Unpinned(heap) /\ AllCounted
  BY BareCounts DEF BareInv, Unpinned, PinBelow
<1>2. GcInv'
  BY <1>1, GcInvStep
<1>3. CASE UNCHANGED vars
  <2>1. heap' = heap /\ pc' = pc
    BY <1>3 DEF vars
  <2> QED BY <2>1, <1>2 DEF BareInv
<1>4. CASE Mutator \/ Collect \/ CollectAndCompact
  BY <1>1, <1>4, ProgramKeeps DEF Holds
<1>5. CASE AllocAfterCompaction \/ AllocFails
  BY <1>1, <1>5, RetryKeeps DEF Holds
<1>6. CASE FinishCompaction
  <2>1. Unpinned(heap') /\ (Compacting(heap, comp) => FreeBlocks(heap') = {})
    BY <1>1, <1>6, FinishKeeps
  <2>2. pc = "compact"
    BY <1>6 DEF FinishCompaction
  <2>3. Compacting(heap, comp)
    BY <2>2, <1>1 DEF GcInv, PinBelow, Unpinned
  <2>4. FreeBlocks(heap') = {} /\ Merged(heap')
    BY <2>1, <2>3 DEF Merged
  <2> QED BY <2>1, <2>4, <1>2 DEF BareInv
<1>7. CASE FlushRelocations \/ KeepInPlace \/ PassFree \/ Slide \/ Jump \/ LeaveBehind
  BY <1>1, <1>2, <1>7, LoopBare DEF BareInv
<1> QED BY <1>3, <1>4, <1>5, <1>6, <1>7 DEF Next, Collector

\* The executions until a compaction first cuts off an object that it left behind.
UnbrokenSpec == Init /\ [][AllCounted /\ Next]_vars

\* Whatever is pinned: until an object is cut off, the free list is linked in order through all
\* free blocks, every reference is to an object when read through the relocation table, and as
\* long as nothing below the slot the compactor has reached is pinned, there are only objects
\* there, but for one free block at most.
THEOREM GcInvAlways == UnbrokenSpec => []GcInv
<1>1. Init => GcInv
  BY GcInvInit DEF BareInv
<1>2. GcInv /\ [AllCounted /\ Next]_vars => GcInv'
  BY GcInvStep
<1> QED BY <1>1, <1>2, PTL DEF UnbrokenSpec

\* Where nothing is pinned no object is ever cut off: what is proved of the executions until then
\* is true of them all.
THEOREM GcNeverBreaks ==
    ASSUME PinIds = {}
    PROVE  Spec => []BareInv /\ UnbrokenSpec
<1>1. Init => BareInv
  BY GcInvInit
<1>2. BareInv /\ [Next]_vars => BareInv'
  BY BareInvStep
<1>3. BareInv => AllCounted
  BY BareCounts DEF BareInv, Unpinned, PinBelow
<1>4. BareInv /\ [Next]_vars => [AllCounted /\ Next]_vars
  BY <1>3
<1> QED BY <1>1, <1>2, <1>4, PTL DEF Spec, UnbrokenSpec

\* Type correctness, for heaps of every size, until an object is cut off.
THEOREM GcTypesUnbroken == UnbrokenSpec => []TypeOK
<1>1. ASSUME GcInv PROVE TypeOK
  <2>1. /\ HeapType(heap) /\ root \in [Roots -> Ref] /\ comp \in Comps /\ Table(reloc)
    BY <1>1 DEF GcInv, Sound
  <2>2. /\ pc \in {"run", "compact", "retry"} /\ (request = NoRequest \/ request \in Requests)
    BY <1>1 DEF GcInv
  <2>3. heap.mem \in [Addr -> Block] /\ heap.free \in Ref /\ heap.largest \in 0 .. HeapSize /\ heap.top \in Addr
    BY <2>1, HeapFields
  <2>4. heap.top \in 0 .. HeapSize
    <3>1. heap.top \in Int /\ 0 <= heap.top /\ heap.top < HeapSize /\ HeapSize \in Int
      BY <2>3, AddrNumbers
    <3> QED BY <3>1
  <2>5. Len(reloc) <= RelocMax /\ comp.current \in 0 .. HeapSize
    BY <2>1 DEF Table, Comps
  <2>6. request = NoRequest \/ (request.root \in Roots /\ request.len \in Lengths)
    BY <2>2 DEF Requests
  <2> QED BY <2>1, <2>2, <2>3, <2>4, <2>5, <2>6 DEF TypeOK
<1> QED BY <1>1, GcInvAlways, PTL

\* Type correctness, where nothing is pinned.
THEOREM GcTypes ==
    ASSUME PinIds = {}
    PROVE  Spec => []TypeOK
BY GcTypesUnbroken, GcNeverBreaks, PTL

\* Whenever neither the sweep nor the compactor is at work, pinta_debug_validate_heap finds
\* nothing wrong, in a heap of any size.  Around pinned objects free blocks may touch.
THEOREM GcHeapValid ==
    ASSUME PinIds = {}
    PROVE  Spec => []HeapValidWhenIdle
<1>1. ASSUME BareInv PROVE HeapValidWhenIdle
  <2>1. pc # "compact" => Settled(heap)
    BY <1>1 DEF BareInv, GcInv, Settled, Rested
  <2> QED BY <2>1, SettledIsValid DEF HeapValidWhenIdle, Settled
<1> QED BY <1>1, GcNeverBreaks, PTL

\* At every iteration of the compactor the heap can be walked, and its free list is its free
\* blocks in order, whatever is pinned, until an object is cut off.
THEOREM GcHeapWalkableUnbroken == UnbrokenSpec => []HeapWalkableAlways
<1>1. ASSUME GcInv PROVE HeapWalkableAlways
  <2>1. Sound(heap)
    BY <1>1 DEF GcInv
  <2>2. Tiled(heap) /\ FreeListOrdered(heap) /\ FreeSet(heap) = {a \in Blocks(heap) : IsFree(heap, a)}
    BY <2>1, SoundIsOrdered DEF Sound
  <2> QED BY <2>2 DEF HeapWalkableAlways
<1> QED BY <1>1, GcInvAlways, PTL

\* The heap can be walked at every iteration, where nothing is pinned.
THEOREM GcHeapWalkable ==
    ASSUME PinIds = {}
    PROVE  Spec => []HeapWalkableAlways
BY GcHeapWalkableUnbroken, GcNeverBreaks, PTL

\* pinta_heap_alloc never turns a request down for a hint that is too small, whatever is
\* pinned, until an object is cut off.
THEOREM GcHintBoundsUnbroken == UnbrokenSpec => []HintBoundsFreeBlocks
<1>1. ASSUME GcInv PROVE HintBoundsFreeBlocks
  <2>1. Sound(heap) /\ Hinted(heap)
    BY <1>1 DEF GcInv
  <2>2. FreeSet(heap) = FreeBlocks(heap)
    BY <2>1, SoundIsOrdered DEF FreeBlocks
  <2> QED BY <2>1, <2>2 DEF HintBoundsFreeBlocks, Size, Hinted
<1> QED BY <1>1, GcInvAlways, PTL

\* The hint is never too small, where nothing is pinned.
THEOREM GcHintBounds ==
    ASSUME PinIds = {}
    PROVE  Spec => []HintBoundsFreeBlocks
BY GcHintBoundsUnbroken, GcNeverBreaks, PTL

\* pinta_gc_find_free_object finds a free block that touches the current one or holds it, unless a
\* pinned object lies below: only then may an object be left behind.
THEOREM GcLeavesOnlyAbovePinned == UnbrokenSpec => []LeftOnlyAbovePinned
<1>1. ASSUME GcInv PROVE LeftOnlyAbovePinned
  <2> SUFFICES ASSUME pc = "compact", current < heap.top, MoveFound
               PROVE  \/ After(heap, Target) = current
                      \/ \E a \in Objects(heap) : a < current /\ heap.mem[a].pinned
    BY DEF LeftOnlyAbovePinned, FitsOrTouches
  <2>1. PinBelow(heap, comp) \/ Compacting(heap, comp)
    BY <1>1, LoopAt
  <2>2. Compacting(heap, comp) => After(heap, Target) = current
    BY <1>1, TargetIs DEF FoundAt
  <2> QED BY <2>1, <2>2 DEF PinBelow, current
<1> QED BY <1>1, GcInvAlways, PTL

\* Where nothing is pinned, pinta_gc_find_free_object finds the free block just below the current
\* one, so that the two ways past a pinned object are never taken.
THEOREM GcSlidesTouch ==
    ASSUME PinIds = {}
    PROVE  Spec => [](pc = "compact" /\ current < heap.top /\ MoveFound => After(heap, Target) = current)
<1>1. ASSUME BareInv, pc = "compact", current < heap.top, MoveFound PROVE After(heap, Target) = current
  <2>1. GcInv /\ Compacting(heap, comp)
    BY <1>1 DEF BareInv, GcInv, PinBelow, Unpinned
  <2> QED BY <2>1, <1>1, TargetIs DEF FoundAt
<1> QED BY <1>1, GcNeverBreaks, PTL

\* Slot by slot, the live slots below n, when there is no free block.
WeightOf(h, n) == IF n \in Objects(h) THEN h.mem[n].len ELSE 0

\* The least place from slot n on where a block may begin; top for the slots above it.
IsNextBound(h, n, b) == IF n <= h.top THEN b \in Bounds(h) /\ n <= b /\ \A x \in Bounds(h) : n <= x => b <= x
                                      ELSE b = h.top

LEMMA NextBounds ==
    ASSUME NEW h, HeapType(h), Tiled(h), FreeBlocks(h) = {}
    PROVE  /\ \A n \in Nat : \E b : IsNextBound(h, n, b)
           /\ \A n \in Nat : \A b, x : IsNextBound(h, n, b) /\ IsNextBound(h, n, x) => b = x
           /\ IsNextBound(h, 0, 0)
           /\ \A n \in Nat : \A b : IsNextBound(h, n, b) => b \in Int /\ IsNextBound(h, n + 1, b + WeightOf(h, n))
           /\ \A n \in Nat : \A b : h.top <= n /\ IsNextBound(h, n, b) => b = h.top
<1> DEFINE B == Bounds(h)
<1>1. /\ \A a \in Blocks(h) : After(h, a) \in B /\ a < After(h, a) /\ After(h, a) <= h.top
      /\ \A a \in Blocks(h) : \A b \in B : a < b => After(h, a) <= b
      /\ \A a \in B : a \in Int /\ 0 <= a /\ a <= h.top
      /\ \A a \in B : a # h.top => a \in Blocks(h) /\ a < h.top
      /\ 0 \in B /\ h.top \in B
      /\ \A a \in Blocks(h) : a \in Int /\ After(h, a) = a + h.mem[a].len /\ h.mem[a].len \in Int /\ a \in B
  BY Tiles DEF Bounds
<1>2. h.top \in Int /\ 0 <= h.top
  BY <1>1
<1>3. \A a \in Blocks(h) : a \in Objects(h) /\ a < h.top
  BY BlocksAre DEF Blocks
<1>4. \A a \in Objects(h) : a \in Blocks(h)
  BY BlocksAre
<1> HIDE DEF B
<1>5. ASSUME NEW n \in Nat PROVE \E b : IsNextBound(h, n, b)
  <2>1. CASE n <= h.top
    <3> DEFINE T == {x \in B : n <= x}
    <3>1. T \in SUBSET Nat /\ h.top \in T
      BY <2>1, <1>1
    <3>2. \E x \in T : \A y \in T : x <= y
      <4> HIDE DEF T
      <4> QED BY <3>1, LeastExists
    <3> QED BY <3>2, <2>1 DEF IsNextBound, B
  <2>2. CASE ~(n <= h.top)
    BY <2>2 DEF IsNextBound
  <2> QED BY <2>1, <2>2
<1>6. ASSUME NEW n \in Nat, NEW b, NEW x, IsNextBound(h, n, b), IsNextBound(h, n, x) PROVE b = x
  BY <1>1, <1>6 DEF IsNextBound, B
<1>7. IsNextBound(h, 0, 0)
  BY <1>1, <1>2 DEF IsNextBound, B
<1>8. ASSUME NEW n \in Nat, NEW b, IsNextBound(h, n, b), h.top <= n PROVE b = h.top
  BY <1>1, <1>2, <1>8 DEF IsNextBound, B
<1>9. ASSUME NEW n \in Nat, NEW b, IsNextBound(h, n, b)
      PROVE  b \in Int /\ IsNextBound(h, n + 1, b + WeightOf(h, n))
  <2>1. b \in Int
    BY <1>1, <1>2, <1>9 DEF IsNextBound, B
  <2>2. CASE n \in Objects(h)
    <3>1. n \in Blocks(h) /\ n \in B /\ n < h.top
      BY <2>2, <1>1, <1>3, <1>4
    <3>2. b = n
      BY <3>1, <2>1, <1>9 DEF IsNextBound, B
    <3>3. b + WeightOf(h, n) = After(h, n)
      BY <3>1, <3>2, <2>2, <1>1 DEF WeightOf
    <3>4. After(h, n) \in B /\ n + 1 <= After(h, n) /\ n + 1 <= h.top
      BY <3>1, <1>1, <1>2
    <3>5. \A x \in B : n + 1 <= x => After(h, n) <= x
      BY <3>1, <1>1
    <3> QED BY <2>1, <3>3, <3>4, <3>5 DEF IsNextBound, B
  <2>3. CASE n \notin Objects(h)
    <3>1. n \notin Blocks(h) /\ b + WeightOf(h, n) = b
      BY <2>1, <2>3, <1>3 DEF WeightOf
    <3>2. CASE n < h.top
      <4>1. b \in B /\ n <= b /\ b # n /\ \A x \in B : n <= x => b <= x
        BY <3>1, <3>2, <1>1, <1>2, <1>9 DEF IsNextBound, B
      <4>2. n + 1 <= b /\ n + 1 <= h.top /\ \A x \in B : n + 1 <= x => b <= x
        BY <4>1, <3>2, <2>1, <1>1, <1>2
      <4> QED BY <4>1, <4>2, <3>1, <2>1 DEF IsNextBound, B
    <3>3. CASE ~(n < h.top)
      <4>1. b = h.top /\ ~(n + 1 <= h.top)
        BY <3>3, <1>2, <1>8, <1>9
      <4> QED BY <4>1, <3>1, <2>1 DEF IsNextBound
    <3> QED BY <3>2, <3>3
  <2> QED BY <2>1, <2>2, <2>3
<1> QED BY <1>5, <1>6, <1>7, <1>8, <1>9

\* Without free blocks, all slots below top are live.
LEMMA LiveSlotsAreAll ==
    ASSUME HeapType(heap), Tiled(heap), FreeBlocks(heap) = {}
    PROVE  LiveSlots = heap.top
<1> DEFINE Sums(s) == s = [n \in 0 .. HeapSize |-> IF n = 0 THEN 0 ELSE s[n - 1] + WeightOf(heap, n - 1)]
           sum == CHOOSE s : Sums(s)
           f == [n \in 0 .. HeapSize |-> CHOOSE b : IsNextBound(heap, n, b)]
<1>1. LiveSlots = sum[HeapSize]
  BY DEF LiveSlots, Size, WeightOf
<1>2. HeapSize \in Nat /\ HeapSize >= 3 /\ heap.top \in Int /\ heap.top < HeapSize
  BY HeapSizeAssumption, HeapFields, AddrNumbers
<1>3. /\ \A n \in Nat : \E b : IsNextBound(heap, n, b)
      /\ \A n \in Nat : \A b, x : IsNextBound(heap, n, b) /\ IsNextBound(heap, n, x) => b = x
      /\ IsNextBound(heap, 0, 0)
      /\ \A n \in Nat : \A b : IsNextBound(heap, n, b) =>
            b \in Int /\ IsNextBound(heap, n + 1, b + WeightOf(heap, n))
      /\ \A n \in Nat : \A b : heap.top <= n /\ IsNextBound(heap, n, b) => b = heap.top
  BY NextBounds
<1>4. ASSUME NEW n \in 0 .. HeapSize PROVE IsNextBound(heap, n, f[n])
  <2>1. n \in Nat /\ f[n] = CHOOSE b : IsNextBound(heap, n, b)
    BY <1>2
  <2> QED BY <2>1, <1>3
<1>5. Sums(f)
  <2>1. f[0] = 0
    BY <1>2, <1>3, <1>4
  <2>2. ASSUME NEW n \in 0 .. HeapSize, n # 0 PROVE f[n] = f[n - 1] + WeightOf(heap, n - 1)
    <3>1. n - 1 \in 0 .. HeapSize /\ n - 1 \in Nat /\ (n - 1) + 1 = n /\ n \in Nat
      BY <2>2, <1>2
    <3>2. IsNextBound(heap, n - 1, f[n - 1]) /\ IsNextBound(heap, n, f[n])
      BY <3>1, <1>4
    <3>3. IsNextBound(heap, n, f[n - 1] + WeightOf(heap, n - 1))
      <4>1. IsNextBound(heap, (n - 1) + 1, f[n - 1] + WeightOf(heap, n - 1))
        BY <3>1, <3>2, <1>3
      <4> QED BY <4>1, <3>1
    <3> HIDE DEF f
    <3> QED BY <3>1, <3>2, <3>3, <1>3
  <2>3. f = [n \in 0 .. HeapSize |-> f[n]]
    OBVIOUS
  <2>4. \A n \in 0 .. HeapSize : f[n] = IF n = 0 THEN 0 ELSE f[n - 1] + WeightOf(heap, n - 1)
    <3> HIDE DEF f
    <3> QED BY <2>1, <2>2
  <2> HIDE DEF f
  <2> QED BY <2>3, <2>4
<1>6. Sums(sum)
  <2> HIDE DEF Sums
  <2> QED BY <1>5
<1> DEFINE T == {n \in Nat : n <= HeapSize => IsNextBound(heap, n, sum[n])}
<1> HIDE DEF sum, f
<1>7. /\ sum[0] = 0
      /\ \A n \in Nat : n + 1 <= HeapSize => sum[n + 1] = sum[n] + WeightOf(heap, n)
  <2>1. sum[0] = 0
    BY <1>2, <1>6
  <2>2. ASSUME NEW n \in Nat, n + 1 <= HeapSize PROVE sum[n + 1] = sum[n] + WeightOf(heap, n)
    <3>1. n + 1 \in 0 .. HeapSize /\ n + 1 # 0 /\ (n + 1) - 1 = n
      BY <2>2, <1>2
    <3> QED BY <3>1, <1>6
  <2> QED BY <2>1, <2>2
<1>8. 0 \in T
  BY <1>3, <1>7
<1>9. ASSUME NEW n \in Nat, n \in T PROVE n + 1 \in T
  <2> SUFFICES ASSUME n + 1 <= HeapSize PROVE IsNextBound(heap, n + 1, sum[n + 1])
    OBVIOUS
  <2>1. IsNextBound(heap, n, sum[n])
    BY <1>2, <1>9
  <2>2. sum[n + 1] = sum[n] + WeightOf(heap, n)
    BY <1>7
  <2> QED BY <2>1, <2>2, <1>3
<1>10. HeapSize \in T
  <2>1. Nat \subseteq T
    <3> HIDE DEF T
    <3> QED BY <1>8, <1>9, FromZero
  <2> QED BY <2>1, <1>2
<1>11. IsNextBound(heap, HeapSize, sum[HeapSize])
  BY <1>2, <1>10
<1>12. sum[HeapSize] = heap.top
  BY <1>2, <1>3, <1>11
<1> QED BY <1>1, <1>12

\* pinta_core_alloc gives up only when the live blocks and the new one fill the heap: the
\* compaction has left no free block, so that fragmentation alone is never the reason.
THEOREM GcFailsOnlyWhenFull ==
    ASSUME PinIds = {}
    PROVE  Spec => FailsOnlyWhenFull
<1>1. ASSUME BareInv, AllocFails PROVE LiveSlots + request.len >= HeapSize
  <2>1. pc = "retry" /\ Place(heap, request.len) = NULL
    BY <1>1 DEF AllocFails
  <2>2. Sound(heap) /\ FreeBlocks(heap) = {} /\ request \in Requests
    BY <2>1, <1>1 DEF BareInv, GcInv
  <2>3. HeapType(heap) /\ Tiled(heap) /\ OnList(heap, FreeBlocks(heap))
    BY <2>2 DEF Sound
  <2>4. request.len \in 1 .. HeapSize /\ HeapSize \in Nat
    BY <2>2, GcHeapAssumption, HeapSizeAssumption DEF Requests
  <2>5. ~CanSlide(heap, request.len)
    BY <2>1, <2>3, <2>4, PlaceIs
  <2>6. heap.top \in Int
    BY <2>3, HeapFields, AddrNumbers
  <2>7. LiveSlots = heap.top
    BY <2>2, <2>3, LiveSlotsAreAll
  <2> QED BY <2>4, <2>5, <2>6, <2>7 DEF CanSlide
<1>2. ASSUME BareInv, [Next]_vars PROVE [AllocFails => LiveSlots + request.len >= HeapSize]_vars
  BY <1>1, <1>2
<1> QED BY <1>2, GcNeverBreaks, PTL DEF Spec, FailsOnlyWhenFull

-----------------------------------------------------------------------------
(* The objects the program can reach *)

\* The objects of a graph that are reachable are those its references lead to.
LEMMA GraphReaches ==
    ASSUME NEW r, NEW g, IsFiniteSet(DOMAIN g), NoId \notin DOMAIN g,
           \A x \in Roots : r[x] \in DOMAIN g \cup {NoId},
           \A o \in DOMAIN g : g[o].ref \in DOMAIN g \cup {NoId}
    PROVE  LeastFrom(DOMAIN g, {r[x] : x \in Roots} \ {NoId}, [o \in DOMAIN g |-> g[o].ref], NoId,
                     Graph!Reachable(r, g))
<1> DEFINE O == DOMAIN g
           start == {r[x] : x \in Roots} \ {NoId}
           to == [o \in O |-> g[o].ref]
           on(A) == UNION {{o, g[o].ref} \ {NoId} : o \in A}
           reach == CHOOSE f : f = [n \in Nat |-> IF n = 0 THEN start ELSE on(f[n - 1])]
<1>1. start \in SUBSET O /\ to \in [O -> O \cup {NoId}]
  OBVIOUS
<1>2. Graph!Reachable(r, g) = reach[Cardinality(O)]
  <2>1. \A S : Graph!Cardinality(S) = Cardinality(S)
    BY DEF Graph!Cardinality, Cardinality
  <2> QED BY <2>1 DEF Graph!Reachable
<1>3. \A A \in SUBSET O : on(A) = Leads(to, NoId, A)
  BY DEF Leads
<1> HIDE DEF on, O, start, to
<1>6. reach = [n \in Nat |-> IF n = 0 THEN start ELSE on(reach[n - 1])]
  <2>1. PICK f : AreWays(O, start, to, NoId, f)
    <3>1. NoId \notin O
      BY DEF O
    <3> QED BY <3>1, <1>1, WaysExist
  <2>2. /\ f = [n \in Nat |-> IF n = 0 THEN start ELSE Leads(to, NoId, f[n - 1])]
        /\ \A n \in Nat : f[n] \in SUBSET O
    BY <2>1 DEF AreWays
  <2>3. \A n \in Nat : n # 0 => Leads(to, NoId, f[n - 1]) = on(f[n - 1])
    <3>1. \A n \in Nat : n # 0 => n - 1 \in Nat
      OBVIOUS
    <3> QED BY <3>1, <2>2, <1>3
  <2>4. f = [n \in Nat |-> IF n = 0 THEN start ELSE on(f[n - 1])]
    BY <2>2, <2>3
  <2> QED BY <2>4
<1> HIDE DEF reach
<1>7. reach[0] = start /\ \A n \in Nat : reach[n + 1] = on(reach[n])
  <2>1. \A n \in Nat : n + 1 \in Nat /\ n + 1 # 0 /\ (n + 1) - 1 = n
    OBVIOUS
  <2> QED BY <2>1, <1>6
<1>8. LeastFrom(O, start, to, NoId, reach[Cardinality(O)])
  <2>1. IsFiniteSet(O) /\ NoId \notin O
    BY DEF O
  <2> QED BY <2>1, <1>1, <1>3, <1>7, WaysEnd
<1> QED BY <1>2, <1>8 DEF O, start, to

\* Where the references of the objects lead, read through the table t.
Follow(h, t) == [a \in Objects(h) |-> RelocatedBy(t, h.mem[a].ref)]
Start(roots, t) == {RelocatedBy(t, roots[r]) : r \in Roots} \ {NULL}

\* The objects the program can reach are the set A.
Reaches(h, roots, t, A) == LeastFrom(Objects(h), Start(roots, t), Follow(h, t), NULL, A)

\* Those of the references that lead to an object.
FollowInUse(h, t) ==
    [a \in Objects(h) |-> LET b == RelocatedBy(t, h.mem[a].ref) IN IF b \in Objects(h) THEN b ELSE NULL]
StartInUse(h, roots, t) == {RelocatedBy(t, roots[r]) : r \in Roots} \cap Objects(h)

\* Wherever the references lead, the blocks computed are those reached through objects.
LEMMA ReachableBlocksLead ==
    LeastFrom(Objects(heap), StartInUse(heap, root, reloc), FollowInUse(heap, reloc), NULL, ReachableBlocks)
<1> DEFINE O == Objects(heap)
           start == StartInUse(heap, root, reloc)
           to == FollowInUse(heap, reloc)
           inUse(A) == {a \in A : InUse(heap, a)}
           first == inUse({Relocated(root[r]) : r \in Roots})
           on(A) == UNION {inUse({a, Relocated(heap.mem[a].ref)}) : a \in A}
           reach == CHOOSE f : f = [n \in Nat |-> IF n = 0 THEN first ELSE on(f[n - 1])]
<1>2. \A a : Relocated(a) = RelocatedBy(reloc, a)
  BY EmptyTable
<1>3. NULL \notin O /\ \A a : a \in O <=> InUse(heap, a)
  BY AddrNumbers DEF Objects, InUse, IsObject
<1>5. start \in SUBSET O /\ to \in [O -> O \cup {NULL}]
  BY DEF StartInUse, FollowInUse
<1>6. first = start
  <2> HIDE DEF O
  <2>1. first = {Relocated(root[r]) : r \in Roots} \cap O
    BY <1>3
  <2>2. {Relocated(root[r]) : r \in Roots} = {RelocatedBy(reloc, root[r]) : r \in Roots}
    BY <1>2
  <2> QED BY <2>1, <2>2 DEF StartInUse, O
<1>7. ASSUME NEW A \in SUBSET O PROVE on(A) = Leads(to, NULL, A)
  <2>1. \A a \in A : /\ a \in O
                     /\ to[a] = IF Relocated(heap.mem[a].ref) \in O THEN Relocated(heap.mem[a].ref) ELSE NULL
    BY <1>2 DEF FollowInUse
  <2> HIDE DEF O, to
  <2>2. \A a \in A : inUse({a, Relocated(heap.mem[a].ref)}) = {a, to[a]} \ {NULL}
    BY <2>1, <1>3
  <2> QED BY <2>2 DEF Leads
<1>8. ReachableBlocks = reach[Cardinality(O)]
  BY DEF ReachableBlocks
<1>9. \A A \in SUBSET O : on(A) = Leads(to, NULL, A)
  BY <1>7
<1>10. IsFiniteSet(O)
  BY ObjectsFinite
<1> HIDE DEF on, O, first, to
<1>11. reach = [n \in Nat |-> IF n = 0 THEN first ELSE on(reach[n - 1])]
  <2>1. PICK f : AreWays(O, first, to, NULL, f)
    <3>1. NULL \notin O /\ first \in SUBSET O /\ to \in [O -> O \cup {NULL}]
      BY <1>3, <1>5, <1>6
    <3> QED BY <3>1, WaysExist
  <2>2. /\ f = [n \in Nat |-> IF n = 0 THEN first ELSE Leads(to, NULL, f[n - 1])]
        /\ \A n \in Nat : f[n] \in SUBSET O
    BY <2>1 DEF AreWays
  <2>3. \A n \in Nat : n # 0 => Leads(to, NULL, f[n - 1]) = on(f[n - 1])
    <3>1. \A n \in Nat : n # 0 => n - 1 \in Nat
      OBVIOUS
    <3> QED BY <3>1, <2>2, <1>9
  <2>4. f = [n \in Nat |-> IF n = 0 THEN first ELSE on(f[n - 1])]
    BY <2>2, <2>3
  <2> QED BY <2>4
<1> HIDE DEF reach
<1>12. reach[0] = first /\ \A n \in Nat : reach[n + 1] = on(reach[n])
  <2>1. \A n \in Nat : n + 1 \in Nat /\ n + 1 # 0 /\ (n + 1) - 1 = n
    OBVIOUS
  <2> QED BY <2>1, <1>11
<1>13. LeastFrom(O, start, to, NULL, reach[Cardinality(O)])
  BY <1>3, <1>5, <1>6, <1>9, <1>10, <1>12, WaysEnd
<1> QED BY <1>8, <1>13 DEF O, to

\* Where every reference leads to an object, those are the objects the program can reach.
LEMMA ReachableBlocksAre == GcInv => Reaches(heap, root, reloc, ReachableBlocks)
<1> SUFFICES ASSUME GcInv PROVE Reaches(heap, root, reloc, ReachableBlocks)
  OBVIOUS
<1>1. Closed(heap, root, reloc) /\ NULL \notin Objects(heap)
  BY AddrNumbers DEF GcInv, Objects
<1>2. StartInUse(heap, root, reloc) = Start(root, reloc)
  BY <1>1 DEF StartInUse, Start, Closed
<1>3. FollowInUse(heap, reloc) = Follow(heap, reloc)
  <2>1. \A a \in Objects(heap) :
           (IF RelocatedBy(reloc, heap.mem[a].ref) \in Objects(heap) THEN RelocatedBy(reloc, heap.mem[a].ref)
            ELSE NULL) = RelocatedBy(reloc, heap.mem[a].ref)
    BY <1>1 DEF Closed
  <2> QED BY <2>1 DEF FollowInUse, Follow
<1> QED BY <1>2, <1>3, ReachableBlocksLead DEF Reaches

-----------------------------------------------------------------------------
(* What the program sees *)

IdOf(h, a) == IF a = NULL THEN NoId ELSE h.mem[a].id

\* The graph gr has the objects of A, with their lengths and what they refer to.
Shows(h, A, to, gr) ==
    /\ gr = [o \in {h.mem[a].id : a \in A} |-> gr[o]]
    /\ \A a \in A : gr[h.mem[a].id] = [len |-> h.mem[a].len, ref |-> IdOf(h, to[a])]

\* The program reaches the objects A; it sees the roots rt and the graph gr.
Sees(h, roots, t, A, rt, gr) ==
    /\ Reaches(h, roots, t, A)
    /\ rt = [r \in Roots |-> IdOf(h, RelocatedBy(t, roots[r]))]
    /\ Shows(h, A, Follow(h, t), gr)

\* The objects have names, and no two of them have one.
Named(h) ==
    /\ \A a \in Objects(h) : h.mem[a].id \in Ids
    /\ \A a, b \in Objects(h) : h.mem[a].id = h.mem[b].id => a = b

SeenRoot == [r \in Roots |-> IdAt(root[r])]
SeenGraph == [o \in {heap.mem[a].id : a \in ReachableBlocks} |->
                 [len |-> BlockOf(o).len, ref |-> IdAt(BlockOf(o).ref)]]

\* What is nowhere is not moved, and nothing is moved nowhere.
LEMMA TableNull ==
    ASSUME NEW t, Table(t), NEW x \in Ref
    PROVE  RelocatedBy(t, x) = NULL <=> x = NULL
<1> DEFINE hit == {i \in DOMAIN t : t[i].start <= x /\ x < t[i].end}
<1>1. \A i \in DOMAIN t : t[i].start \in Addr /\ t[i].offset \in Int /\ t[i].offset <= t[i].start
  <2>1. \A i \in DOMAIN t : t[i] \in Moves /\ t[i].offset <= t[i].start
    BY DEF Table
  <2>2. \A i \in DOMAIN t : t[i].start \in Addr /\ t[i].offset \in 0 .. HeapSize
    BY <2>1 DEF Moves
  <2> QED BY <2>1, <2>2, AddrNumbers
<1>2. \A i \in DOMAIN t : t[i].start \in Int /\ 0 <= t[i].start
  BY <1>1, AddrNumbers
<1>3. x \in Int /\ NULL = -1
  BY AddrNumbers
<1>4. CASE hit = {}
  BY <1>4 DEF RelocatedBy
<1>5. CASE hit # {}
  <2> DEFINE i == CHOOSE j \in hit : TRUE
  <2>1. i \in hit
    BY <1>5
  <2>2. i \in DOMAIN t /\ t[i].start <= x
    BY <2>1
  <2>3. RelocatedBy(t, x) = x - t[i].offset
    BY <1>5 DEF RelocatedBy
  <2> HIDE DEF i
  <2>4. 0 <= x - t[i].offset /\ 0 <= x
    BY <2>2, <1>1, <1>2, <1>3
  <2> QED BY <2>3, <2>4, <1>3
<1> QED BY <1>4, <1>5

\* Read through the table, a reference to an object shows the name of the object.
LEMMA IdAtIs ==
    ASSUME GcInv, NEW x \in Ref, RelocatedBy(reloc, x) \in Objects(heap) \cup {NULL}
    PROVE  IdAt(x) = IdOf(heap, RelocatedBy(reloc, x))
<1>1. RelocatedBy(reloc, x) = NULL <=> x = NULL
  BY TableNull DEF GcInv
<1>2. Relocated(x) = RelocatedBy(reloc, x)
  BY EmptyTable
<1>3. x # NULL => InUse(heap, RelocatedBy(reloc, x))
  BY <1>1 DEF Objects
<1> QED BY <1>1, <1>2, <1>3 DEF IdAt, IdOf

LEMMA SeenIs == GcInv /\ Named(heap) => Sees(heap, root, reloc, ReachableBlocks, SeenRoot, SeenGraph)
<1> SUFFICES ASSUME GcInv, Named(heap)
             PROVE  Sees(heap, root, reloc, ReachableBlocks, SeenRoot, SeenGraph)
  OBVIOUS
<1> DEFINE O == Objects(heap)
           A == ReachableBlocks
<1>1. Reaches(heap, root, reloc, A)
  BY ReachableBlocksAre
<1>2. A \subseteq O
  BY <1>1 DEF Reaches, LeastFrom
<1>3. Closed(heap, root, reloc) /\ Table(reloc) /\ root \in [Roots -> Ref] /\ HeapType(heap)
  BY DEF GcInv, Sound
<1>4. ASSUME NEW x \in Ref, RelocatedBy(reloc, x) \in O \cup {NULL}
      PROVE  IdAt(x) = IdOf(heap, RelocatedBy(reloc, x))
  BY <1>4, IdAtIs
<1>5. \A a \in O : a \in Addr /\ heap.mem[a].ref \in Ref
  <2>1. \A a \in O : a \in Addr
    BY DEF Objects
  <2>2. \A a \in Addr : heap.mem[a] \in Block
    BY <1>3, HeapFields
  <2> QED BY <2>1, <2>2, BlockFields
<1>6. SeenRoot = [r \in Roots |-> IdOf(heap, RelocatedBy(reloc, root[r]))]
  <2>1. \A r \in Roots : root[r] \in Ref /\ RelocatedBy(reloc, root[r]) \in O \cup {NULL}
    BY <1>3 DEF Closed
  <2> HIDE DEF O
  <2>2. \A r \in Roots : IdAt(root[r]) = IdOf(heap, RelocatedBy(reloc, root[r]))
    BY <2>1, <1>4
  <2> QED BY <2>2 DEF SeenRoot
<1>7. ASSUME NEW a \in A
      PROVE  SeenGraph[heap.mem[a].id] = [len |-> heap.mem[a].len, ref |-> IdOf(heap, Follow(heap, reloc)[a])]
  <2>1. BlockOf(heap.mem[a].id) = heap.mem[a]
    <3>1. a \in O /\ \A b \in O : heap.mem[b].id = heap.mem[a].id => b = a
      BY <1>2 DEF Named
    <3> DEFINE x == CHOOSE b \in O : heap.mem[b].id = heap.mem[a].id
    <3>2. x = a
      BY <3>1
    <3>3. BlockOf(heap.mem[a].id) = heap.mem[x]
      BY DEF BlockOf
    <3> HIDE DEF x
    <3> QED BY <3>2, <3>3
  <2>2. Follow(heap, reloc)[a] = RelocatedBy(reloc, heap.mem[a].ref)
    BY <1>2 DEF Follow
  <2>3. IdAt(heap.mem[a].ref) = IdOf(heap, RelocatedBy(reloc, heap.mem[a].ref))
    <3>1. heap.mem[a].ref \in Ref /\ RelocatedBy(reloc, heap.mem[a].ref) \in O \cup {NULL}
      BY <1>2, <1>3, <1>5 DEF Closed
    <3> HIDE DEF O
    <3> QED BY <3>1, <1>4
  <2>4. SeenGraph[heap.mem[a].id] = [len |-> BlockOf(heap.mem[a].id).len, ref |-> IdAt(BlockOf(heap.mem[a].id).ref)]
    BY DEF SeenGraph
  <2> QED BY <2>1, <2>2, <2>3, <2>4
<1>8. SeenGraph = [o \in {heap.mem[a].id : a \in A} |-> SeenGraph[o]]
  BY DEF SeenGraph
<1> QED BY <1>1, <1>6, <1>7, <1>8 DEF Sees, Shows

\* Two heaps of which one has the reachable objects of the other, where the function to moves
\* them, look the same.
LEMMA MovedUnseen ==
    ASSUME NEW h, NEW roots, NEW t, NEW A, NEW rt, NEW gr, Sees(h, roots, t, A, rt, gr),
           NEW g, NEW roots2, NEW u, NEW A2, NEW rt2, NEW gr2, Sees(g, roots2, u, A2, rt2, gr2),
           NEW to, to[NULL] = NULL,
           \A a \in A : to[a] \in Objects(g) /\ to[a] # NULL,
           \A a \in A : g.mem[to[a]].id = h.mem[a].id /\ g.mem[to[a]].len = h.mem[a].len,
           \A a \in A : RelocatedBy(u, g.mem[to[a]].ref) = to[RelocatedBy(t, h.mem[a].ref)],
           \A r \in Roots : RelocatedBy(u, roots2[r]) = to[RelocatedBy(t, roots[r])]
    PROVE  rt2 = rt /\ gr2 = gr
<1> DEFINE F == Follow(h, t)
           G == Follow(g, u)
           P == {to[a] : a \in A}
<1>1. /\ A \subseteq Objects(h) /\ Start(roots, t) \subseteq A /\ \A a \in A : F[a] \in A \cup {NULL}
      /\ \A B \in SUBSET Objects(h) :
            Start(roots, t) \subseteq B /\ (\A a \in B : F[a] \in B \cup {NULL}) => A \subseteq B
  BY DEF Sees, Reaches, LeastFrom
<1>2. /\ A2 \subseteq Objects(g) /\ Start(roots2, u) \subseteq A2 /\ \A a \in A2 : G[a] \in A2 \cup {NULL}
      /\ \A B \in SUBSET Objects(g) :
            Start(roots2, u) \subseteq B /\ (\A a \in B : G[a] \in B \cup {NULL}) => A2 \subseteq B
  BY DEF Sees, Reaches, LeastFrom
<1>3. /\ \A a \in A : F[a] = RelocatedBy(t, h.mem[a].ref) /\ G[to[a]] = to[F[a]]
      /\ \A a \in A : F[a] \in A \cup {NULL}
  <2>1. \A a \in A : F[a] = RelocatedBy(t, h.mem[a].ref)
    BY <1>1 DEF Follow
  <2>2. \A a \in A : G[to[a]] = RelocatedBy(u, g.mem[to[a]].ref)
    BY DEF Follow
  <2> QED BY <2>1, <2>2, <1>1
<1>4. \A r \in Roots : RelocatedBy(t, roots[r]) \in A \cup {NULL}
  BY <1>1 DEF Start
<1> HIDE DEF F, G
<1>5. A2 \subseteq P
  <2>1. P \in SUBSET Objects(g)
    OBVIOUS
  <2>2. Start(roots2, u) \subseteq P
    BY <1>4 DEF Start
  <2>3. \A b \in P : G[b] \in P \cup {NULL}
    BY <1>3
  <2> HIDE DEF P
  <2> QED BY <2>1, <2>2, <2>3, <1>2
<1>6. \A a \in A : to[a] \in A2
  <2> DEFINE B == {a \in A : to[a] \in A2}
  <2>1. B \in SUBSET Objects(h)
    BY <1>1
  <2>2. Start(roots, t) \subseteq B
    <3> SUFFICES ASSUME NEW r \in Roots, RelocatedBy(t, roots[r]) # NULL
                 PROVE  RelocatedBy(t, roots[r]) \in B
      BY DEF Start
    <3>1. RelocatedBy(t, roots[r]) \in A
      BY <1>4
    <3>2. RelocatedBy(u, roots2[r]) # NULL /\ RelocatedBy(u, roots2[r]) = to[RelocatedBy(t, roots[r])]
      BY <3>1
    <3>3. RelocatedBy(u, roots2[r]) \in A2
      BY <3>2, <1>2 DEF Start
    <3> QED BY <3>1, <3>2, <3>3
  <2>3. ASSUME NEW a \in B PROVE F[a] \in B \cup {NULL}
    <3>1. a \in A /\ to[a] \in A2
      OBVIOUS
    <3>2. F[a] \in A \cup {NULL} /\ G[to[a]] = to[F[a]] /\ G[to[a]] \in A2 \cup {NULL}
      BY <3>1, <1>2, <1>3
    <3> QED BY <3>2
  <2>4. A \subseteq B
    <3> HIDE DEF B
    <3> QED BY <2>1, <2>2, <2>3, <1>1
  <2> QED BY <2>4
<1>7. \A a \in A \cup {NULL} : IdOf(g, to[a]) = IdOf(h, a)
  BY DEF IdOf
<1>8. rt2 = rt
  <2>1. /\ rt = [r \in Roots |-> IdOf(h, RelocatedBy(t, roots[r]))]
        /\ rt2 = [r \in Roots |-> IdOf(g, RelocatedBy(u, roots2[r]))]
    BY DEF Sees
  <2>2. \A r \in Roots : IdOf(h, RelocatedBy(t, roots[r])) = IdOf(g, RelocatedBy(u, roots2[r]))
    BY <1>4, <1>7
  <2> QED BY <2>1, <2>2
<1>9. gr2 = gr
  <2> DEFINE D == {h.mem[a].id : a \in A}
  <2>1. /\ gr = [o \in D |-> gr[o]]
        /\ \A a \in A : gr[h.mem[a].id] = [len |-> h.mem[a].len, ref |-> IdOf(h, F[a])]
    BY DEF Sees, Shows, F
  <2>2. /\ gr2 = [o \in {g.mem[b].id : b \in A2} |-> gr2[o]]
        /\ \A b \in A2 : gr2[g.mem[b].id] = [len |-> g.mem[b].len, ref |-> IdOf(g, G[b])]
    BY DEF Sees, Shows, G
  <2>3. {g.mem[b].id : b \in A2} = D
    BY <1>5, <1>6
  <2>4. ASSUME NEW a \in A PROVE gr2[h.mem[a].id] = gr[h.mem[a].id]
    <3>1. to[a] \in A2 /\ g.mem[to[a]].id = h.mem[a].id /\ g.mem[to[a]].len = h.mem[a].len
      BY <1>6
    <3>2. IdOf(g, G[to[a]]) = IdOf(h, F[a])
      BY <1>3, <1>7
    <3>3. gr2[h.mem[a].id] = [len |-> h.mem[a].len, ref |-> IdOf(h, F[a])]
      BY <2>2, <3>1, <3>2
    <3> QED BY <2>1, <3>3
  <2>5. \A o \in D : gr2[o] = gr[o]
    BY <2>4
  <2> HIDE DEF D
  <2> QED BY <2>1, <2>2, <2>3, <2>5
<1> QED BY <1>8, <1>9

\* What the roots r reach of the graph g is the graph gr.
IsReachablePart(r, g, gr) == gr = [o \in Graph!Reachable(r, g) |-> g[o]]

\* What is seen of a heap is what is reachable of any graph that shows as much of it.
LEMMA SeesReachable ==
    ASSUME NEW h, Named(h), NEW roots, NEW t, NEW A, NEW rt, NEW gr, Sees(h, roots, t, A, rt, gr),
           NEW B \in SUBSET Objects(h), Start(roots, t) \subseteq B,
           \A a \in B : Follow(h, t)[a] \in B \cup {NULL},
           NEW g, Shows(h, B, Follow(h, t), g)
    PROVE  IsReachablePart(rt, g, gr)
<1> DEFINE F == Follow(h, t)
           id(a) == h.mem[a].id
           D == {id(a) : a \in B}
           onto == [o \in DOMAIN g |-> g[o].ref]
           first == {rt[r] : r \in Roots} \ {NoId}
           R == Graph!Reachable(rt, g)
<1>1. /\ A \subseteq Objects(h) /\ Start(roots, t) \subseteq A /\ \A a \in A : F[a] \in A \cup {NULL}
      /\ \A C \in SUBSET Objects(h) :
            Start(roots, t) \subseteq C /\ (\A a \in C : F[a] \in C \cup {NULL}) => A \subseteq C
  BY DEF Sees, Reaches, LeastFrom
<1>2. A \subseteq B
  BY <1>1
<1>3. rt = [r \in Roots |-> IdOf(h, RelocatedBy(t, roots[r]))]
  BY DEF Sees
<1>4. /\ gr = [o \in {id(a) : a \in A} |-> gr[o]]
      /\ \A a \in A : gr[id(a)] = [len |-> h.mem[a].len, ref |-> IdOf(h, F[a])]
  BY DEF Sees, Shows
<1>5. /\ g = [o \in D |-> g[o]]
      /\ \A a \in B : g[id(a)] = [len |-> h.mem[a].len, ref |-> IdOf(h, F[a])]
  BY DEF Shows
<1>6. \A r \in Roots : RelocatedBy(t, roots[r]) \in A \cup {NULL}
  BY <1>1 DEF Start
<1>7. /\ NoId \notin D /\ NULL \notin B
      /\ \A a, b \in B : id(a) = id(b) => a = b
  <2>1. NULL \notin Objects(h)
    BY AddrNumbers DEF Objects
  <2> QED BY <2>1, GcHeapAssumption DEF Named
<1>8. \A a \in B \cup {NULL} : IdOf(h, a) = IF a = NULL THEN NoId ELSE id(a)
  BY DEF IdOf
<1>9. IsFiniteSet(D)
  <2>1. IsFiniteSet(B)
    BY ObjectsFinite, FS_Subset
  <2> DEFINE f == [a \in B |-> id(a)]
  <2>2. f \in Surjection(B, D)
    BY DEF Surjection
  <2> HIDE DEF f, D
  <2> QED BY <2>1, <2>2, FS_Surjection
<1>10. DOMAIN g = D
  BY <1>5
<1>10a. \A a \in B : g[id(a)].ref = IdOf(h, F[a])
  <2>1. \A a \in B : g[id(a)] = [len |-> h.mem[a].len, ref |-> IdOf(h, F[a])]
    BY <1>5
  <2> HIDE DEF id, F, D
  <2> SUFFICES ASSUME NEW a \in B PROVE g[id(a)].ref = IdOf(h, F[a])
    OBVIOUS
  <2>2. g[id(a)] = [len |-> h.mem[a].len, ref |-> IdOf(h, F[a])]
    BY <2>1
  <2> QED BY <2>2
<1> HIDE DEF F, id, D
<1>11. \A r \in Roots : rt[r] \in D \cup {NoId}
  BY <1>2, <1>3, <1>6, <1>8 DEF D
<1>12. \A o \in D : g[o].ref \in D \cup {NoId}
  <2>1. ASSUME NEW a \in B PROVE g[id(a)].ref \in D \cup {NoId}
    <3>1. F[a] \in B \cup {NULL}
      BY DEF F
    <3>2. IdOf(h, F[a]) \in D \cup {NoId}
      BY <3>1, <1>8 DEF D
    <3> QED BY <3>2, <1>10a
  <2> QED BY <2>1 DEF D
<1>13. LeastFrom(D, first, onto, NoId, R)
  <2>1. LeastFrom(DOMAIN g, first, onto, NoId, R)
    BY <1>7, <1>9, <1>10, <1>11, <1>12, GraphReaches
  <2> QED BY <2>1, <1>10
<1> HIDE DEF R
<1>14. /\ R \subseteq D /\ first \subseteq R /\ \A o \in R : onto[o] \in R \cup {NoId}
       /\ \A C \in SUBSET D : first \subseteq C /\ (\A o \in C : onto[o] \in C \cup {NoId}) => R \subseteq C
  BY <1>13 DEF LeastFrom
<1>15. \A a \in B : id(a) \in D /\ onto[id(a)] = IdOf(h, F[a])
  <2>1. \A a \in B : id(a) \in D /\ g[id(a)].ref = IdOf(h, F[a])
    BY <1>10a DEF D
  <2> QED BY <2>1, <1>10
<1> HIDE DEF onto
<1>16. R \subseteq {id(a) : a \in A}
  <2> DEFINE C == {id(a) : a \in A}
  <2>1. C \in SUBSET D
    BY <1>2 DEF D
  <2>2. first \subseteq C
    BY <1>2, <1>3, <1>6, <1>8
  <2>3. ASSUME NEW a \in A PROVE onto[id(a)] \in C \cup {NoId}
    <3>1. F[a] \in A \cup {NULL} /\ onto[id(a)] = IdOf(h, F[a])
      BY <1>1, <1>2, <1>15
    <3> QED BY <3>1, <1>2, <1>8
  <2>4. \A o \in C : onto[o] \in C \cup {NoId}
    BY <2>3
  <2> HIDE DEF C, first
  <2> QED BY <2>1, <2>2, <2>4, <1>14 DEF C
<1>17. \A a \in A : id(a) \in R
  <2> DEFINE C == {a \in B : id(a) \in R}
  <2>1. C \in SUBSET Objects(h)
    OBVIOUS
  <2>2. Start(roots, t) \subseteq C
    <3> SUFFICES ASSUME NEW r \in Roots, RelocatedBy(t, roots[r]) # NULL
                 PROVE  RelocatedBy(t, roots[r]) \in C
      BY DEF Start
    <3>1. RelocatedBy(t, roots[r]) \in B
      BY <1>2, <1>6
    <3>2. rt[r] = id(RelocatedBy(t, roots[r])) /\ rt[r] # NoId
      BY <3>1, <1>3, <1>7, <1>8 DEF D
    <3>3. rt[r] \in R
      BY <3>2, <1>14
    <3> QED BY <3>1, <3>2, <3>3
  <2>3. ASSUME NEW a \in C PROVE F[a] \in C \cup {NULL}
    <3>1. a \in B /\ id(a) \in R /\ F[a] \in B \cup {NULL}
      BY DEF F
    <3>2. onto[id(a)] \in R \cup {NoId} /\ onto[id(a)] = IdOf(h, F[a])
      BY <3>1, <1>14, <1>15
    <3>3. F[a] # NULL => IdOf(h, F[a]) = id(F[a]) /\ id(F[a]) # NoId
      BY <3>1, <1>7, <1>8 DEF D
    <3> QED BY <3>1, <3>2, <3>3
  <2> HIDE DEF C
  <2>4. A \subseteq C
    BY <2>1, <2>2, <2>3, <1>1
  <2> QED BY <2>4 DEF C
<1>18. R = {id(a) : a \in A}
  BY <1>16, <1>17
<1>19. \A o \in R : gr[o] = g[o]
  <2>1. \A a \in A : a \in B /\ gr[id(a)] = [len |-> h.mem[a].len, ref |-> IdOf(h, F[a])]
    BY <1>2, <1>4
  <2>2. \A a \in A : gr[id(a)] = g[id(a)]
    BY <2>1, <1>5
  <2> QED BY <2>2, <1>18
<1>20. gr = [o \in R |-> g[o]]
  BY <1>4, <1>18, <1>19
<1> QED BY <1>20 DEF R, IsReachablePart

-----------------------------------------------------------------------------
(* Steps the program does not see *)

\* The invariant with the names of the objects: no two have one, and the one a request waits
\* for is not in use.
GraphInv ==
    /\ GcInv /\ Named(heap)
    /\ request \in Requests => Unused(request.id)

\* After a step nothing with the name of a pinned object lies elsewhere.
PinsStay ==
    \A a \in Objects(heap) : heap.mem[a].pinned =>
        \A b \in Objects(heap') : heap'.mem[b].id = heap.mem[a].id => b = a

\* The step moves the objects the program can reach from a to to[a], but no pinned one, and
\* makes no object.
MovesObjects(to) ==
    /\ to[NULL] = NULL
    /\ \A b \in Objects(heap') :
          \E a \in Objects(heap) : /\ b = to[a] /\ heap'.mem[b].id = heap.mem[a].id
                                   /\ heap.mem[a].pinned => b = a
    /\ \A a \in ReachableBlocks :
          /\ to[a] \in Objects(heap')
          /\ heap'.mem[to[a]].id = heap.mem[a].id /\ heap'.mem[to[a]].len = heap.mem[a].len
          /\ RelocatedBy(reloc', heap'.mem[to[a]].ref) = to[RelocatedBy(reloc, heap.mem[a].ref)]
    /\ \A r \in Roots : RelocatedBy(reloc', root'[r]) = to[RelocatedBy(reloc, root[r])]
    /\ request' \in Requests => request' = request \/ Unused(request'.id)

\* The program sees what it saw.
Unseen == GraphInv' /\ PinsStay /\ SeenRoot' = SeenRoot /\ SeenGraph' = SeenGraph

LEMMA SeenAfter == (GcInv /\ Named(heap))' => Sees(heap, root, reloc, ReachableBlocks, SeenRoot, SeenGraph)'
BY SeenIs, PTL

LEMMA MovesUnseen ==
    ASSUME GraphInv, GcInv', NEW to, MovesObjects(to)
    PROVE  Unseen
<1>1. Sees(heap, root, reloc, ReachableBlocks, SeenRoot, SeenGraph)
  BY SeenIs DEF GraphInv
<1>2. Named(heap')
  <2>1. \A b \in Objects(heap') : \E a \in Objects(heap) : b = to[a] /\ heap'.mem[b].id = heap.mem[a].id
    BY DEF MovesObjects
  <2> QED BY <2>1 DEF Named, GraphInv
<1>3. Sees(heap', root', reloc', ReachableBlocks', SeenRoot', SeenGraph')
  BY <1>2, SeenAfter
<1>4. NULL \notin Objects(heap')
  BY AddrNumbers DEF Objects
<1>5. /\ to[NULL] = NULL
      /\ \A a \in ReachableBlocks : to[a] \in Objects(heap') /\ to[a] # NULL
      /\ \A a \in ReachableBlocks :
            heap'.mem[to[a]].id = heap.mem[a].id /\ heap'.mem[to[a]].len = heap.mem[a].len
      /\ \A a \in ReachableBlocks :
            RelocatedBy(reloc', heap'.mem[to[a]].ref) = to[RelocatedBy(reloc, heap.mem[a].ref)]
      /\ \A r \in Roots : RelocatedBy(reloc', root'[r]) = to[RelocatedBy(reloc, root[r])]
  BY <1>4 DEF MovesObjects
<1>6. SeenRoot' = SeenRoot /\ SeenGraph' = SeenGraph
  BY <1>1, <1>3, <1>5, MovedUnseen
<1>7. (request \in Requests => Unused(request.id))'
  <2> SUFFICES ASSUME request' \in Requests PROVE \A b \in Objects(heap') : heap'.mem[b].id # request'.id
    BY DEF Unused
  <2>1. Unused(request'.id)
    BY DEF MovesObjects, GraphInv
  <2>2. \A b \in Objects(heap') : \E a \in Objects(heap) : b = to[a] /\ heap'.mem[b].id = heap.mem[a].id
    BY DEF MovesObjects
  <2> QED BY <2>1, <2>2 DEF Unused
<1>8. PinsStay
  <2> SUFFICES ASSUME NEW a \in Objects(heap), heap.mem[a].pinned,
                      NEW b \in Objects(heap'), heap'.mem[b].id = heap.mem[a].id
               PROVE  b = a
    BY DEF PinsStay
  <2>1. PICK x \in Objects(heap) : heap'.mem[b].id = heap.mem[x].id /\ (heap.mem[x].pinned => b = x)
    BY DEF MovesObjects
  <2>2. x = a
    BY <2>1 DEF GraphInv, Named
  <2> QED BY <2>1, <2>2
<1> QED BY <1>2, <1>6, <1>7, <1>8 DEF Unseen, GraphInv

\* The objects the program can reach stay where they are.
StaysPut ==
    /\ \A b \in Objects(heap') : b \in Objects(heap) /\ heap'.mem[b].id = heap.mem[b].id
    /\ \A a \in ReachableBlocks :
          /\ a \in Objects(heap')
          /\ heap'.mem[a].id = heap.mem[a].id /\ heap'.mem[a].len = heap.mem[a].len
          /\ RelocatedBy(reloc', heap'.mem[a].ref) = RelocatedBy(reloc, heap.mem[a].ref)
    /\ \A r \in Roots : RelocatedBy(reloc', root'[r]) = RelocatedBy(reloc, root[r])
    /\ request' \in Requests => request' = request \/ Unused(request'.id)

\* The objects the program can reach, and the references to them.
LEMMA ReachableIs ==
    ASSUME GcInv
    PROVE  /\ ReachableBlocks \subseteq Objects(heap) /\ NULL \notin Objects(heap)
           /\ \A a \in ReachableBlocks : RelocatedBy(reloc, heap.mem[a].ref) \in ReachableBlocks \cup {NULL}
           /\ \A r \in Roots : RelocatedBy(reloc, root[r]) \in ReachableBlocks \cup {NULL}
           /\ \A B \in SUBSET Objects(heap) :
                 /\ \A r \in Roots : RelocatedBy(reloc, root[r]) \in B \cup {NULL}
                 /\ \A a \in B : RelocatedBy(reloc, heap.mem[a].ref) \in B \cup {NULL}
                 => ReachableBlocks \subseteq B
           /\ ReachableBlocks \subseteq Ref
<1> DEFINE A == ReachableBlocks
           F == Follow(heap, reloc)
<1>1. /\ A \subseteq Objects(heap) /\ Start(root, reloc) \subseteq A /\ \A a \in A : F[a] \in A \cup {NULL}
      /\ \A B \in SUBSET Objects(heap) :
            Start(root, reloc) \subseteq B /\ (\A a \in B : F[a] \in B \cup {NULL}) => A \subseteq B
  BY ReachableBlocksAre DEF Reaches, LeastFrom
<1> HIDE DEF A
<1>2. \A a \in Objects(heap) : F[a] = RelocatedBy(reloc, heap.mem[a].ref)
  BY DEF Follow
<1> HIDE DEF F
<1>3. \A a \in A : RelocatedBy(reloc, heap.mem[a].ref) \in A \cup {NULL}
  BY <1>1, <1>2
<1>4. \A r \in Roots : RelocatedBy(reloc, root[r]) \in A \cup {NULL}
  BY <1>1 DEF Start
<1>5. ASSUME NEW B \in SUBSET Objects(heap),
             \A r \in Roots : RelocatedBy(reloc, root[r]) \in B \cup {NULL},
             \A a \in B : RelocatedBy(reloc, heap.mem[a].ref) \in B \cup {NULL}
      PROVE  A \subseteq B
  <2>1. Start(root, reloc) \subseteq B
    BY <1>5 DEF Start
  <2>2. \A a \in B : F[a] \in B \cup {NULL}
    BY <1>2, <1>5
  <2> QED BY <2>1, <2>2, <1>1
<1>6. NULL \notin Objects(heap)
  BY AddrNumbers DEF Objects
<1>7. A \subseteq Ref
  BY <1>1 DEF Objects, Ref
<1> QED BY <1>1, <1>3, <1>4, <1>5, <1>6, <1>7 DEF A

LEMMA ReachableAreObjects == GcInv => ReachableBlocks \subseteq Objects(heap)
BY ReachableIs

LEMMA ReachableAfter == (GcInv => ReachableBlocks \subseteq Objects(heap))'
BY ReachableAreObjects, PTL

LEMMA StaysUnseen ==
    ASSUME GraphInv, GcInv', StaysPut
    PROVE  Unseen
<1> DEFINE to == [a \in Ref |-> a]
<1>1. GcInv
  BY DEF GraphInv
<1>2. /\ ReachableBlocks \subseteq Objects(heap)
      /\ \A a \in ReachableBlocks : RelocatedBy(reloc, heap.mem[a].ref) \in ReachableBlocks \cup {NULL}
      /\ \A r \in Roots : RelocatedBy(reloc, root[r]) \in ReachableBlocks \cup {NULL}
      /\ ReachableBlocks \subseteq Ref
  BY <1>1, ReachableIs
<1>3. /\ to[NULL] = NULL /\ \A a \in Objects(heap) : to[a] = a
      /\ \A a \in ReachableBlocks \cup {NULL} : to[a] = a
  BY <1>2 DEF Ref, Objects
<1> HIDE DEF to
<1>4. \A b \in Objects(heap') :
         \E a \in Objects(heap) : /\ b = to[a] /\ heap'.mem[b].id = heap.mem[a].id
                                  /\ heap.mem[a].pinned => b = a
  BY <1>3 DEF StaysPut
<1>5. \A a \in ReachableBlocks :
          /\ to[a] \in Objects(heap')
          /\ heap'.mem[to[a]].id = heap.mem[a].id /\ heap'.mem[to[a]].len = heap.mem[a].len
          /\ RelocatedBy(reloc', heap'.mem[to[a]].ref) = to[RelocatedBy(reloc, heap.mem[a].ref)]
  BY <1>2, <1>3 DEF StaysPut
<1>6. \A r \in Roots : RelocatedBy(reloc', root'[r]) = to[RelocatedBy(reloc, root[r])]
  BY <1>2, <1>3 DEF StaysPut
<1>7. request' \in Requests => request' = request \/ Unused(request'.id)
  BY DEF StaysPut
<1>8. MovesObjects(to)
  BY <1>3, <1>4, <1>5, <1>6, <1>7 DEF MovesObjects
<1> QED BY <1>8, MovesUnseen

\* All objects stay as they are.
LEMMA LeftUnseen ==
    ASSUME GraphInv, GcInv', Objects(heap') = Objects(heap),
           \A a \in Objects(heap) : heap'.mem[a] = heap.mem[a],
           reloc' = reloc, root' = root, request' \in Requests => request' = request
    PROVE  Unseen
<1>1. ReachableBlocks \subseteq Objects(heap)
  BY ReachableIs DEF GraphInv
<1>2. StaysPut
  BY <1>1 DEF StaysPut
<1> QED BY <1>2, StaysUnseen

\* The iterations of the compactor that move nothing.
LEMMA PassIs ==
    ASSUME GcInv, PassFree
    PROVE  Objects(heap') = Objects(heap) /\ \A a \in Objects(heap) : heap'.mem[a] = heap.mem[a]
<1> DEFINE fl == comp.free_last
<1>1. pc = "compact" /\ current < heap.top /\ IsFree(heap, current)
  BY DEF PassFree, Looping
<1>2. Sound(heap) /\ HeapType(heap) /\ Tiled(heap) /\ AtBlock(heap, comp) /\ Roaming(heap, comp, reloc)
  BY <1>1, LoopAt
<1>3. current \in FreeBlocks(heap)
  BY <1>1, <1>2, BlocksAre DEF AtBlock, current
<1>4. CASE fl # NULL /\ After(heap, fl) = current
  <2>1. heap' = FreeMerge(heap, fl) /\ fl \in FreeBlocks(heap)
    BY <1>2, <1>4 DEF PassFree, Roaming
  <2>2. Joined(heap, fl, current, heap')
    BY <2>1, <1>2, <1>3, <1>4, MergeJoins
  <2> QED BY <2>2 DEF Joined
<1>5. CASE ~(fl # NULL /\ After(heap, fl) = current)
  BY <1>5 DEF PassFree
<1> QED BY <1>4, <1>5

LEMMA LoopUnseen ==
    ASSUME GraphInv, GcInv', KeepInPlace \/ PassFree \/ LeaveBehind
    PROVE  Unseen
<1>1. GcInv /\ UNCHANGED <<reloc, root, request>>
  BY DEF GraphInv, KeepInPlace, PassFree, LeaveBehind, Looping
<1>2. Objects(heap') = Objects(heap) /\ \A a \in Objects(heap) : heap'.mem[a] = heap.mem[a]
  <2>1. CASE KeepInPlace \/ LeaveBehind
    BY <2>1 DEF KeepInPlace, LeaveBehind
  <2>2. CASE PassFree
    BY <2>2, <1>1, PassIs
  <2> QED BY <2>1, <2>2
<1> QED BY <1>1, <1>2, LeftUnseen

\* The table applied to the roots and to all references.
LEMMA AppliedUnseen ==
    ASSUME GraphInv, GcInv', NEW h, Objects(h) = Objects(heap),
           \A a \in Objects(heap) : h.mem[a] = heap.mem[a],
           IsRelocated(h, reloc, heap'), root' = RelocatedRoots, reloc' = << >>, request' = request
    PROVE  Unseen
<1>1. ReachableBlocks \subseteq Objects(heap)
  BY ReachableIs DEF GraphInv
<1>2. /\ Objects(heap') = Objects(heap)
      /\ \A a \in Objects(heap) : /\ heap'.mem[a].ref = RelocatedBy(reloc, heap.mem[a].ref)
                                 /\ heap'.mem[a].id = heap.mem[a].id /\ heap'.mem[a].len = heap.mem[a].len
  BY DEF IsRelocated, SameHeap
<1>3. \A a : RelocatedBy(reloc', a) = a
  BY EmptyTable
<1>4. \A r \in Roots : root'[r] = RelocatedBy(reloc, root[r])
  BY EmptyTable DEF RelocatedRoots
<1>5. StaysPut
  BY <1>1, <1>2, <1>3, <1>4 DEF StaysPut
<1> QED BY <1>5, StaysUnseen

LEMMA FlushUnseen ==
    ASSUME GraphInv, GcInv', FlushRelocations
    PROVE  Unseen
<1>1. /\ Sound(heap) /\ request' = request /\ Closed(heap, root, reloc)
      /\ heap' = RelocatedHeap(heap) /\ root' = RelocatedRoots /\ reloc' = << >>
  BY DEF GraphInv, GcInv, FlushRelocations, ApplyRelocations
<1>2. IsRelocated(heap, reloc, heap')
  BY <1>1, RelocatedHeapIs DEF Closed
<1> QED BY <1>1, <1>2, AppliedUnseen

LEMMA FinishUnseen ==
    ASSUME GraphInv, GcInv', AllCounted, FinishCompaction
    PROVE  Unseen
<1> DEFINE h == FixupFreeList([heap EXCEPT !.top = IF comp.alive_last = NULL THEN 0
                                                   ELSE After(heap, comp.alive_last)])
<1>1. /\ Rested(h) /\ Objects(h) = Objects(heap) /\ Closed(h, root, reloc)
      /\ \A a \in Objects(heap) : h.mem[a] = heap.mem[a]
      /\ heap' = IF reloc # << >> THEN RelocatedHeap(h) ELSE h
      /\ root' = RelocatedRoots /\ reloc' = << >> /\ request' = request
  BY FinishIs DEF GraphInv
<1> HIDE DEF h
<1>2. CASE reloc # << >>
  <2>1. heap' = RelocatedHeap(h) /\ Sound(h)
    BY <1>1, <1>2 DEF Rested
  <2>2. \A a \in Objects(h) : RelocatedBy(reloc, h.mem[a].ref) \in Objects(h) \cup {NULL}
    BY <1>1 DEF Closed
  <2>3. IsRelocated(h, reloc, heap')
    BY <2>1, <2>2, RelocatedHeapIs
  <2> QED BY <2>3, <1>1, AppliedUnseen
<1>3. CASE reloc = << >>
  <2>1. heap' = h /\ reloc' = reloc
    BY <1>1, <1>3
  <2>2. ReachableBlocks \subseteq Objects(heap)
    BY ReachableIs DEF GraphInv
  <2>3. \A r \in Roots : root'[r] = RelocatedBy(<< >>, root[r]) /\ RelocatedBy(<< >>, root'[r]) = root'[r]
    BY <1>1, <1>3, EmptyTable DEF RelocatedRoots
  <2>4. StaysPut
    BY <2>1, <2>2, <2>3, <1>1, <1>3 DEF StaysPut
  <2> QED BY <2>4, StaysUnseen
<1> QED BY <1>2, <1>3

\* A slide and a jump move one object, which is not pinned, and the table says where.
LEMMA MoveUnseen ==
    ASSUME GraphInv, GcInv', NEW c, NEW fl, MoveDoes(c, fl)
    PROVE  Unseen
<1> DEFINE to == [a \in Ref |-> IF a = c THEN fl ELSE a]
<1>1. GcInv
  BY DEF GraphInv
<1>2. /\ Sound(heap) /\ c \in Objects(heap) /\ ~heap.mem[c].pinned /\ fl \in Addr /\ fl < c
      /\ Shifted(heap, fl, c, heap') /\ reloc' = Logged(reloc, c, After(heap, c), fl)
      /\ \A i \in DOMAIN reloc : reloc[i].end <= c
      /\ Table(reloc) /\ Len(reloc) < RelocMax /\ Closed(heap, root, reloc) /\ root \in [Roots -> Ref]
      /\ root' = root /\ request' = request
  BY DEF MoveDoes
<1>3. \A x \in Ref : RelocatedBy(reloc, x) \in Objects(heap) \cup {NULL} =>
         RelocatedBy(reloc', x) = IF RelocatedBy(reloc, x) = c THEN fl ELSE RelocatedBy(reloc, x)
  BY <1>2, MoveLooksUp
<1>4. /\ Objects(heap') = (Objects(heap) \ {c}) \cup {fl} /\ heap'.mem[fl] = heap.mem[c]
      /\ \A a \in Objects(heap) : a # c => heap'.mem[a] = heap.mem[a]
  BY <1>2 DEF Shifted
<1>5. /\ NULL \notin Objects(heap) /\ ReachableBlocks \subseteq Objects(heap) /\ Objects(heap) \subseteq Ref
      /\ NULL \in Ref
  <2>1. Objects(heap) \subseteq Ref /\ NULL \in Ref
    BY DEF Objects, Ref
  <2> QED BY <2>1, <1>1, ReachableIs
<1>6. \A a \in Objects(heap) \cup {NULL} : to[a] = IF a = c THEN fl ELSE a
  BY <1>5
<1> HIDE DEF to
<1>7. \A x \in Ref : RelocatedBy(reloc, x) \in Objects(heap) \cup {NULL} =>
         RelocatedBy(reloc', x) = to[RelocatedBy(reloc, x)]
  BY <1>3, <1>6
<1>8. to[NULL] = NULL
  BY <1>2, <1>5, <1>6
<1>9. ASSUME NEW b \in Objects(heap')
      PROVE  \E a \in Objects(heap) : /\ b = to[a] /\ heap'.mem[b].id = heap.mem[a].id
                                      /\ heap.mem[a].pinned => b = a
  <2>1. CASE b = fl
    BY <2>1, <1>2, <1>4, <1>6
  <2>2. CASE b # fl
    <3>1. b \in Objects(heap) /\ b # c
      BY <2>2, <1>4
    <3>2. b = to[b] /\ heap'.mem[b].id = heap.mem[b].id
      BY <3>1, <1>4, <1>6
    <3> QED BY <3>1, <3>2
  <2> QED BY <2>1, <2>2
<1>10. ASSUME NEW a \in ReachableBlocks
       PROVE  /\ to[a] \in Objects(heap')
              /\ heap'.mem[to[a]].id = heap.mem[a].id /\ heap'.mem[to[a]].len = heap.mem[a].len
              /\ RelocatedBy(reloc', heap'.mem[to[a]].ref) = to[RelocatedBy(reloc, heap.mem[a].ref)]
  <2>1. a \in Objects(heap)
    BY <1>5
  <2>2. to[a] \in Objects(heap') /\ heap'.mem[to[a]] = heap.mem[a]
    BY <2>1, <1>4, <1>6
  <2>3. heap.mem[a].ref \in Ref
    <3>1. heap.mem[a] \in Block
      BY <2>1, <1>2, HeapFields DEF Sound, Objects
    <3> QED BY <3>1, BlockFields
  <2>4. RelocatedBy(reloc, heap.mem[a].ref) \in Objects(heap) \cup {NULL}
    BY <2>1, <1>2 DEF Closed
  <2> QED BY <2>2, <2>3, <2>4, <1>7
<1>11. \A r \in Roots : RelocatedBy(reloc', root'[r]) = to[RelocatedBy(reloc, root[r])]
  <2>1. \A r \in Roots : root[r] \in Ref /\ RelocatedBy(reloc, root[r]) \in Objects(heap) \cup {NULL}
    BY <1>2 DEF Closed
  <2> QED BY <2>1, <1>2, <1>7
<1>12. MovesObjects(to)
  BY <1>2, <1>8, <1>9, <1>10, <1>11 DEF MovesObjects
<1> QED BY <1>12, MovesUnseen

\* Heap g has objects of the heap only, all that the program can reach among them.
KeptIn(g) ==
    /\ Objects(g) \subseteq Objects(heap) /\ \A a \in Objects(g) : g.mem[a] = heap.mem[a]
    /\ ReachableBlocks \subseteq Objects(g)

LEMMA KeptUnseen ==
    ASSUME GraphInv, GcInv', reloc' = reloc, root' = root, KeptIn(heap'),
           request' \in Requests => request' = request \/ Unused(request'.id)
    PROVE  Unseen
<1>1. StaysPut
  BY DEF StaysPut, KeptIn
<1> QED BY <1>1, StaysUnseen

\* A collection keeps what the program can reach, also after an attempt to allocate that
\* changed the hint.
LEMMA SweptKeeps ==
    ASSUME GcInv, reloc = << >>, NEW h, Usable(h, root), Objects(h) = Objects(heap), h.mem = heap.mem,
           NEW g, g = Swept(h)
    PROVE  KeptIn(g)
<1>1. SweptTo(h, Objects(g), g) /\ HoldsReachable(h, {root[r] : r \in Roots}, Objects(g))
  BY SweptIs
<1>2. /\ Objects(g) \subseteq Objects(heap) /\ \A a \in Objects(g) : g.mem[a] = heap.mem[a]
      /\ \A r \in Roots : root[r] \in Objects(g) \cup {NULL}
      /\ \A a \in Objects(g) : heap.mem[a].ref \in Objects(g) \cup {NULL}
  BY <1>1 DEF SweptTo, HoldsReachable
<1>3. \A a : RelocatedBy(reloc, a) = a
  BY EmptyTable
<1>4. ReachableBlocks \subseteq Objects(g)
  <2>1. \A r \in Roots : RelocatedBy(reloc, root[r]) \in Objects(g) \cup {NULL}
    BY <1>2, <1>3
  <2>2. \A a \in Objects(g) : RelocatedBy(reloc, heap.mem[a].ref) \in Objects(g) \cup {NULL}
    BY <1>2, <1>3
  <2> QED BY <2>1, <2>2, <1>2, ReachableIs
<1> QED BY <1>2, <1>4 DEF KeptIn

LEMMA CollectUnseen ==
    ASSUME GraphInv, GcInv', Collect \/ CollectAndCompact
    PROVE  Unseen
<1>1. /\ GcInv /\ pc = "run" /\ root' = root /\ request' = request /\ heap' = Swept(heap)
      /\ reloc' = reloc \/ reloc' = << >>
  BY DEF Collect, CollectAndCompact, Running, GraphInv, StartCompaction
<1>2. Usable(heap, root) /\ reloc = << >>
  BY <1>1, RunsUsable
<1>3. KeptIn(heap')
  BY <1>1, <1>2, SweptKeeps
<1> QED BY <1>1, <1>2, <1>3, KeptUnseen

\* So does the collection after an attempt to allocate.
LEMMA TriedKeeps ==
    ASSUME GcInv, reloc = << >>, Usable(heap, root), NEW len \in Lengths, NEW id, Place(heap, len) = NULL,
           NEW h, h = HeapAlloc(heap, len, id)
    PROVE  Usable(h, root) /\ KeptIn(Swept(h)) /\ Usable(Swept(h), root)
<1>1. Usable(h, root) /\ Rehinted(heap, h)
  BY TriedUsable
<1>2. Objects(h) = Objects(heap) /\ h.mem = heap.mem
  BY <1>1, RehintedSettles DEF Rehinted, Usable, Rested
<1> QED BY <1>1, <1>2, SweptKeeps, SweptUsable

LEMMA NoRequestIs == NoRequest \notin Requests
<1> SUFFICES ASSUME NoRequest \in Requests PROVE FALSE
  OBVIOUS
<1>1. NoRequest.len \in Lengths
  BY DEF Requests
<1> QED BY <1>1, GcHeapAssumption DEF NoRequest

LEMMA AllocFailsUnseen ==
    ASSUME GraphInv, GcInv', AllocFails
    PROVE  Unseen
<1>1. /\ GcInv /\ pc = "retry" /\ Place(heap, request.len) = NULL /\ root' = root /\ reloc' = reloc
      /\ heap' = HeapAlloc(heap, request.len, request.id) /\ request' = NoRequest
  BY DEF GraphInv, AllocFails
<1>2. Usable(heap, root) /\ request \in Requests
  BY <1>1, RunsUsable
<1>3. Rehinted(heap, heap') /\ Sound(heap)
  <2>1. request.len \in Lengths
    BY <1>2 DEF Requests
  <2> QED BY <2>1, <1>1, <1>2, TriedUsable DEF Usable, Rested
<1>4. Objects(heap') = Objects(heap) /\ heap'.mem = heap.mem
  BY <1>3, RehintedSettles DEF Rehinted
<1>5. request' \notin Requests
  BY <1>1, NoRequestIs
<1> QED BY <1>1, <1>4, <1>5, LeftUnseen

LEMMA NeedsCompactionUnseen ==
    ASSUME GraphInv, GcInv', NEW r \in Roots, NEW len \in Lengths, NEW id \in Ids,
           AllocNeedsCompaction(r, len, id)
    PROVE  Unseen
<1> DEFINE tried == HeapAlloc(heap, len, id)
           swept == Swept(tried)
<1>1. /\ GcInv /\ pc = "run" /\ Unused(id) /\ Place(heap, len) = NULL /\ Place(swept, len) = NULL
      /\ request' = [root |-> r, len |-> len, id |-> id]
      /\ heap' = HeapAlloc(swept, len, id) /\ reloc' = << >> /\ root' = root
  BY DEF AllocNeedsCompaction, StartCompaction, GraphInv
<1>2. Usable(heap, root) /\ reloc = << >>
  BY <1>1, RunsUsable
<1>3. Usable(tried, root) /\ KeptIn(swept) /\ Usable(swept, root)
  BY <1>1, <1>2, TriedKeeps
<1> HIDE DEF swept, tried
<1>4. Rehinted(swept, heap') /\ Sound(swept)
  BY <1>1, <1>3, TriedUsable DEF Usable, Rested
<1>5. Objects(heap') = Objects(swept) /\ heap'.mem = swept.mem
  BY <1>4, RehintedSettles DEF Rehinted
<1>6. KeptIn(heap')
  BY <1>3, <1>5 DEF KeptIn
<1>7. request'.id = id
  BY <1>1
<1> QED BY <1>1, <1>2, <1>6, <1>7, KeptUnseen

-----------------------------------------------------------------------------
(* Steps of the program *)

\* Pinning an object changes nothing else of it.
LEMMA PinUnseen ==
    ASSUME GraphInv, GcInv', NEW r \in Roots, NEW pinned \in BOOLEAN, SetPinned(r, pinned)
    PROVE  Unseen
<1> DEFINE a == root[r]
           old == heap.mem[a]
           b == [old EXCEPT !.pinned = pinned]
           m == [heap.mem EXCEPT ![a] = b]
<1>1. /\ GcInv /\ pc = "run" /\ UNCHANGED <<pc, request, comp, reloc, root>> /\ a # NULL
      /\ heap' = [heap EXCEPT !.mem[a].pinned = pinned]
  BY DEF SetPinned, Running, Held, GraphInv
<1>2. /\ a \in Objects(heap) /\ a \in Addr /\ old \in Block /\ heap \in Heaps /\ heap.mem \in [Addr -> Block]
  BY <1>1, FieldIs
<1>3. heap'.mem = m /\ heap'.top = heap.top
  <2>1. [heap.mem EXCEPT ![a].pinned = pinned] = m
    OBVIOUS
  <2> HIDE DEF m
  <2> QED BY <2>1, <1>1, <1>2 DEF Heaps
<1> HIDE DEF a, old
<1>4. b.kind = old.kind /\ b.len = old.len /\ b.id = old.id /\ b.ref = old.ref
  BY <1>2 DEF Block
<1> HIDE DEF b
<1>5. \A x \in Addr : /\ heap'.mem[x].kind = heap.mem[x].kind /\ heap'.mem[x].len = heap.mem[x].len
                      /\ heap'.mem[x].id = heap.mem[x].id /\ heap'.mem[x].ref = heap.mem[x].ref
  BY <1>2, <1>3, <1>4 DEF old
<1>6. Objects(heap') = Objects(heap) /\ Objects(heap) \subseteq Addr
  BY <1>3, <1>5 DEF Objects, InUse, IsObject
<1>7. ReachableBlocks \subseteq Objects(heap)
  BY <1>1, ReachableIs
<1>8. StaysPut
  BY <1>1, <1>5, <1>6, <1>7 DEF StaysPut
<1> QED BY <1>8, StaysUnseen

\* What the program sees while it runs.
LEMMA SeenIdle ==
    ASSUME GraphInv, reloc = << >>
    PROVE  /\ ReachableBlocks \subseteq Objects(heap) /\ NULL \notin Objects(heap)
           /\ \A a \in ReachableBlocks : heap.mem[a].ref \in ReachableBlocks \cup {NULL}
           /\ \A q \in Roots : root[q] \in ReachableBlocks \cup {NULL}
           /\ SeenRoot = [q \in Roots |-> IdOf(heap, root[q])]
           /\ Shows(heap, ReachableBlocks, [a \in Objects(heap) |-> heap.mem[a].ref], SeenGraph)
<1>1. \A a : RelocatedBy(reloc, a) = a
  BY EmptyTable
<1>2. Sees(heap, root, reloc, ReachableBlocks, SeenRoot, SeenGraph) /\ GcInv
  BY SeenIs DEF GraphInv
<1>3. SeenRoot = [q \in Roots |-> IdOf(heap, root[q])]
  BY <1>1, <1>2 DEF Sees
<1>4. Follow(heap, reloc) = [a \in Objects(heap) |-> heap.mem[a].ref]
  BY <1>1 DEF Follow
<1>5. Shows(heap, ReachableBlocks, [a \in Objects(heap) |-> heap.mem[a].ref], SeenGraph)
  BY <1>2, <1>4 DEF Sees
<1>6. /\ ReachableBlocks \subseteq Objects(heap) /\ NULL \notin Objects(heap)
      /\ \A a \in ReachableBlocks : RelocatedBy(reloc, heap.mem[a].ref) \in ReachableBlocks \cup {NULL}
      /\ \A q \in Roots : RelocatedBy(reloc, root[q]) \in ReachableBlocks \cup {NULL}
  BY <1>2, ReachableIs
<1> QED BY <1>1, <1>3, <1>5, <1>6

\* From here on the program sees the roots r and what they reach of the graph g.
Becomes(r, g) == SeenRoot' = r /\ IsReachablePart(r, g, SeenGraph')

\* That is so when g is the graph of objects B that hold what the roots do.
LEMMA BecomesIs ==
    ASSUME (GcInv /\ Named(heap))', reloc' = << >>, NEW B \in SUBSET Objects(heap'),
           \A q \in Roots : root'[q] \in B \cup {NULL},
           \A a \in B : heap'.mem[a].ref \in B \cup {NULL},
           NEW g, Shows(heap', B, [a \in Objects(heap') |-> heap'.mem[a].ref], g),
           NEW r, r = [q \in Roots |-> IdOf(heap', root'[q])]
    PROVE  Becomes(r, g)
<1>1. \A a : RelocatedBy(reloc', a) = a
  BY EmptyTable
<1>2. Sees(heap', root', reloc', ReachableBlocks', SeenRoot', SeenGraph')
  BY SeenAfter
<1>3. SeenRoot' = r
  BY <1>1, <1>2 DEF Sees
<1>4. Follow(heap', reloc') = [a \in Objects(heap') |-> heap'.mem[a].ref]
  BY <1>1 DEF Follow
<1>5. Start(root', reloc') \subseteq B
  BY <1>1 DEF Start
<1>6. \A a \in B : Follow(heap', reloc')[a] \in B \cup {NULL}
  BY <1>4
<1>7. Named(heap')
  OBVIOUS
<1>8. Shows(heap', B, Follow(heap', reloc'), g)
  BY <1>4
<1>9. IsReachablePart(SeenRoot', g, SeenGraph')
  BY <1>2, <1>5, <1>6, <1>7, <1>8, SeesReachable
<1> QED BY <1>3, <1>9 DEF Becomes

\* The program takes a step of the graph.
Visible == GraphInv' /\ PinsStay /\ Graph!Step(SeenRoot, SeenGraph, SeenRoot', SeenGraph')

\* Pinned objects stay where objects keep their names and places, but for those with new names.
LEMMA NamesStay ==
    ASSUME Named(heap),
           \A b \in Objects(heap') : \/ b \in Objects(heap) /\ heap'.mem[b].id = heap.mem[b].id
                                     \/ \A a \in Objects(heap) : heap'.mem[b].id # heap.mem[a].id
    PROVE  PinsStay
BY DEF Named, PinsStay

LEMMA ReferencesSeen ==
    ASSUME GraphInv, GcInv', NEW r \in Roots, NEW q \in Roots, Clear(r) \/ Copy(r, q) \/ Load(r, q)
    PROVE  Visible
<1> DEFINE A == ReachableBlocks
           to == [a \in Objects(heap) |-> heap.mem[a].ref]
<1>1. GcInv /\ pc = "run" /\ UNCHANGED <<pc, request, comp, reloc, heap>>
  BY DEF Clear, Copy, Load, Running, GraphInv
<1>2. reloc = << >> /\ request = NoRequest /\ root \in [Roots -> Ref]
  BY <1>1, RunsUsable DEF Usable
<1>3. /\ A \subseteq Objects(heap) /\ NULL \notin Objects(heap)
      /\ \A a \in A : heap.mem[a].ref \in A \cup {NULL}
      /\ \A p \in Roots : root[p] \in A \cup {NULL}
      /\ SeenRoot = [p \in Roots |-> IdOf(heap, root[p])]
      /\ Shows(heap, A, to, SeenGraph)
  BY <1>2, SeenIdle
<1>4. \A a \in A : to[a] = heap.mem[a].ref
  BY <1>3
<1> HIDE DEF A, to
<1>5. \A a \in A : SeenGraph[heap.mem[a].id].ref = IdOf(heap, heap.mem[a].ref)
  <2> SUFFICES ASSUME NEW a \in A PROVE SeenGraph[heap.mem[a].id].ref = IdOf(heap, heap.mem[a].ref)
    OBVIOUS
  <2>1. SeenGraph[heap.mem[a].id] = [len |-> heap.mem[a].len, ref |-> IdOf(heap, to[a])]
    BY <1>3 DEF Shows
  <2> QED BY <2>1, <1>4
<1>6. \A a \in A : heap.mem[a].id # NoId
  BY <1>3, GcHeapAssumption DEF GraphInv, Named
<1>7. /\ (GcInv /\ Named(heap))'
      /\ GraphInv' /\ PinsStay
  BY <1>1, <1>2, NoRequestIs, NamesStay DEF GraphInv
<1>8. ASSUME NEW x \in A \cup {NULL}, root' = [root EXCEPT ![r] = x]
      PROVE  Becomes([SeenRoot EXCEPT ![r] = IdOf(heap, x)], SeenGraph)
  <2>1. \A p \in Roots : root'[p] \in A \cup {NULL}
    BY <1>2, <1>3, <1>8
  <2>2. [SeenRoot EXCEPT ![r] = IdOf(heap, x)] = [p \in Roots |-> IdOf(heap', root'[p])]
    BY <1>1, <1>2, <1>3, <1>8
  <2>3. /\ A \in SUBSET Objects(heap') /\ \A a \in A : heap'.mem[a].ref \in A \cup {NULL}
        /\ Shows(heap', A, [a \in Objects(heap') |-> heap'.mem[a].ref], SeenGraph)
    BY <1>1, <1>3 DEF to
  <2> QED BY <2>1, <2>2, <2>3, <1>1, <1>2, <1>7, BecomesIs
<1>9. CASE Clear(r)
  <2>1. Becomes([SeenRoot EXCEPT ![r] = NoId], SeenGraph)
    BY <1>8, <1>9 DEF Clear, IdOf
  <2> QED BY <2>1, <1>7 DEF Visible, Graph!Step, Becomes, IsReachablePart
<1>10. CASE Copy(r, q)
  <2>1. Becomes([SeenRoot EXCEPT ![r] = SeenRoot[q]], SeenGraph)
    BY <1>3, <1>8, <1>10 DEF Copy
  <2> QED BY <2>1, <1>7 DEF Visible, Graph!Step, Becomes, IsReachablePart
<1>11. CASE Load(r, q)
  <2>1. root[q] \in A /\ root' = [root EXCEPT ![r] = heap.mem[root[q]].ref]
    BY <1>3, <1>11 DEF Load, Held, At
  <2>2. SeenRoot[q] = heap.mem[root[q]].id /\ SeenRoot[q] # NoId
    BY <2>1, <1>3, <1>6 DEF IdOf
  <2>3. SeenGraph[SeenRoot[q]].ref = IdOf(heap, heap.mem[root[q]].ref)
    BY <2>1, <2>2, <1>5
  <2>4. Becomes([SeenRoot EXCEPT ![r] = SeenGraph[SeenRoot[q]].ref], SeenGraph)
    BY <2>1, <2>3, <1>3, <1>8
  <2> QED BY <2>2, <2>4, <1>7 DEF Visible, Graph!Step, Becomes, IsReachablePart
<1> QED BY <1>9, <1>10, <1>11

LEMMA StoreSeen ==
    ASSUME GraphInv, GcInv', NEW q \in Roots, NEW r \in Roots, Store(q, r)
    PROVE  Visible
<1> DEFINE A == ReachableBlocks
           to == [a \in Objects(heap) |-> heap.mem[a].ref]
           c == root[q]
           g == [SeenGraph EXCEPT ![SeenRoot[q]].ref = SeenRoot[r]]
<1>1. /\ GcInv /\ pc = "run" /\ UNCHANGED <<pc, request, comp, reloc, root>> /\ c # NULL
      /\ heap' = [heap EXCEPT !.mem[c].ref = root[r]]
  BY DEF Store, Running, GraphInv, Held
<1>2. reloc = << >> /\ request = NoRequest /\ root \in [Roots -> Ref] /\ HeapType(heap)
  BY <1>1, RunsUsable DEF Usable, Rested, Sound
<1>3. /\ A \subseteq Objects(heap) /\ NULL \notin Objects(heap)
      /\ \A a \in A : heap.mem[a].ref \in A \cup {NULL}
      /\ \A p \in Roots : root[p] \in A \cup {NULL}
      /\ SeenRoot = [p \in Roots |-> IdOf(heap, root[p])]
      /\ Shows(heap, A, to, SeenGraph)
  BY <1>2, SeenIdle
<1>4. \A a \in A : to[a] = heap.mem[a].ref
  BY <1>3
<1> HIDE DEF A, to, c
<1>5. c \in A /\ root[r] \in A \cup {NULL} /\ c = root[q]
  BY <1>1, <1>3 DEF c
<1>6. heap \in Heaps /\ heap.mem \in [Addr -> Block] /\ A \subseteq Addr /\ Objects(heap) \subseteq Addr
  BY <1>2, <1>3 DEF HeapType, Heaps, Objects
<1>7. /\ heap'.top = heap.top /\ heap'.mem = [heap.mem EXCEPT ![c].ref = root[r]]
  BY <1>1, <1>6 DEF Heaps
<1>8. /\ \A a \in Addr : /\ heap'.mem[a].kind = heap.mem[a].kind /\ heap'.mem[a].id = heap.mem[a].id
                         /\ heap'.mem[a].len = heap.mem[a].len
                         /\ heap'.mem[a].ref = IF a = c THEN root[r] ELSE heap.mem[a].ref
  BY <1>5, <1>6, <1>7 DEF Block
<1>9. Objects(heap') = Objects(heap)
  BY <1>7, <1>8 DEF Objects, InUse, IsObject
<1>10. Named(heap')
  BY <1>6, <1>8, <1>9 DEF GraphInv, Named
<1>11. (GcInv /\ Named(heap))' /\ GraphInv' /\ PinsStay
  <2>1. PinsStay
    BY <1>6, <1>8, <1>9, NamesStay DEF GraphInv
  <2> QED BY <2>1, <1>1, <1>2, <1>10, NoRequestIs DEF GraphInv
<1>12. \A a \in A : heap.mem[a].id # NoId /\ \A b \in A : heap.mem[a].id = heap.mem[b].id => a = b
  BY <1>3, GcHeapAssumption DEF GraphInv, Named
<1>13. SeenRoot[q] = heap.mem[c].id /\ SeenRoot[q] # NoId /\ SeenRoot[r] = IdOf(heap, root[r])
  BY <1>3, <1>5, <1>12 DEF IdOf
<1>14. \A a \in A \cup {NULL} : IdOf(heap', a) = IdOf(heap, a)
  BY <1>6, <1>8 DEF IdOf
<1>15. /\ SeenGraph = [o \in {heap.mem[a].id : a \in A} |-> SeenGraph[o]]
       /\ \A a \in A : SeenGraph[heap.mem[a].id] = [len |-> heap.mem[a].len, ref |-> IdOf(heap, heap.mem[a].ref)]
  BY <1>3, <1>4 DEF Shows
<1>16. Shows(heap', A, [a \in Objects(heap') |-> heap'.mem[a].ref], g)
  <2> DEFINE D == {heap.mem[a].id : a \in A}
  <2>1. D = {heap'.mem[a].id : a \in A}
    BY <1>6, <1>8
  <2>2. DOMAIN SeenGraph = D /\ heap.mem[c].id \in D
    BY <1>5, <1>15
  <2>3. g = [o \in D |-> IF o = heap.mem[c].id THEN [SeenGraph[o] EXCEPT !.ref = SeenRoot[r]] ELSE SeenGraph[o]]
    BY <2>2, <1>13
  <2> HIDE DEF D, g
  <2>4. g = [o \in D |-> g[o]]
    BY <2>3
  <2>5. ASSUME NEW a \in A
        PROVE  g[heap'.mem[a].id] = [len |-> heap'.mem[a].len, ref |-> IdOf(heap', heap'.mem[a].ref)]
    <3>1. heap'.mem[a].id = heap.mem[a].id /\ heap'.mem[a].len = heap.mem[a].len /\ heap.mem[a].id \in D
      BY <1>6, <1>8 DEF D
    <3>2. CASE a = c
      <4>1. g[heap.mem[a].id] = [SeenGraph[heap.mem[a].id] EXCEPT !.ref = SeenRoot[r]]
        BY <2>3, <3>1, <3>2
      <4>2. SeenGraph[heap.mem[a].id] = [len |-> heap.mem[a].len, ref |-> IdOf(heap, heap.mem[a].ref)]
        BY <1>15
      <4>3. g[heap.mem[a].id] = [len |-> heap.mem[a].len, ref |-> SeenRoot[r]]
        BY <4>1, <4>2
      <4>4. heap'.mem[a].ref = root[r] /\ IdOf(heap', root[r]) = SeenRoot[r]
        BY <3>2, <1>5, <1>6, <1>8, <1>13, <1>14
      <4> QED BY <3>1, <4>3, <4>4
    <3>3. CASE a # c
      <4>1. heap.mem[a].id # heap.mem[c].id
        BY <3>3, <1>5, <1>12
      <4>2. g[heap.mem[a].id] = SeenGraph[heap.mem[a].id]
        BY <2>3, <3>1, <4>1
      <4>3. heap'.mem[a].ref = heap.mem[a].ref /\ IdOf(heap', heap.mem[a].ref) = IdOf(heap, heap.mem[a].ref)
        BY <3>3, <1>3, <1>6, <1>8, <1>14
      <4> QED BY <3>1, <4>2, <4>3, <1>15
    <3> QED BY <3>2, <3>3
  <2>6. \A a \in A : [x \in Objects(heap') |-> heap'.mem[x].ref][a] = heap'.mem[a].ref
    BY <1>3, <1>9
  <2> QED BY <2>1, <2>4, <2>5, <2>6 DEF Shows
<1> HIDE DEF g
<1>17. SeenRoot = [p \in Roots |-> IdOf(heap', root'[p])]
  BY <1>1, <1>3, <1>14
<1>18. \A a \in A : heap'.mem[a].ref \in A \cup {NULL}
  BY <1>3, <1>5, <1>6, <1>8
<1>19. Becomes(SeenRoot, g)
  <2>1. A \in SUBSET Objects(heap') /\ \A p \in Roots : root'[p] \in A \cup {NULL}
    BY <1>1, <1>3, <1>9
  <2> QED BY <2>1, <1>1, <1>2, <1>11, <1>16, <1>17, <1>18, BecomesIs
<1> QED BY <1>11, <1>13, <1>19 DEF Visible, Graph!Step, Becomes, IsReachablePart, g

\* An object is delivered: it is new to the program.
LEMMA DeliveredSeen ==
    ASSUME GraphInv, GcInv', reloc = << >>, reloc' = << >>, request' = NoRequest,
           NEW h, Usable(h, root), KeptIn(h), NEW r \in Roots, NEW len \in Lengths, NEW id \in Ids,
           Unused(id), Place(h, len) # NULL, Deliver(h, r, len, id)
    PROVE  Visible
<1> DEFINE A == ReachableBlocks
           at == Place(h, len)
           B == A \cup {at}
           to == [a \in Objects(heap) |-> heap.mem[a].ref]
           new == [len |-> len, ref |-> NoId]
           g == [o \in DOMAIN SeenGraph \cup {id} |-> IF o = id THEN new ELSE SeenGraph[o]]
<1>1. len \in 1 .. HeapSize /\ Rested(h) /\ root \in [Roots -> Ref]
  BY GcHeapAssumption DEF Usable
<1>2. heap' = HeapAlloc(h, len, id) /\ root' = [root EXCEPT ![r] = at]
  BY DEF Deliver
<1>3. Allocated(h, heap', at, len, id)
  BY <1>1, <1>2, AllocPlaces
<1>4. /\ at \in Addr /\ at \notin Objects(h) /\ Objects(heap') = Objects(h) \cup {at}
      /\ heap'.mem[at].ref = NULL /\ heap'.mem[at].id = id /\ heap'.mem[at].len = len
      /\ \A a \in Objects(h) : heap'.mem[a] = h.mem[a]
  BY <1>1, <1>3, ObjectIs DEF Allocated
<1>5. /\ A \subseteq Objects(heap) /\ NULL \notin Objects(heap)
      /\ \A a \in A : heap.mem[a].ref \in A \cup {NULL}
      /\ \A p \in Roots : root[p] \in A \cup {NULL}
      /\ SeenRoot = [p \in Roots |-> IdOf(heap, root[p])]
      /\ Shows(heap, A, to, SeenGraph)
  BY SeenIdle
<1>6. \A a \in A : to[a] = heap.mem[a].ref
  BY <1>5
<1> HIDE DEF A, to, at
<1>7. /\ A \subseteq Objects(h) /\ Objects(h) \subseteq Objects(heap)
      /\ \A a \in Objects(h) : heap'.mem[a] = heap.mem[a]
      /\ A \subseteq Objects(heap')
  BY <1>4 DEF KeptIn, A
<1>8. at # NULL /\ at \notin A
  BY <1>4, <1>7, AddrNumbers
<1>9. \A a \in Objects(heap) : heap.mem[a].id # id
  BY DEF Unused
<1>10. Named(heap')
  <2>1. Named(heap)
    BY DEF GraphInv
  <2>2. \A a \in Objects(h) : a \in Objects(heap) /\ heap'.mem[a].id = heap.mem[a].id /\ heap.mem[a].id # id
    BY <1>7, <1>9
  <2> QED BY <2>1, <2>2, <1>4 DEF Named
<1>11. (GcInv /\ Named(heap))' /\ GraphInv' /\ PinsStay
  <2>1. PinsStay
    BY <1>4, <1>7, <1>9, NamesStay DEF GraphInv
  <2> QED BY <2>1, <1>10, NoRequestIs DEF GraphInv
<1>12. \A a \in A \cup {NULL} : IdOf(heap', a) = IdOf(heap, a)
  BY <1>7 DEF IdOf
<1>13. IdOf(heap', at) = id /\ IdOf(heap', NULL) = NoId
  BY <1>4, <1>8 DEF IdOf
<1>14. [SeenRoot EXCEPT ![r] = id] = [p \in Roots |-> IdOf(heap', root'[p])]
  BY <1>1, <1>2, <1>5, <1>12, <1>13
<1>15. /\ SeenGraph = [o \in {heap.mem[a].id : a \in A} |-> SeenGraph[o]]
       /\ \A a \in A : SeenGraph[heap.mem[a].id] = [len |-> heap.mem[a].len, ref |-> IdOf(heap, heap.mem[a].ref)]
  BY <1>5, <1>6 DEF Shows
<1>16. DOMAIN SeenGraph = {heap.mem[a].id : a \in A}
  BY <1>15
<1>17. id \notin DOMAIN SeenGraph
  BY <1>5, <1>9, <1>16
<1>18. Shows(heap', B, [a \in Objects(heap') |-> heap'.mem[a].ref], g)
  <2> DEFINE D == DOMAIN SeenGraph \cup {id}
  <2>1. D = {heap'.mem[a].id : a \in B}
    BY <1>4, <1>7, <1>16
  <2>2. g = [o \in D |-> g[o]]
    OBVIOUS
  <2>3. ASSUME NEW a \in B
        PROVE  g[heap'.mem[a].id] = [len |-> heap'.mem[a].len, ref |-> IdOf(heap', heap'.mem[a].ref)]
    <3>1. CASE a = at
      <4>1. g[id] = new
        OBVIOUS
      <4> QED BY <3>1, <4>1, <1>4, <1>13
    <3>2. CASE a \in A
      <4>1. heap'.mem[a] = heap.mem[a] /\ heap.mem[a].id \in DOMAIN SeenGraph
        BY <3>2, <1>7, <1>16
      <4>2. g[heap.mem[a].id] = SeenGraph[heap.mem[a].id]
        BY <4>1, <1>17
      <4>3. IdOf(heap', heap.mem[a].ref) = IdOf(heap, heap.mem[a].ref)
        BY <3>2, <1>5, <1>12
      <4> HIDE DEF g
      <4> QED BY <4>1, <4>2, <4>3, <3>2, <1>15
    <3> QED BY <3>1, <3>2
  <2>4. \A a \in B : [x \in Objects(heap') |-> heap'.mem[x].ref][a] = heap'.mem[a].ref
    BY <1>4, <1>7
  <2> HIDE DEF g, D, B
  <2> QED BY <2>1, <2>2, <2>3, <2>4 DEF Shows
<1> HIDE DEF g
<1>19. Becomes([SeenRoot EXCEPT ![r] = id], g)
  <2>1. /\ B \in SUBSET Objects(heap') /\ \A p \in Roots : root'[p] \in B \cup {NULL}
        /\ \A a \in B : heap'.mem[a].ref \in B \cup {NULL}
    BY <1>1, <1>2, <1>4, <1>5, <1>7
  <2> HIDE DEF B
  <2> QED BY <2>1, <1>11, <1>14, <1>18, BecomesIs
<1>20. id \in Ids \ DOMAIN SeenGraph
  BY <1>17
<1> QED BY <1>11, <1>19, <1>20 DEF Visible, Graph!Step, Becomes, IsReachablePart, g

LEMMA AllocSeen ==
    ASSUME GraphInv, GcInv', NEW r \in Roots, NEW len \in Lengths, NEW id \in Ids,
           AllocAtOnce(r, len, id) \/ AllocAfterSweep(r, len, id)
    PROVE  Visible
<1> DEFINE swept == Swept(HeapAlloc(heap, len, id))
<1>1. GcInv /\ pc = "run" /\ UNCHANGED <<pc, request, comp, reloc>> /\ Unused(id)
  BY DEF AllocAtOnce, AllocAfterSweep, Running, GraphInv
<1>2. Usable(heap, root) /\ reloc = << >> /\ request = NoRequest
  BY <1>1, RunsUsable
<1>3. CASE AllocAtOnce(r, len, id)
  <2>1. Place(heap, len) # NULL /\ Deliver(heap, r, len, id)
    BY <1>3 DEF AllocAtOnce
  <2>2. KeptIn(heap)
    BY <1>1, ReachableIs DEF KeptIn
  <2> QED BY <2>1, <2>2, <1>1, <1>2, DeliveredSeen
<1>4. CASE AllocAfterSweep(r, len, id)
  <2>1. Place(heap, len) = NULL /\ Place(swept, len) # NULL /\ Deliver(swept, r, len, id)
    BY <1>4 DEF AllocAfterSweep
  <2>2. KeptIn(swept) /\ Usable(swept, root)
    BY <2>1, <1>1, <1>2, TriedKeeps
  <2> HIDE DEF swept
  <2> QED BY <2>1, <2>2, <1>1, <1>2, DeliveredSeen
<1> QED BY <1>3, <1>4

LEMMA RetrySeen ==
    ASSUME GraphInv, GcInv', AllocAfterCompaction
    PROVE  Visible
<1>1. /\ GcInv /\ pc = "retry" /\ request' = NoRequest /\ reloc' = reloc
      /\ Place(heap, request.len) # NULL /\ Deliver(heap, request.root, request.len, request.id)
  BY DEF AllocAfterCompaction, GraphInv
<1>2. Usable(heap, root) /\ reloc = << >> /\ request \in Requests
  BY <1>1, RunsUsable
<1>3. request.root \in Roots /\ request.len \in Lengths /\ request.id \in Ids /\ Unused(request.id)
  BY <1>2 DEF Requests, GraphInv
<1>4. KeptIn(heap)
  BY <1>1, ReachableIs DEF KeptIn
<1> QED BY <1>1, <1>2, <1>3, <1>4, DeliveredSeen

-----------------------------------------------------------------------------
(* The refinement of ObjectGraph *)

LEMMA GraphInvInit == Init => GraphInv /\ Graph!Init
<1> SUFFICES ASSUME Init PROVE GraphInv /\ Graph!Init
  OBVIOUS
<1>1. GcInv /\ root = [r \in Roots |-> NULL] /\ reloc = << >> /\ request = NoRequest /\ heap = EmptyHeap
  BY GcInvInit DEF Init, BareInv
<1>2. Objects(heap) = {}
  <2>1. heap.top = 0
    BY <1>1 DEF EmptyHeap
  <2>2. \A a \in Addr : ~(a < 0)
    BY AddrNumbers
  <2> QED BY <2>1, <2>2 DEF Objects, InUse
<1>3. GraphInv
  BY <1>1, <1>2, NoRequestIs DEF GraphInv, Named
<1>4. ReachableBlocks = {}
  BY <1>1, <1>2, ReachableIs
<1>5. SeenRoot = [r \in Roots |-> NoId]
  BY <1>1 DEF SeenRoot, IdAt
<1>6. SeenGraph = << >>
  <2>1. SeenGraph = [o \in {} |-> [len |-> BlockOf(o).len, ref |-> IdAt(BlockOf(o).ref)]]
    BY <1>4 DEF SeenGraph
  <2> QED BY <2>1
<1>7. Graph!Init
  BY <1>5, <1>6 DEF Graph!Init, SeenRoot, SeenGraph
<1> QED BY <1>3, <1>7

\* Until a compaction cuts off an object, every step of the memory manager is unseen, or a step
\* of the program on the graph.
LEMMA StepIs ==
    ASSUME GraphInv, GcInv', [AllCounted /\ Next]_vars
    PROVE  Unseen \/ Visible
<1>1. CASE UNCHANGED vars
  BY <1>1, LeftUnseen DEF vars
<1>2. ASSUME NEW r \in Roots, NEW q \in Roots, Clear(r) \/ Copy(r, q) \/ Load(r, q) \/ Store(q, r)
      PROVE  Visible
  BY <1>2, ReferencesSeen, StoreSeen
<1>3. ASSUME NEW r \in Roots, Clear(r) PROVE Visible
  BY <1>3, ReferencesSeen
<1>4. ASSUME NEW r \in Roots, NEW pinned \in BOOLEAN, SetPinned(r, pinned) PROVE Unseen
  BY <1>4, PinUnseen
<1>5. ASSUME NEW r \in Roots, NEW len \in Lengths, NEW id \in Ids,
             AllocAtOnce(r, len, id) \/ AllocAfterSweep(r, len, id) \/ AllocNeedsCompaction(r, len, id)
      PROVE  Unseen \/ Visible
  BY <1>5, AllocSeen, NeedsCompactionUnseen
<1>6. CASE Mutator
  BY <1>2, <1>3, <1>4, <1>5, <1>6 DEF Mutator
<1>7. CASE Collect \/ CollectAndCompact
  BY <1>7, CollectUnseen
<1>8. CASE AllCounted /\ Collector
  <2>1. CASE FlushRelocations
    BY <2>1, FlushUnseen
  <2>2. CASE KeepInPlace \/ PassFree \/ LeaveBehind
    BY <2>2, LoopUnseen
  <2>3. CASE Slide \/ Jump
    <3>1. GcInv
      BY DEF GraphInv
    <3>2. MoveDoes(current, Target)
      BY <2>3, <3>1, SlideIs, JumpIs
    <3> QED BY <3>2, MoveUnseen
  <2>4. CASE FinishCompaction
    BY <2>4, <1>8, FinishUnseen
  <2>5. CASE AllocAfterCompaction
    BY <2>5, RetrySeen
  <2>6. CASE AllocFails
    BY <2>6, AllocFailsUnseen
  <2> QED BY <1>8, <2>1, <2>2, <2>3, <2>4, <2>5, <2>6 DEF Collector
<1> QED BY <1>1, <1>6, <1>7, <1>8 DEF Next

LEMMA GraphInvStep ==
    ASSUME GraphInv, [AllCounted /\ Next]_vars
    PROVE  GraphInv' /\ PinsStay /\ [Graph!Next]_(Graph!vars)
<1>1. GcInv'
  BY GcInvStep DEF GraphInv
<1>2. CASE Unseen
  BY <1>2 DEF Unseen, Graph!vars, SeenRoot, SeenGraph
<1>3. CASE Visible
  BY <1>3 DEF Visible, Graph!Next, SeenRoot, SeenGraph
<1> QED BY <1>1, <1>2, <1>3, StepIs

LEMMA GraphInvAlways == UnbrokenSpec => []GraphInv
<1>1. Init => GraphInv
  BY GraphInvInit
<1>2. GraphInv /\ [AllCounted /\ Next]_vars => GraphInv'
  BY GraphInvStep
<1> QED BY <1>1, <1>2, PTL DEF UnbrokenSpec

\* Whatever the sizes of the heap, of the objects and of the relocation table, and whatever is
\* pinned, the memory manager keeps the graph of objects the program sees until a compaction
\* cuts off an object it left behind: allocation adds an object to the graph, and sweeping,
\* sliding, jumping, relocation, pinning and failed allocations do not change it.
THEOREM GcKeepsTheGraphUnbroken == UnbrokenSpec => ProgramSeesOneGraph
<1>1. Init => GraphInv /\ Graph!Init
  BY GraphInvInit
<1>2. GraphInv /\ [AllCounted /\ Next]_vars => GraphInv' /\ [Graph!Next]_(Graph!vars)
  BY GraphInvStep
<1> QED BY <1>1, <1>2, PTL DEF UnbrokenSpec, Graph!Spec, ProgramSeesOneGraph

\* Where nothing is pinned the memory manager keeps the graph for ever.
THEOREM GcKeepsTheGraph ==
    ASSUME PinIds = {}
    PROVE  Spec => ProgramSeesOneGraph
BY GcKeepsTheGraphUnbroken, GcNeverBreaks, PTL

\* The program has not lost an object as long as the invariant holds: after a move the table
\* leads every reference to the place its object was moved to, and after a flush the references do.
LEMMA GraphIsWhole ==
    ASSUME GraphInv
    PROVE  NothingLost
<1>1. GcInv /\ Named(heap)
  BY DEF GraphInv
<1>2. ASSUME NEW x \in Ref, RelocatedBy(reloc, x) \in Objects(heap) \cup {NULL} PROVE IdAt(x) # Lost
  <2>1. IdAt(x) = IdOf(heap, RelocatedBy(reloc, x))
    BY <1>1, <1>2, IdAtIs
  <2>2. IdOf(heap, RelocatedBy(reloc, x)) \in Ids \cup {NoId}
    BY <1>1, <1>2 DEF IdOf, Named
  <2>3. Lost \notin Ids \cup {NoId}
    BY GcHeapAssumption DEF Lost, NoId
  <2> QED BY <2>1, <2>2, <2>3
<1>3. root \in [Roots -> Ref] /\ \A a \in Addr : heap.mem[a].ref \in Ref
  BY <1>1, HeapFields, BlockFields DEF GcInv, Sound
<1>4. /\ \A r \in Roots : RelocatedBy(reloc, root[r]) \in ReachableBlocks \cup {NULL}
      /\ \A a \in ReachableBlocks : RelocatedBy(reloc, heap.mem[a].ref) \in ReachableBlocks \cup {NULL}
      /\ ReachableBlocks \subseteq Objects(heap) /\ ReachableBlocks \subseteq Addr
  BY <1>1, ReachableIs DEF Objects
<1>5. \A r \in Roots : IdAt(root[r]) # Lost
  BY <1>2, <1>3, <1>4
<1>6. \A a \in ReachableBlocks : IdAt(heap.mem[a].ref) # Lost
  BY <1>2, <1>3, <1>4
<1> QED BY <1>5, <1>6 DEF NothingLost

\* The compactor loses no object, where nothing is pinned.
THEOREM GcLosesNothing ==
    ASSUME PinIds = {}
    PROVE  Spec => []NothingLost
BY GraphIsWhole, GraphInvAlways, GcNeverBreaks, PTL

\* A pinned object that the program holds is where it was after every step, until a compaction
\* cuts off an object it left behind.
THEOREM GcPinnedStays == UnbrokenSpec => PinnedStays
<1>1. ASSUME GraphInv, [AllCounted /\ Next]_vars
      PROVE  [\A a \in ReachableBlocks : heap.mem[a].pinned =>
                 \A b \in ReachableBlocks' : heap'.mem[b].id = heap.mem[a].id => b = a]_vars
  <2>1. PinsStay /\ GraphInv'
    BY <1>1, GraphInvStep
  <2>2. ReachableBlocks \subseteq Objects(heap) /\ ReachableBlocks' \subseteq Objects(heap')
    BY <1>1, <2>1, ReachableAreObjects, ReachableAfter DEF GraphInv
  <2> QED BY <2>1, <2>2 DEF PinsStay
<1> QED BY <1>1, GraphInvAlways, PTL DEF UnbrokenSpec, PinnedStays

-----------------------------------------------------------------------------
(* The step that loses an object *)

\* The executions up to the first step that loses the program an object, that step included.
WholeSpec == Init /\ [][NothingLost /\ Next]_vars

\* A compaction begins after a sweep: what it finds is what the program can reach.
AllReached == pc = "compact" => Objects(heap) \subseteq ReachableBlocks

\* The last object counted is no lower than any pinned one below the slot reached.
PinsCounted ==
    pc = "compact" => \A a \in Objects(heap) : a < current /\ heap.mem[a].pinned => a <= comp.alive_last

WholeInv == GraphInv /\ AllReached /\ PinsCounted

\* A collection leaves nothing that the program cannot reach.
LEMMA SweptReached ==
    ASSUME GcInv, reloc = << >>, NEW h, Usable(h, root), Objects(h) = Objects(heap), h.mem = heap.mem
    PROVE  Objects(Swept(h)) \subseteq ReachableBlocks
<1> DEFINE roots == {root[r] : r \in Roots}
<1>1. \A A : HoldsReachable(h, roots, A) => Objects(Swept(h)) \subseteq A
  BY SweptIs
<1>2. \A a : RelocatedBy(reloc, a) = a
  BY EmptyTable
<1>3. /\ ReachableBlocks \subseteq Objects(h)
      /\ \A a \in ReachableBlocks : h.mem[a].ref \in ReachableBlocks \cup {NULL}
      /\ \A r \in Roots : root[r] \in ReachableBlocks \cup {NULL}
  BY <1>2, ReachableIs
<1>4. HoldsReachable(h, roots, ReachableBlocks)
  BY <1>3 DEF HoldsReachable
<1> QED BY <1>1, <1>4

\* After a step that the program does not see it can reach all objects, if none is left that it
\* could not reach before.
LEMMA ReachedStays ==
    ASSUME GraphInv, Unseen,
           \A b \in Objects(heap') : \E a \in ReachableBlocks : heap'.mem[b].id = heap.mem[a].id
    PROVE  AllReached'
<1>1. SeenGraph' = SeenGraph /\ Named(heap') /\ GcInv'
  BY DEF Unseen, GraphInv
<1>2. DOMAIN SeenGraph = {heap.mem[a].id : a \in ReachableBlocks}
  BY DEF SeenGraph
<1>3. DOMAIN SeenGraph' = {heap'.mem[a].id : a \in ReachableBlocks'}
  BY DEF SeenGraph
<1>4. ReachableBlocks' \subseteq Objects(heap')
  BY <1>1, ReachableAfter
<1>5. ASSUME NEW b \in Objects(heap') PROVE b \in ReachableBlocks'
  <2>1. heap'.mem[b].id \in DOMAIN SeenGraph
    BY <1>2
  <2>2. PICK c \in ReachableBlocks' : heap'.mem[c].id = heap'.mem[b].id
    BY <2>1, <1>1, <1>3
  <2> QED BY <2>2, <1>1, <1>4 DEF Named
<1> QED BY <1>5 DEF AllReached

\* What a compaction begins with.
LEMMA StartReached ==
    ASSUME GraphInv, GcInv', NEW h, KeptIn(h), Objects(h) \subseteq ReachableBlocks, Unseen,
           Objects(heap') = Objects(h), heap'.mem = h.mem, comp' = Idle
    PROVE  AllReached' /\ PinsCounted'
<1>1. \A b \in Objects(heap') : b \in ReachableBlocks /\ heap'.mem[b].id = heap.mem[b].id
  BY DEF KeptIn
<1>2. AllReached'
  BY <1>1, ReachedStays
<1>3. \A b \in Objects(heap') : ~(b < current')
  <2>1. current' = 0
    BY IdleIs DEF current
  <2> QED BY <2>1, AddrNumbers DEF Objects
<1> QED BY <1>2, <1>3 DEF PinsCounted

LEMMA StartWhole ==
    ASSUME GraphInv, GcInv',
           \/ CollectAndCompact
           \/ \E r \in Roots, len \in Lengths, id \in Ids : AllocNeedsCompaction(r, len, id)
    PROVE  AllReached' /\ PinsCounted'
<1>1. GcInv
  BY DEF GraphInv
<1>2. CASE CollectAndCompact
  <2>1. pc = "run" /\ heap' = Swept(heap) /\ comp' = Idle
    BY <1>2 DEF CollectAndCompact, StartCompaction
  <2>2. Usable(heap, root) /\ reloc = << >>
    BY <2>1, <1>1, RunsUsable
  <2>3. KeptIn(heap') /\ Objects(heap') \subseteq ReachableBlocks
    BY <2>1, <2>2, <1>1, SweptKeeps, SweptReached
  <2>4. Unseen
    BY <1>2, CollectUnseen
  <2> QED BY <2>1, <2>3, <2>4, StartReached
<1>3. ASSUME NEW r \in Roots, NEW len \in Lengths, NEW id \in Ids, AllocNeedsCompaction(r, len, id)
      PROVE  AllReached' /\ PinsCounted'
  <2> DEFINE tried == HeapAlloc(heap, len, id)
             swept == Swept(tried)
  <2>1. /\ pc = "run" /\ Place(heap, len) = NULL /\ Place(swept, len) = NULL
        /\ heap' = HeapAlloc(swept, len, id) /\ comp' = Idle
    BY <1>3 DEF AllocNeedsCompaction, StartCompaction
  <2>2. Usable(heap, root) /\ reloc = << >>
    BY <2>1, <1>1, RunsUsable
  <2>3. Usable(tried, root) /\ KeptIn(swept) /\ Usable(swept, root)
    BY <2>1, <2>2, <1>1, TriedKeeps
  <2>4. Rehinted(heap, tried)
    BY <2>1, <2>2, TriedUsable
  <2>5. Objects(tried) = Objects(heap) /\ tried.mem = heap.mem
    BY <2>2, <2>4, RehintedSettles DEF Rehinted, Usable, Rested
  <2>6. Objects(swept) \subseteq ReachableBlocks
    BY <2>2, <2>3, <2>5, <1>1, SweptReached
  <2> HIDE DEF swept, tried
  <2>7. Rehinted(swept, heap') /\ Sound(swept)
    BY <2>1, <2>3, TriedUsable DEF Usable, Rested
  <2>8. Objects(heap') = Objects(swept) /\ heap'.mem = swept.mem
    BY <2>7, RehintedSettles DEF Rehinted
  <2>9. Unseen
    BY <1>3, NeedsCompactionUnseen
  <2> QED BY <2>1, <2>3, <2>6, <2>8, <2>9, StartReached
<1> QED BY <1>2, <1>3

\* The steps of the compactor make no object and pin none.
LEMMA LoopKeepsNames ==
    ASSUME GraphInv, GcInv',
           FlushRelocations \/ KeepInPlace \/ PassFree \/ Slide \/ Jump \/ LeaveBehind
    PROVE  /\ Unseen
           /\ \A b \in Objects(heap') : \E a \in Objects(heap) :
                 /\ heap'.mem[b].id = heap.mem[a].id
                 /\ heap'.mem[b].pinned => a = b /\ heap.mem[a].pinned
<1>1. GcInv
  BY DEF GraphInv
<1>2. CASE FlushRelocations
  <2>1. heap' = RelocatedHeap(heap) /\ Sound(heap) /\ Closed(heap, root, reloc)
    BY <1>1, <1>2 DEF FlushRelocations, GcInv
  <2>2. IsRelocated(heap, reloc, heap')
    BY <2>1, RelocatedHeapIs DEF Closed
  <2>3. /\ Objects(heap') = Objects(heap)
        /\ \A a \in Objects(heap) : heap'.mem[a].id = heap.mem[a].id /\ heap'.mem[a].pinned = heap.mem[a].pinned
    BY <2>2 DEF IsRelocated, SameHeap
  <2> QED BY <2>3, <1>2, FlushUnseen
<1>3. CASE KeepInPlace \/ PassFree \/ LeaveBehind
  <2>1. Objects(heap') = Objects(heap) /\ \A a \in Objects(heap) : heap'.mem[a] = heap.mem[a]
    <3>1. CASE KeepInPlace \/ LeaveBehind
      BY <3>1 DEF KeepInPlace, LeaveBehind
    <3>2. CASE PassFree
      BY <3>2, <1>1, PassIs
    <3> QED BY <3>1, <3>2, <1>3
  <2> QED BY <2>1, <1>3, LoopUnseen
<1>4. CASE Slide \/ Jump
  <2>1. PICK c, to : MoveDoes(c, to)
    BY <1>1, <1>4, SlideIs, JumpIs
  <2>2. c \in Objects(heap) /\ ~heap.mem[c].pinned /\ Shifted(heap, to, c, heap')
    BY <2>1 DEF MoveDoes
  <2>3. /\ Objects(heap') = (Objects(heap) \ {c}) \cup {to} /\ heap'.mem[to] = heap.mem[c]
        /\ \A a \in Objects(heap) : a # c => heap'.mem[a] = heap.mem[a]
    BY <2>2 DEF Shifted
  <2>4. ASSUME NEW b \in Objects(heap')
        PROVE  \E a \in Objects(heap) : /\ heap'.mem[b].id = heap.mem[a].id
                                        /\ heap'.mem[b].pinned => a = b /\ heap.mem[a].pinned
    <3>1. CASE b = to
      BY <3>1, <2>2, <2>3
    <3>2. CASE b # to
      <4>1. b \in Objects(heap) /\ heap'.mem[b] = heap.mem[b]
        BY <3>2, <2>3
      <4> QED BY <4>1
    <3> QED BY <3>1, <3>2
  <2> QED BY <2>1, <2>4, MoveUnseen
<1> QED BY <1>2, <1>3, <1>4

\* An iteration counts the pinned object it passes, and takes none back.
LEMMA PinsStayCounted ==
    ASSUME GcInv, PinsCounted, KeepInPlace \/ PassFree \/ Slide \/ Jump \/ LeaveBehind
    PROVE  /\ comp'.current <= next /\ comp'.current \in Int
           /\ \A a \in Objects(heap) : a < next /\ heap.mem[a].pinned => a <= comp'.alive_last
<1> DEFINE al == comp.alive_last
           c == comp.current
<1>1. pc = "compact" /\ current < heap.top
  BY DEF KeepInPlace, PassFree, Slide, Jump, LeaveBehind, Looping
<1>2. /\ AtBlock(heap, comp) /\ next = After(heap, c) /\ comp \in Comps
      /\ \A x \in Objects(heap) : x \in Bounds(heap) /\ x \in Int
  BY <1>1, LoopAt DEF current
<1>3. /\ c \in Int /\ next \in Int /\ c < next /\ al \in Int
      /\ \A x \in Objects(heap) : x < next => x <= c
  <2>1. al \in Ref
    BY <1>2 DEF Comps
  <2> QED BY <2>1, <1>2, AddrNumbers DEF AtBlock
<1>4. \A a \in Objects(heap) : a < c /\ heap.mem[a].pinned => a <= al
  BY <1>1 DEF PinsCounted, current
<1> HIDE DEF al, c
<1>5. CASE KeepInPlace
  <2>1. comp'.current = next /\ comp'.alive_last = c
    BY <1>2, <1>5 DEF KeepInPlace, Comps, current, c
  <2> QED BY <2>1, <1>3
\* The others pass no pinned object.
<1>6. ASSUME ~(current \in Objects(heap) /\ heap.mem[current].pinned),
             comp'.current \in Int, comp'.current <= next,
             comp'.alive_last \in Int, al <= comp'.alive_last
      PROVE  /\ comp'.current <= next /\ comp'.current \in Int
             /\ \A a \in Objects(heap) : a < next /\ heap.mem[a].pinned => a <= comp'.alive_last
  <2>1. ASSUME NEW a \in Objects(heap), a < next, heap.mem[a].pinned PROVE a <= comp'.alive_last
    <3>1. a <= c /\ a # c /\ a \in Int
      BY <2>1, <1>2, <1>3, <1>6 DEF current, c
    <3>2. a <= al
      BY <3>1, <2>1, <1>3, <1>4
    <3> QED BY <3>1, <3>2, <1>3, <1>6
  <2> QED BY <2>1, <1>6
<1>7. CASE PassFree \/ LeaveBehind
  <2>1. comp'.current = next /\ comp'.alive_last = al
    BY <1>2, <1>7 DEF PassFree, LeaveBehind, Comps, al
  <2>2. ~(current \in Objects(heap) /\ heap.mem[current].pinned)
    BY <1>7 DEF PassFree, LeaveBehind, MoveFound, Movable, IsFree, Objects, InUse, IsObject
  <2> QED BY <2>1, <2>2, <1>3, <1>6
<1>8. CASE Slide \/ Jump
  <2> DEFINE to == Target
  <2>1. FoundAt(to)
    BY <1>8, SlideIs, JumpIs
  <2>2. to \in Int /\ to < c /\ ~heap.mem[current].pinned
    <3>1. to \in Int
      BY <2>1, <1>1, LoopAt DEF FoundAt
    <3> QED BY <3>1, <2>1 DEF FoundAt, current, c
  <2>3. comp'.alive_last = Larger(al, to) /\ (comp'.current = to + Size(current) \/ comp'.current \in {c, next})
    <3>1. CASE Slide
      BY <3>1 DEF Slide, al
    <3>2. CASE Jump
      BY <3>2 DEF Jump, al, c, current
    <3> QED BY <3>1, <3>2, <1>8
  <2>4. comp'.alive_last \in Int /\ al <= comp'.alive_last
    BY <2>2, <2>3, <1>3 DEF Larger
  <2>5. next = c + Size(current) /\ Size(current) \in Int
    <3>1. next = c + Size(current)
      BY DEF next, current, c
    <3>2. Size(current) \in Int
      BY <1>1, LoopAt, HeapFields, BlockFields DEF AtBlock, Size, current
    <3> QED BY <3>1, <3>2
  <2> HIDE DEF to
  <2>6. comp'.current \in Int /\ comp'.current <= next
    BY <2>2, <2>3, <2>5, <1>3
  <2> QED BY <2>2, <2>4, <2>6, <1>6
<1> QED BY <1>5, <1>7, <1>8

LEMMA LoopWhole ==
    ASSUME WholeInv, GcInv',
           FlushRelocations \/ KeepInPlace \/ PassFree \/ Slide \/ Jump \/ LeaveBehind
    PROVE  AllReached' /\ PinsCounted'
<1>1. GraphInv /\ GcInv /\ AllReached /\ PinsCounted /\ pc = "compact"
  BY DEF WholeInv, GraphInv, FlushRelocations, KeepInPlace, PassFree, Slide, Jump, LeaveBehind, Looping
<1>2. /\ Unseen
      /\ \A b \in Objects(heap') : \E a \in Objects(heap) :
            /\ heap'.mem[b].id = heap.mem[a].id
            /\ heap'.mem[b].pinned => a = b /\ heap.mem[a].pinned
  BY <1>1, LoopKeepsNames
<1>3. AllReached'
  <2>1. Objects(heap) \subseteq ReachableBlocks
    BY <1>1 DEF AllReached
  <2> QED BY <2>1, <1>1, <1>2, ReachedStays
<1>4. ASSUME NEW b \in Objects(heap'), b < comp'.current, heap'.mem[b].pinned PROVE b <= comp'.alive_last
  <2>1. b \in Objects(heap) /\ heap.mem[b].pinned
    BY <1>2, <1>4
  <2>2. CASE FlushRelocations
    BY <2>1, <2>2, <1>1, <1>4 DEF FlushRelocations, PinsCounted, current
  <2>3. CASE KeepInPlace \/ PassFree \/ Slide \/ Jump \/ LeaveBehind
    <3>1. /\ comp'.current <= next /\ comp'.current \in Int
          /\ \A a \in Objects(heap) : a < next /\ heap.mem[a].pinned => a <= comp'.alive_last
      BY <2>3, <1>1, PinsStayCounted
    <3>2. b \in Int /\ next \in Int
      <4>1. pc = "compact" /\ current < heap.top
        BY <2>3 DEF KeepInPlace, PassFree, Slide, Jump, LeaveBehind, Looping
      <4>2. next = After(heap, current) /\ AtBlock(heap, comp)
        BY <4>1, <1>1, LoopAt
      <4> QED BY <4>2, <2>1, AddrNumbers DEF AtBlock, current, Objects
    <3>3. b < next
      BY <3>1, <3>2, <1>4
    <3> QED BY <3>1, <3>3, <2>1
  <2> QED BY <2>2, <2>3
<1> QED BY <1>3, <1>4 DEF PinsCounted, current

\* As long as every object is counted, no step disturbs the invariant.
LEMMA WholeInvStep ==
    ASSUME WholeInv, AllCounted, Next
    PROVE  WholeInv'
<1>1. GraphInv' /\ GcInv'
  <2>1. GraphInv'
    BY GraphInvStep DEF WholeInv
  <2> QED BY <2>1 DEF GraphInv
<1>2. CASE pc' # "compact"
  BY <1>1, <1>2 DEF WholeInv, AllReached, PinsCounted
<1>3. CASE \/ CollectAndCompact
           \/ \E r \in Roots, len \in Lengths, id \in Ids : AllocNeedsCompaction(r, len, id)
  BY <1>1, <1>3, StartWhole DEF WholeInv
<1>4. CASE FlushRelocations \/ KeepInPlace \/ PassFree \/ Slide \/ Jump \/ LeaveBehind
  BY <1>1, <1>4, LoopWhole DEF WholeInv
<1>5. CASE \/ \E r \in Roots, q \in Roots : Clear(r) \/ Copy(r, q) \/ Load(r, q) \/ Store(q, r)
           \/ \E r \in Roots : Clear(r)
           \/ \E r \in Roots, pinned \in BOOLEAN : SetPinned(r, pinned)
           \/ \E r \in Roots, len \in Lengths, id \in Ids : AllocAtOnce(r, len, id) \/ AllocAfterSweep(r, len, id)
           \/ Collect
  <2>1. pc' = "run"
    BY <1>5 DEF Clear, Copy, Load, Store, SetPinned, AllocAtOnce, AllocAfterSweep, Collect, Running
  <2> QED BY <2>1, <1>2
<1>6. CASE AllocAfterCompaction \/ AllocFails \/ FinishCompaction
  <2>1. pc' \in {"run", "retry"}
    BY <1>6 DEF AllocAfterCompaction, AllocFails, FinishCompaction
  <2> QED BY <2>1, <1>2
<1>7. CASE Mutator
  BY <1>3, <1>5, <1>7 DEF Mutator
<1>8. CASE Collector
  BY <1>4, <1>6, <1>8 DEF Collector
<1> QED BY <1>3, <1>5, <1>7, <1>8 DEF Next

\* Where nothing is lost, and no table is pending, references lead to objects.
LEMMA WholeLeads ==
    NothingLost /\ reloc = << >> =>
        /\ ReachableBlocks \subseteq Objects(heap)
        /\ \A r \in Roots : root[r] \in ReachableBlocks \cup {NULL}
        /\ \A a \in ReachableBlocks : heap.mem[a].ref \in ReachableBlocks \cup {NULL}
<1> SUFFICES ASSUME NothingLost, reloc = << >>
             PROVE  /\ ReachableBlocks \subseteq Objects(heap)
                    /\ \A r \in Roots : root[r] \in ReachableBlocks \cup {NULL}
                    /\ \A a \in ReachableBlocks : heap.mem[a].ref \in ReachableBlocks \cup {NULL}
  OBVIOUS
<1> DEFINE A == ReachableBlocks
<1>1. /\ A \subseteq Objects(heap) /\ StartInUse(heap, root, reloc) \subseteq A
      /\ \A a \in A : FollowInUse(heap, reloc)[a] \in A \cup {NULL}
  BY ReachableBlocksLead DEF LeastFrom
<1>2. \A a : RelocatedBy(reloc, a) = a /\ Relocated(a) = a
  BY EmptyTable
<1>3. ASSUME NEW x, IdAt(x) # Lost PROVE x \in Objects(heap) \cup {NULL}
  <2>1. x = NULL \/ InUse(heap, x)
    BY <1>2, <1>3 DEF IdAt
  <2> QED BY <2>1 DEF Objects, InUse, IsObject
<1>4. (\A r \in Roots : IdAt(root[r]) # Lost) /\ \A a \in A : IdAt(heap.mem[a].ref) # Lost
  BY DEF NothingLost
<1> HIDE DEF A
<1>5. ASSUME NEW r \in Roots PROVE root[r] \in A \cup {NULL}
  <2>1. root[r] \in Objects(heap) \cup {NULL}
    BY <1>3, <1>4
  <2>2. RelocatedBy(reloc, root[r]) = root[r]
    BY <1>2
  <2> QED BY <2>1, <2>2, <1>1 DEF StartInUse
<1>6. ASSUME NEW a \in A PROVE heap.mem[a].ref \in A \cup {NULL}
  <2>1. heap.mem[a].ref \in Objects(heap) \cup {NULL} /\ a \in Objects(heap)
    BY <1>1, <1>3, <1>4
  <2>2. RelocatedBy(reloc, heap.mem[a].ref) = heap.mem[a].ref
    BY <1>2
  <2>3. FollowInUse(heap, reloc)[a] = heap.mem[a].ref
    BY <2>1, <2>2 DEF FollowInUse
  <2> QED BY <2>3, <1>1
<1> QED BY <1>1, <1>5, <1>6 DEF A

LEMMA WholeLeadsAfter ==
    (NothingLost /\ reloc = << >> =>
        /\ ReachableBlocks \subseteq Objects(heap)
        /\ \A r \in Roots : root[r] \in ReachableBlocks \cup {NULL}
        /\ \A a \in ReachableBlocks : heap.mem[a].ref \in ReachableBlocks \cup {NULL})'
BY WholeLeads, PTL

LEMMA WholeAfter == (GraphInv => NothingLost)'
BY GraphIsWhole, PTL

LEMMA CompNumbers ==
    ASSUME GcInv
    PROVE  comp.current \in Int /\ comp.alive_last \in Int /\ heap.top \in Int
<1>1. comp.current \in Int /\ comp.alive_last \in Ref
  <2>1. comp \in Comps
    BY DEF GcInv
  <2> QED BY <2>1, AddrNumbers DEF Comps
<1>2. heap.top \in Addr
  <2>1. HeapType(heap)
    BY DEF GcInv, Sound
  <2> QED BY <2>1, HeapFields
<1> QED BY <1>1, <1>2, AddrNumbers

\* Where an object was not counted, the compaction can only end.
LEMMA UncountedEnds ==
    ASSUME GcInv, ~AllCounted, Next
    PROVE  FinishCompaction
<1>1. pc = "compact" /\ current >= heap.top
  BY DEF AllCounted
<1>2. ~Mutator /\ ~Collect /\ ~CollectAndCompact
  BY <1>1 DEF Mutator, Clear, Copy, Load, Store, SetPinned, AllocAtOnce, AllocAfterSweep,
              AllocNeedsCompaction, Collect, CollectAndCompact, Running
<1>3. ~(current < heap.top)
  <2>1. current \in Int /\ heap.top \in Int
    BY CompNumbers DEF current
  <2> QED BY <2>1, <1>1
<1>4. ~(FlushRelocations \/ KeepInPlace \/ PassFree \/ Slide \/ Jump \/ LeaveBehind)
  BY <1>3 DEF FlushRelocations, KeepInPlace, PassFree, Slide, Jump, LeaveBehind, Looping
<1>5. ~(AllocAfterCompaction \/ AllocFails)
  BY <1>1 DEF AllocAfterCompaction, AllocFails
<1> QED BY <1>2, <1>4, <1>5 DEF Next, Collector

\* An object not counted lies above a pinned one, and may be moved.
LEMMA UncountedIsLeft ==
    ASSUME WholeInv, ~AllCounted
    PROVE  \E a \in Objects(heap) : a \in LeftBehind
<1>1. GcInv /\ pc = "compact" /\ current >= heap.top /\ PinBelow(heap, comp)
  BY BareCounts DEF WholeInv, GraphInv, AllCounted
<1>2. PICK a \in Objects(heap) : ~(a <= comp.alive_last)
  BY DEF AllCounted
<1>3. PICK p \in Objects(heap) : p < current /\ heap.mem[p].pinned
  BY <1>1 DEF PinBelow, current
<1>4. /\ current \in Int /\ comp.alive_last \in Int /\ heap.top \in Int
      /\ \A x \in Objects(heap) : x \in Int /\ x < heap.top
  <2>1. current \in Int /\ comp.alive_last \in Int /\ heap.top \in Int
    BY <1>1, CompNumbers DEF current
  <2> QED BY <2>1, AddrNumbers DEF Objects, InUse
<1>5. \A x \in Objects(heap) : heap.mem[x].pinned => x <= comp.alive_last
  <2>1. \A x \in Objects(heap) : x < current
    BY <1>1, <1>4
  <2> QED BY <2>1, <1>1 DEF WholeInv, PinsCounted
<1>6. a > comp.alive_last /\ ~heap.mem[a].pinned /\ p < a
  BY <1>2, <1>3, <1>4, <1>5
<1> QED BY <1>3, <1>6 DEF LeftBehind

\* The compaction that ends there puts top at or below that object, and the program, which
\* could reach it, now holds a reference to no object.
LEMMA CutLoses ==
    ASSUME WholeInv, NEW a \in Objects(heap), a > comp.alive_last, FinishCompaction
    PROVE  ~NothingLost'
<1> SUFFICES ASSUME NothingLost' PROVE FALSE
  OBVIOUS
<1> DEFINE al == comp.alive_last
           top == IF al = NULL THEN 0 ELSE After(heap, al)
           h == FixupFreeList([heap EXCEPT !.top = top])
           B == ReachableBlocks'
<1>1. /\ pc = "compact" /\ root' = RelocatedRoots /\ reloc' = << >>
      /\ heap' = IF reloc # << >> THEN RelocatedHeap(h) ELSE h
  BY DEF FinishCompaction, ApplyRelocations
<1>2. /\ GcInv /\ Objects(heap) \subseteq ReachableBlocks /\ Sound(heap) /\ Hinted(heap)
      /\ Roaming(heap, comp, reloc) /\ al \in Objects(heap) \cup {NULL}
  BY <1>1 DEF WholeInv, GraphInv, AllReached, GcInv, Roaming
<1>3. CutAt(heap, top, h)
  BY <1>2, FixupCuts
<1>4. a \notin Objects(h)
  <2>1. HeapType(heap) /\ Tiled(heap)
    BY <1>2 DEF Sound
  <2>2. a \in Blocks(heap) /\ a \in Bounds(heap) /\ a \in Int /\ 0 <= a
    <3>1. a \in Blocks(heap) /\ a \in Bounds(heap)
      BY <2>1, BlocksAre DEF Bounds
    <3> QED BY <3>1, <2>1, Tiles
  <2>3. top \in Int /\ top <= a
    <3>1. CASE al = NULL
      BY <3>1, <2>2
    <3>2. CASE al # NULL
      <4>1. al \in Blocks(heap) /\ al \in Int
        BY <3>2, <1>2, <2>1, BlocksAre, Tiles
      <4>2. After(heap, al) <= a /\ After(heap, al) \in Bounds(heap)
        BY <4>1, <2>1, <2>2, Tiles
      <4> QED BY <4>2, <3>2, <2>1, Tiles
    <3> QED BY <3>1, <3>2
  <2>4. a \in Objects(h) => a < top
    BY <1>3 DEF CutAt
  <2> QED BY <2>2, <2>3, <2>4
<1> HIDE DEF h
<1>5. /\ Objects(h) \subseteq Objects(heap) /\ Sound(h)
      /\ \A x \in Objects(h) : h.mem[x] = heap.mem[x]
  BY <1>3 DEF CutAt
<1>6. \A x : Relocated(x) = RelocatedBy(reloc, x) /\ RelocatedBy(<< >>, x) = x
  BY EmptyTable
<1>7. /\ Objects(heap') = Objects(h)
      /\ \A x \in Objects(h) : heap'.mem[x].ref = RelocatedBy(reloc, heap.mem[x].ref)
  <2>1. CASE reloc # << >>
    <3>1. h \in Heaps /\ h.mem \in [Addr -> Block]
      <4>1. HeapType(h)
        BY <1>5 DEF Sound
      <4>2. h.mem \in [Addr -> Block]
        BY <4>1, HeapFields
      <4> QED BY <4>1, <4>2 DEF HeapType, Heaps
    <3>2. heap' = [h EXCEPT !.mem = [x \in Addr |-> IF x \in Objects(h)
                                                   THEN [h.mem[x] EXCEPT !.ref = Relocated(@)]
                                                   ELSE h.mem[x]]]
      BY <1>1, <2>1 DEF RelocatedHeap
    <3>3. /\ heap'.top = h.top
          /\ \A x \in Addr : heap'.mem[x] = IF x \in Objects(h) THEN [h.mem[x] EXCEPT !.ref = Relocated(@)]
                                              ELSE h.mem[x]
      BY <3>1, <3>2 DEF Heaps
    <3>4. \A x \in Objects(h) : x \in Addr
      BY DEF Objects
    <3>5. \A x \in Addr : heap'.mem[x].kind = h.mem[x].kind
      BY <3>1, <3>3 DEF Block
    <3>6. Objects(heap') = Objects(h)
      BY <3>3, <3>5 DEF Objects, InUse, IsObject
    <3>7. \A x \in Objects(h) : heap'.mem[x].ref = Relocated(h.mem[x].ref)
      BY <3>1, <3>3, <3>4 DEF Block
    <3> QED BY <3>6, <3>7, <1>5, <1>6
  <2>2. CASE reloc = << >>
    BY <2>2, <1>1, <1>5, <1>6
  <2> QED BY <2>1, <2>2
<1>8. \A r \in Roots : root'[r] = RelocatedBy(reloc, root[r])
  BY <1>1, <1>6 DEF RelocatedRoots
<1>9. /\ B \subseteq Objects(h)
      /\ \A r \in Roots : root'[r] \in B \cup {NULL}
      /\ \A x \in B : heap'.mem[x].ref \in B \cup {NULL}
  BY <1>1, <1>7, WholeLeadsAfter
<1> HIDE DEF B
<1>10. /\ \A r \in Roots : RelocatedBy(reloc, root[r]) \in B \cup {NULL}
       /\ \A x \in B : RelocatedBy(reloc, heap.mem[x].ref) \in B \cup {NULL}
  BY <1>7, <1>8, <1>9
<1>11. ReachableBlocks \subseteq B
  <2>1. B \in SUBSET Objects(heap)
    BY <1>5, <1>9
  <2> QED BY <2>1, <1>2, <1>10, ReachableIs
<1> QED BY <1>2, <1>4, <1>9, <1>11

\* One step of the memory manager from a state where nothing is lost.
LEMMA WholeStep ==
    ASSUME WholeInv, Next
    PROVE  /\ NothingLost' => WholeInv'
           /\ ~NothingLost' <=> Cuts
<1>1. GcInv
  BY DEF WholeInv, GraphInv
<1>2. CASE AllCounted
  <2>1. WholeInv' /\ NothingLost'
    BY <1>2, WholeInvStep, WholeAfter DEF WholeInv
  <2>2. ~Cuts
    <3> SUFFICES ASSUME FinishCompaction, NEW a \in LeftBehind PROVE FALSE
      BY DEF Cuts
    <3>1. a \in Objects(heap) /\ a > comp.alive_last
      BY DEF LeftBehind
    <3>2. a <= comp.alive_last
      BY <3>1, <1>2 DEF AllCounted, FinishCompaction
    <3>3. a \in Int /\ comp.alive_last \in Int
      BY <3>1, <1>1, AddrNumbers DEF GcInv, Comps, Objects
    <3> QED BY <3>1, <3>2, <3>3
  <2> QED BY <2>1, <2>2
<1>3. CASE ~AllCounted
  <2>1. FinishCompaction
    BY <1>1, <1>3, UncountedEnds
  <2>2. PICK a \in Objects(heap) : a \in LeftBehind
    BY <1>3, UncountedIsLeft
  <2>3. ~NothingLost'
    BY <2>1, <2>2, CutLoses DEF LeftBehind
  <2> QED BY <2>1, <2>2, <2>3 DEF Cuts
<1> QED BY <1>2, <1>3

LEMMA ReachableBlocksLeadAfter ==
    LeastFrom(Objects(heap), StartInUse(heap, root, reloc), FollowInUse(heap, reloc), NULL, ReachableBlocks)'
BY ReachableBlocksLead, PTL

\* While nothing happens what the program can reach, and what is where, stay as they are.
LEMMA SameReach ==
    ASSUME UNCHANGED vars
    PROVE  ReachableBlocks' = ReachableBlocks /\ \A x : IdAt(x)' = IdAt(x)
<1>1. heap' = heap /\ root' = root /\ reloc' = reloc
  BY DEF vars
<1>2. ReachableBlocks' = ReachableBlocks
  <2> DEFINE A == ReachableBlocks
             A2 == ReachableBlocks'
  <2>1. /\ LeastFrom(Objects(heap), StartInUse(heap, root, reloc), FollowInUse(heap, reloc), NULL, A)
        /\ LeastFrom(Objects(heap), StartInUse(heap, root, reloc), FollowInUse(heap, reloc), NULL, A2)
    BY <1>1, ReachableBlocksLead, ReachableBlocksLeadAfter
  <2> HIDE DEF A, A2
  <2>2. A \subseteq A2 /\ A2 \subseteq A
    BY <2>1 DEF LeastFrom
  <2> QED BY <2>2 DEF A, A2
<1>3. ASSUME NEW x PROVE IdAt(x)' = IdAt(x)
  BY <1>1 DEF IdAt, Relocated, InUse, IsObject
<1> QED BY <1>2, <1>3

\* Nothing is found where it was lost while nothing happens.
LEMMA StaysLost ==
    ASSUME UNCHANGED vars, NothingLost'
    PROVE  NothingLost
<1>1. heap' = heap /\ root' = root
  BY DEF vars
<1> QED BY <1>1, SameReach DEF NothingLost

LEMMA StaysSeen ==
    ASSUME UNCHANGED vars
    PROVE  SeenRoot' = SeenRoot /\ SeenGraph' = SeenGraph
<1>1. heap' = heap /\ root' = root
  BY DEF vars
<1>2. ReachableBlocks' = ReachableBlocks /\ \A x : IdAt(x)' = IdAt(x)
  BY SameReach
<1>3. ASSUME NEW o PROVE BlockOf(o)' = BlockOf(o)
  BY <1>1 DEF BlockOf
<1>4. SeenRoot' = SeenRoot
  BY <1>1, <1>2 DEF SeenRoot
<1>5. SeenGraph' = SeenGraph
  BY <1>1, <1>2, <1>3 DEF SeenGraph
<1> QED BY <1>4, <1>5

LEMMA WholeStutters ==
    ASSUME UNCHANGED vars, WholeInv
    PROVE  WholeInv'
<1>1. heap' = heap /\ root' = root /\ pc' = pc /\ request' = request /\ comp' = comp /\ reloc' = reloc
  BY DEF vars
<1>2. GraphInv /\ GraphInv' /\ GcInv'
  <2>1. GraphInv /\ GraphInv'
    BY GraphInvStep DEF WholeInv
  <2> QED BY <2>1 DEF GraphInv
<1>3. AllReached'
  <2>1. CASE pc = "compact"
    <3>1. Objects(heap) \subseteq ReachableBlocks
      BY <2>1 DEF WholeInv, AllReached
    <3>2. Unseen
      BY <1>1, <1>2, LeftUnseen
    <3> QED BY <3>1, <3>2, <1>1, <1>2, ReachedStays
  <2>2. CASE pc # "compact"
    BY <2>2, <1>1 DEF AllReached
  <2> QED BY <2>1, <2>2
<1>4. PinsCounted'
  BY <1>1 DEF WholeInv, PinsCounted, current
<1> QED BY <1>2, <1>3, <1>4 DEF WholeInv

LEMMA WholeInvInit == Init => WholeInv
<1>1. Init => GraphInv /\ pc = "run"
  BY GraphInvInit DEF Init
<1> QED BY <1>1 DEF WholeInv, AllReached, PinsCounted

LEMMA WholeInvHolds ==
    (NothingLost => WholeInv) /\ [NothingLost /\ Next]_vars => (NothingLost => WholeInv)'
<1> SUFFICES ASSUME NothingLost => WholeInv, [NothingLost /\ Next]_vars PROVE (NothingLost => WholeInv)'
  OBVIOUS
<1>1. CASE NothingLost /\ Next
  BY <1>1, WholeStep
<1>2. CASE UNCHANGED vars
  BY <1>2, WholeStutters, StaysLost
<1> QED BY <1>1, <1>2

\* For every size of the heap, the objects and the table, and whatever is pinned: the program
\* loses objects by no step but the end of a compaction that left a movable object uncounted
\* above a pinned one, and by every one of those.
THEOREM GcLosesByCutting == WholeSpec => LosesByCutting
<1>1. (NothingLost => WholeInv) /\ [NothingLost /\ Next]_vars =>
         [NothingLost => (~NothingLost' <=> Cuts)]_vars
  BY WholeStep
<1> QED BY <1>1, WholeInvInit, WholeInvHolds, PTL DEF WholeSpec, LosesByCutting

\* Up to that step, and but for it, the memory manager keeps the graph of objects that the
\* program sees, whatever is pinned.
THEOREM GcKeepsTheGraphUnlessCut == WholeSpec => SeesGraphUnlessCut
<1>1. Init => Graph!Init
  BY GraphInvInit
<1>2. ASSUME NothingLost => WholeInv, [NothingLost /\ Next]_vars
      PROVE  [Cuts \/ Graph!Next]_(Graph!vars)
  <2>1. CASE NothingLost /\ Next /\ AllCounted
    BY <2>1, <1>2, GraphInvStep DEF WholeInv
  <2>2. CASE NothingLost /\ Next /\ ~AllCounted
    <3>1. WholeInv /\ GcInv
      BY <2>2, <1>2 DEF WholeInv, GraphInv
    <3>2. FinishCompaction
      BY <2>2, <3>1, UncountedEnds
    <3>3. PICK a \in Objects(heap) : a \in LeftBehind
      BY <2>2, <3>1, UncountedIsLeft
    <3> QED BY <3>2, <3>3 DEF Cuts
  <2>3. CASE UNCHANGED vars
    <3>1. UNCHANGED Graph!vars
      <4>1. SeenRoot' = SeenRoot /\ SeenGraph' = SeenGraph
        BY <2>3, StaysSeen
      <4> QED BY <4>1 DEF Graph!vars, SeenRoot, SeenGraph
    <3> QED BY <3>1
  <2> QED BY <1>2, <2>1, <2>2, <2>3
<1>3. (NothingLost => WholeInv) /\ [NothingLost /\ Next]_vars => [Cuts \/ Graph!Next]_(Graph!vars)
  BY <1>2
<1> QED BY <1>1, <1>3, WholeInvInit, WholeInvHolds, PTL DEF WholeSpec, SeesGraphUnlessCut
=============================================================================
