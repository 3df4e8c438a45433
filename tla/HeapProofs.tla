----------------------------- MODULE HeapProofs -----------------------------
(***************************************************************************)
(* Proofs about the operations of the managed heap: the blocks it is tiled *)
(* with, the links of its free list, what a walk along the list finds,     *)
(* allocation and the sweep.  They hold for heaps of every size and        *)
(* objects of every length, and are what GcHeapProofs rests on.            *)
(***************************************************************************)
EXTENDS GcHeap, FiniteSetTheorems, TLAPS

-----------------------------------------------------------------------------
(* Numbers, functions applied again and again, and what links lead to *)

\* A set of naturals that is not empty has a least element.
LEMMA LeastExists ==
    ASSUME NEW T \in SUBSET Nat, T # {}
    PROVE  \E x \in T : \A y \in T : x <= y
<1> DEFINE U == {0 .. x : x \in T}
<1>1. IsWellFoundedOn(StrictSubsetOrdering(Nat), FiniteSubsetsOf(Nat))
  BY FS_StrictSubsetOrderingWellFounded
<1>2. U \subseteq FiniteSubsetsOf(Nat) /\ U # {}
  <2>1. ASSUME NEW x \in T PROVE 0 .. x \in SUBSET Nat /\ IsFiniteSet(0 .. x)
    BY FS_Interval
  <2> QED BY <2>1 DEF FiniteSubsetsOf
<1>3. PICK m \in U : \A u \in U : <<u, m>> \notin StrictSubsetOrdering(Nat)
  <2> HIDE DEF U
  <2> QED BY <1>1, <1>2, WFMin
<1>4. PICK x \in T : m = 0 .. x
  OBVIOUS
<1>5. ASSUME NEW y \in T, y < x PROVE FALSE
  <2>1. 0 .. y \in U /\ 0 .. y \subseteq m /\ x \in m /\ x \notin 0 .. y
    BY <1>4, <1>5
  <2>2. <<0 .. y, m>> \in StrictSubsetOrdering(Nat)
    BY <2>1, <1>4 DEF StrictSubsetOrdering
  <2> QED BY <1>3, <2>1, <2>2
<1> QED BY <1>5

\* What holds of 0, and of the next number after one it holds of, holds of all numbers.
LEMMA FromZero ==
    ASSUME NEW T, 0 \in T, \A n \in Nat : n \in T => n + 1 \in T
    PROVE  Nat \subseteq T
<1> DEFINE M == {n \in Nat : n \notin T}
<1> SUFFICES ASSUME M # {} PROVE FALSE
  OBVIOUS
<1>1. M \in SUBSET Nat
  OBVIOUS
<1>2. PICK m \in M : \A n \in M : m <= n
  <2> HIDE DEF M
  <2> QED BY <1>1, LeastExists
<1>3. m \in Nat /\ m # 0 /\ m - 1 \in Nat /\ (m - 1) + 1 = m
  BY <1>2
<1>4. m - 1 \notin M
  <2> HIDE DEF M
  <2>1. ASSUME m - 1 \in M PROVE FALSE
    <3>1. m <= m - 1
      BY <2>1, <1>2
    <3> QED BY <3>1, <1>3
  <2> QED BY <2>1
<1> QED BY <1>2, <1>3, <1>4

\* The sequence f starts with x and goes on with the function nxt.
Iterates(f, x, nxt) == f = [n \in Nat |-> IF n = 0 THEN x ELSE nxt[f[n - 1]]]

\* Of a function applied again and again, from x on, there is a sequence.
LEMMA Iteration ==
    ASSUME NEW S, NEW nxt \in [S -> S], NEW x \in S
    PROVE  \E f \in [Nat -> S] : Iterates(f, x, nxt)
<1> DEFINE IsRun(g, n) == /\ g \in [0 .. n -> S] /\ g[0] = x
                          /\ \A k \in 1 .. n : g[k] = nxt[g[k - 1]]
           HasRun == {n \in Nat : \E g : IsRun(g, n)}
           run(n) == CHOOSE g : IsRun(g, n)
           f == [n \in Nat |-> run(n)[n]]
<1>1. 0 \in HasRun
  <2>1. IsRun([k \in 0 .. 0 |-> x], 0)
    OBVIOUS
  <2> QED BY <2>1
<1>2. ASSUME NEW n \in Nat, NEW g, IsRun(g, n)
      PROVE  IsRun([k \in 0 .. n + 1 |-> IF k <= n THEN g[k] ELSE nxt[g[n]]], n + 1)
  <2> DEFINE e == [k \in 0 .. n + 1 |-> IF k <= n THEN g[k] ELSE nxt[g[n]]]
  <2>1. g[n] \in S /\ nxt[g[n]] \in S
    BY <1>2
  <2>2. e \in [0 .. n + 1 -> S] /\ e[0] = x
    BY <2>1, <1>2
  <2>3. ASSUME NEW k \in 1 .. n + 1 PROVE e[k] = nxt[e[k - 1]]
    <3>1. CASE k <= n
      BY <3>1, <1>2
    <3>2. CASE k = n + 1
      BY <3>2
    <3> QED BY <3>1, <3>2
  <2> QED BY <2>2, <2>3
<1>3. ASSUME NEW n \in Nat, n \in HasRun PROVE n + 1 \in HasRun
  <2>1. PICK g : IsRun(g, n)
    BY <1>3
  <2>2. \E e : IsRun(e, n + 1)
    <3> HIDE DEF IsRun
    <3> QED BY <2>1, <1>2
  <2>3. n + 1 \in Nat
    OBVIOUS
  <2> HIDE DEF IsRun
  <2> QED BY <2>2, <2>3
<1>4. ASSUME NEW n \in Nat PROVE IsRun(run(n), n)
  <2>1. Nat \subseteq HasRun
    <3> HIDE DEF HasRun
    <3> QED BY <1>1, <1>3, FromZero
  <2> HIDE DEF IsRun
  <2> QED BY <2>1
<1>5. ASSUME NEW n \in Nat PROVE run(n + 1)[n] = run(n)[n]
  <2> DEFINE Same == {k \in Nat : k <= n => run(n + 1)[k] = run(n)[k]}
             a == run(n + 1)
             b == run(n)
  <2>1. IsRun(a, n + 1) /\ IsRun(b, n)
    <3> HIDE DEF IsRun, run
    <3>1. n + 1 \in Nat
      OBVIOUS
    <3> QED BY <1>4, <3>1 DEF a, b
  <2> HIDE DEF a, b, run
  <2>2. a[0] = b[0] /\ \A k \in Nat : k + 1 <= n /\ a[k] = b[k] => a[k + 1] = b[k + 1]
    <3>1. a[0] = b[0]
      BY <2>1
    <3>2. ASSUME NEW k \in Nat, k + 1 <= n, a[k] = b[k] PROVE a[k + 1] = b[k + 1]
      <4>1. k + 1 \in 1 .. n /\ k + 1 \in 1 .. n + 1 /\ (k + 1) - 1 = k
        BY <3>2
      <4>2. a[k + 1] = nxt[a[k]] /\ b[k + 1] = nxt[b[k]]
        BY <4>1, <2>1
      <4> QED BY <4>2, <3>2
    <3> QED BY <3>1, <3>2
  <2>3. 0 \in Same
    BY <2>2 DEF a, b
  <2>4. ASSUME NEW k \in Nat, k \in Same PROVE k + 1 \in Same
    BY <2>2, <2>4 DEF a, b
  <2>5. Nat \subseteq Same
    <3> HIDE DEF Same
    <3> QED BY <2>3, <2>4, FromZero
  <2> QED BY <2>5
<1>6. f \in [Nat -> S] /\ f[0] = x
  <2> HIDE DEF run
  <2>1. ASSUME NEW n \in Nat PROVE run(n)[n] \in S
    BY <1>4
  <2>2. run(0)[0] = x
    BY <1>4
  <2> QED BY <2>1, <2>2
<1>7. ASSUME NEW n \in Nat, n # 0 PROVE f[n] = nxt[f[n - 1]]
  <2> HIDE DEF run
  <2>1. n - 1 \in Nat /\ (n - 1) + 1 = n /\ n \in 1 .. n
    BY <1>7
  <2>2. run(n)[n] = nxt[run(n)[n - 1]]
    BY <1>4, <2>1
  <2>3. run(n)[n - 1] = run(n - 1)[n - 1]
    BY <1>5, <2>1
  <2> QED BY <2>1, <2>2, <2>3
<1>8. f = [n \in Nat |-> IF n = 0 THEN x ELSE nxt[f[n - 1]]]
  <2> HIDE DEF f
  <2>1. f = [n \in Nat |-> f[n]]
    BY <1>6
  <2> QED BY <2>1, <1>6, <1>7
<1> HIDE DEF f
<1>9. Iterates(f, x, nxt)
  BY <1>8 DEF Iterates
<1> QED BY <1>6, <1>9

\* What the references to lead to from the elements of A on, and A itself; none is no element.
Leads(to, none, A) == UNION {{a, to[a]} \ {none} : a \in A}

\* A is what to leads to from start on: the least set that holds start and, with an
\* element, what it leads to.
LeastFrom(O, start, to, none, A) ==
    /\ A \subseteq O /\ start \subseteq A /\ \A a \in A : to[a] \in A \cup {none}
    /\ \A B \in SUBSET O : start \subseteq B /\ (\A a \in B : to[a] \in B \cup {none}) => A \subseteq B

\* f[n] is what the ways of n steps from start on lead to.
AreWays(O, start, to, none, f) ==
    /\ f = [n \in Nat |-> IF n = 0 THEN start ELSE Leads(to, none, f[n - 1])]
    /\ \A n \in Nat : f[n] \in SUBSET O

LEMMA WaysExist ==
    ASSUME NEW O, NEW none, none \notin O, NEW to \in [O -> O \cup {none}], NEW start \in SUBSET O
    PROVE  \E f : AreWays(O, start, to, none, f)
<1> DEFINE S == SUBSET O
           nxt == [A \in S |-> Leads(to, none, A)]
<1>1. ASSUME NEW A \in S PROVE Leads(to, none, A) \in S
  BY DEF Leads
<1>2. nxt \in [S -> S] /\ \A A \in S : nxt[A] = Leads(to, none, A)
  BY <1>1
<1> HIDE DEF nxt
<1>3. PICK f \in [Nat -> S] : Iterates(f, start, nxt)
  <2> HIDE DEF S
  <2>1. start \in S
    BY DEF S
  <2> QED BY <2>1, <1>2, Iteration
<1>4. f = [n \in Nat |-> IF n = 0 THEN start ELSE nxt[f[n - 1]]]
  BY <1>3 DEF Iterates
<1>5. \A n \in Nat : n # 0 => nxt[f[n - 1]] = Leads(to, none, f[n - 1])
  <2>1. \A n \in Nat : n # 0 => n - 1 \in Nat /\ f[n - 1] \in S
    BY <1>3
  <2> HIDE DEF S
  <2> QED BY <2>1, <1>2
<1>6. f = [n \in Nat |-> IF n = 0 THEN start ELSE Leads(to, none, f[n - 1])]
  BY <1>4, <1>5
<1> QED BY <1>3, <1>6 DEF AreWays

\* Ways of as many steps as there are elements lead wherever any do.
LEMMA WaysEnd ==
    ASSUME NEW O, IsFiniteSet(O), NEW none, none \notin O, NEW to \in [O -> O \cup {none}],
           NEW start \in SUBSET O, NEW f, f[0] = start,
           \A n \in Nat : f[n] \in SUBSET O => f[n + 1] = Leads(to, none, f[n])
    PROVE  LeastFrom(O, start, to, none, f[Cardinality(O)])
<1> DEFINE N == Cardinality(O)
           Stable(A) == Leads(to, none, A) = A
           T == {n \in Nat : f[n] \in SUBSET O /\ start \subseteq f[n]
                             /\ (Stable(f[n]) \/ n <= Cardinality(f[n]))}
<1>1. N \in Nat
  BY FS_CardinalityType
<1>2. ASSUME NEW A \in SUBSET O PROVE Leads(to, none, A) \in SUBSET O /\ A \subseteq Leads(to, none, A)
  BY DEF Leads
<1>3. \A A \in SUBSET O : IsFiniteSet(A) /\ Cardinality(A) \in Nat
  BY FS_Subset, FS_CardinalityType
<1>4. 0 \in T
  BY <1>3
<1>5. ASSUME NEW n \in Nat, n \in T PROVE n + 1 \in T
  <2> DEFINE A == f[n]
             B == f[n + 1]
  <2>1. A \in SUBSET O /\ start \subseteq A /\ (Stable(A) \/ n <= Cardinality(A)) /\ B = Leads(to, none, A)
    BY <1>5
  <2> HIDE DEF A, B
  <2>2. B \in SUBSET O /\ A \subseteq B
    BY <2>1, <1>2
  <2>3. Stable(B) \/ n + 1 <= Cardinality(B)
    <3>1. CASE Stable(A)
      BY <3>1, <2>1
    <3>2. CASE ~Stable(A)
      <4>1. A # B
        BY <3>2, <2>1
      <4>2. Cardinality(A) <= Cardinality(B) /\ Cardinality(A) # Cardinality(B)
        BY <4>1, <2>2, <1>3, FS_Subset
      <4>3. Cardinality(A) \in Nat /\ Cardinality(B) \in Nat
        BY <2>1, <2>2, <1>3
      <4>4. n <= Cardinality(A)
        BY <3>2, <2>1
      <4> QED BY <4>2, <4>3, <4>4
    <3> QED BY <3>1, <3>2
  <2>4. start \subseteq B /\ n + 1 \in Nat
    BY <2>1, <2>2
  <2> QED BY <2>2, <2>3, <2>4 DEF B
<1>6. Nat \subseteq T
  <2> HIDE DEF T
  <2> QED BY <1>4, <1>5, FromZero
<1> DEFINE M == f[N]
<1>7. M \in SUBSET O /\ start \subseteq M /\ (Stable(M) \/ N <= Cardinality(M))
  BY <1>1, <1>6
<1>8. Stable(M)
  <2> HIDE DEF M
  <2>1. CASE N <= Cardinality(M)
    <3>1. Cardinality(M) <= N /\ (N = Cardinality(M) => O = M)
      BY <1>7, FS_Subset
    <3>2. Cardinality(M) \in Nat
      BY <1>3, <1>7
    <3>3. O = M
      <4> HIDE DEF N
      <4> QED BY <2>1, <3>1, <3>2, <1>1
    <3>4. Leads(to, none, O) = O
      BY <1>2
    <3> QED BY <3>3, <3>4
  <2> QED BY <2>1, <1>7
<1>9. \A a \in M : to[a] \in M \cup {none}
  <2> HIDE DEF M
  <2> QED BY <1>8 DEF Leads
<1>10. ASSUME NEW B \in SUBSET O, start \subseteq B, \A a \in B : to[a] \in B \cup {none}
       PROVE  M \subseteq B
  <2> DEFINE Below == {n \in Nat : f[n] \subseteq B}
  <2>1. 0 \in Below
    BY <1>10
  <2>2. ASSUME NEW n \in Nat, n \in Below PROVE n + 1 \in Below
    <3>1. f[n] \subseteq B /\ f[n] \in SUBSET O /\ n + 1 \in Nat
      BY <2>2, <1>10
    <3>2. f[n + 1] = Leads(to, none, f[n])
      BY <3>1
    <3>3. Leads(to, none, f[n]) \subseteq B
      BY <3>1, <1>10 DEF Leads
    <3> QED BY <3>1, <3>2, <3>3
  <2>3. Nat \subseteq Below
    <3> HIDE DEF Below
    <3> QED BY <2>1, <2>2, FromZero
  <2> QED BY <2>3, <1>1
<1> HIDE DEF M
<1> QED BY <1>7, <1>9, <1>10 DEF LeastFrom, M

-----------------------------------------------------------------------------
(* Blocks and addresses *)

\* The fields of a heap.
HeapType(h) ==
    /\ h \in [mem : [Addr -> Block], top : Addr, free : Ref, largest : 0 .. HeapSize]
    /\ \A a \in Addr : h.mem[a].kind = "data" => h.mem[a] = Data

\* The blocks of the heap that are free, and the places where a block may begin.
FreeBlocks(h) == {a \in Addr : a < h.top /\ h.mem[a].kind = "free"}
Bounds(h) == Blocks(h) \cup {h.top}

LEMMA AddrNumbers ==
    /\ Addr \subseteq Int /\ Ref \subseteq Int /\ NULL = -1 /\ NULL \notin Addr /\ 0 \in Addr
    /\ \A a \in Addr : 0 <= a /\ a < HeapSize
    /\ HeapSize \in Int /\ HeapSize >= 3
BY HeapSizeAssumption DEF Addr, Ref, NULL

LEMMA BlockFields ==
    ASSUME NEW b \in Block
    PROVE  /\ b.len \in Int /\ 1 <= b.len /\ b.len <= HeapSize
           /\ b.next \in Ref /\ b.prev \in Ref /\ b.ref \in Ref /\ b.id \in Ids \cup {NoId}
           /\ b.kind \in {"data", "free", "object"} /\ b.pinned \in BOOLEAN
BY HeapSizeAssumption DEF Block

LEMMA DataIsBlock == Data \in Block /\ Data.kind = "data" /\ ~Data.pinned
BY HeapSizeAssumption DEF Block, Data, Ref

LEMMA FreeBlockIs ==
    ASSUME NEW len \in 1 .. HeapSize, NEW n \in Ref, NEW p \in Ref
    PROVE  LET b == FreeBlock(len, n, p)
           IN  /\ b \in Block /\ b.kind = "free" /\ b.len = len /\ b.next = n /\ b.prev = p
               /\ ~b.pinned
BY DEF FreeBlock, Block, Data, Ref

LEMMA ObjectIs ==
    ASSUME NEW len \in 1 .. HeapSize, NEW id \in Ids
    PROVE  LET b == Object(id, len)
           IN  /\ b \in Block /\ b.kind = "object" /\ b.len = len /\ b.ref = NULL /\ b.id = id
               /\ ~b.pinned
BY DEF Object, Block, Data, Ref

LEMMA HeapFields ==
    ASSUME NEW h, HeapType(h)
    PROVE  /\ h.mem \in [Addr -> Block]
           /\ h.top \in Addr /\ h.free \in Ref /\ h.largest \in 0 .. HeapSize
           /\ \A a \in Addr : h.mem[a] \in Block
           /\ \A a \in Addr : h.mem[a] = Data <=> h.mem[a].kind = "data"
BY DataIsBlock DEF HeapType

\* The blocks, by their kinds.
LEMMA BlocksAre ==
    ASSUME NEW h, HeapType(h)
    PROVE  /\ \A a : a \in Blocks(h) <=> a \in Addr /\ a < h.top /\ h.mem[a].kind # "data"
           /\ \A a : a \in FreeBlocks(h) <=> a \in Blocks(h) /\ IsFree(h, a)
           /\ \A a : a \in Objects(h) <=> a \in Blocks(h) /\ IsObject(h, a)
           /\ \A a \in Blocks(h) : a \in FreeBlocks(h) \/ a \in Objects(h)
           /\ FreeBlocks(h) \cap Objects(h) = {}
<1>1. \A a \in Addr : h.mem[a].kind \in {"data", "free", "object"}
                      /\ (h.mem[a] = Data <=> h.mem[a].kind = "data")
  BY HeapFields, BlockFields
<1> QED BY <1>1 DEF Blocks, FreeBlocks, Objects, InUse, IsFree, IsObject

\* Where a block ends, another begins, or top is.
LEMMA Tiles ==
    ASSUME NEW h, HeapType(h), Tiled(h)
    PROVE  /\ \A a \in Blocks(h) : After(h, a) \in Bounds(h) /\ a < After(h, a) /\ After(h, a) <= h.top
           /\ \A a \in Blocks(h) : \A b \in Bounds(h) : a < b => After(h, a) <= b
           /\ \A a \in Bounds(h) : a \in Addr /\ a \in Int /\ 0 <= a /\ a <= h.top
           /\ \A a \in Bounds(h) : a # h.top => a \in Blocks(h) /\ a < h.top
           /\ 0 \in Bounds(h) /\ h.top \in Bounds(h)
           /\ \A a \in Blocks(h) : a \in Int /\ After(h, a) = a + h.mem[a].len /\ h.mem[a].len \in Int
<1>1. \A a \in Addr : h.mem[a].len \in Int /\ 1 <= h.mem[a].len
  BY HeapFields, BlockFields
<1>2. Blocks(h) \subseteq Addr /\ h.top \in Addr /\ \A a \in Blocks(h) : a < h.top
  BY HeapFields DEF Blocks
<1>3. \A a \in Blocks(h) : After(h, a) = a + h.mem[a].len
  BY DEF After
<1>4. \A a \in Blocks(h) : After(h, a) = h.top \/ After(h, a) \in Blocks(h)
  BY DEF Tiled
<1>5. ASSUME NEW a \in Blocks(h)
      PROVE  After(h, a) \in Bounds(h) /\ a < After(h, a) /\ After(h, a) <= h.top
  <2>1. a \in Addr /\ a \in Int
    BY <1>2, AddrNumbers
  <2>2. h.mem[a].len \in Int /\ 1 <= h.mem[a].len
    BY <2>1, <1>1
  <2>3. a < After(h, a)
    BY <2>1, <2>2, <1>3
  <2>4. After(h, a) \in Bounds(h)
    BY <1>4 DEF Bounds
  <2>5. After(h, a) = h.top \/ After(h, a) < h.top
    BY <1>4, <1>2
  <2>6. h.top \in Int
    BY <1>2, AddrNumbers
  <2>7. After(h, a) \in Int
    BY <2>1, <2>2, <1>3
  <2> QED BY <2>3, <2>4, <2>5, <2>6, <2>7
<1>6. \A a, b \in Blocks(h) : a < b => After(h, a) <= b
  BY DEF Tiled
<1>7. 0 \in Bounds(h)
  <2>1. h.top \in Int /\ 0 <= h.top
    BY <1>2, AddrNumbers
  <2> QED BY <2>1 DEF Bounds, Tiled
<1>8. ASSUME NEW a \in Bounds(h) PROVE a \in Addr /\ a \in Int /\ 0 <= a /\ a <= h.top
  <2>1. a \in Addr /\ (a = h.top \/ a < h.top) /\ h.top \in Addr
    BY <1>2 DEF Bounds
  <2>2. a \in Int /\ h.top \in Int /\ 0 <= a
    BY <2>1, AddrNumbers
  <2> QED BY <2>1, <2>2
<1>9. \A a \in Blocks(h) : a \in Int /\ h.mem[a].len \in Int
  BY <1>1, <1>2, AddrNumbers
<1> QED BY <1>2, <1>3, <1>5, <1>6, <1>7, <1>8, <1>9 DEF Bounds

-----------------------------------------------------------------------------
(* Free lists *)

\* Below a, x is the last of the addresses F, or NULL.
IsBefore(F, a, x) == x \in F \cup {NULL} /\ x < a /\ \A y \in F : y < a => y <= x

\* Above a, x is the first of the addresses F; NULL if there is none.
IsAfter(F, a, x) ==
    \/ x = NULL /\ \A y \in F : y <= a
    \/ x \in F /\ a < x /\ \A y \in F : a < y => x <= y

\* The blocks F are linked both ways in address order.
Linked(mem, F) == \A a \in F : IsBefore(F, a, mem[a].prev) /\ IsAfter(F, a, mem[a].next)

\* The free list of the heap consists of the blocks F.
OnList(h, F) ==
    /\ F \subseteq Addr
    /\ \A a \in F : h.mem[a].kind = "free"
    /\ Linked(h.mem, F) /\ IsAfter(F, NULL, h.free)

\* Two headers that differ in their links at most.
SameButLinks(b, c) ==
    /\ b.kind = c.kind /\ b.len = c.len /\ b.id = c.id /\ b.ref = c.ref /\ b.pinned = c.pinned

\* Heap g is h with other links in the blocks F, and perhaps another head of the list.
Relinked(h, g, F) ==
    /\ g.top = h.top /\ g.largest = h.largest
    /\ \A a \in Addr : IF a \in F THEN SameButLinks(g.mem[a], h.mem[a]) ELSE g.mem[a] = h.mem[a]

\* The neighbours of a block on the list.
LEMMA Neighbours ==
    ASSUME NEW h, HeapType(h), NEW F, OnList(h, F), NEW a \in F
    PROVE  /\ h.mem[a].prev \in F \cup {NULL} /\ h.mem[a].next \in F \cup {NULL}
           /\ IsBefore(F, a, h.mem[a].prev) /\ IsAfter(F, a, h.mem[a].next)
           /\ \A x \in F \cup {NULL} : IsFree(h, x) <=> x # NULL
<1>1. NULL \notin Addr
  BY AddrNumbers
<1>2. IsBefore(F, a, h.mem[a].prev) /\ IsAfter(F, a, h.mem[a].next)
  BY DEF OnList, Linked
<1>3. \A x \in F \cup {NULL} : IsFree(h, x) <=> x # NULL
  BY <1>1 DEF OnList, IsFree
<1> QED BY <1>2, <1>3 DEF IsBefore, IsAfter

\* Setting a link changes that link.
LEMMA LinkSet ==
    ASSUME NEW h, HeapType(h), NEW a \in Ref, IsFree(h, a) <=> a # NULL, NEW x \in Ref
    PROVE  /\ LET g == SetNext(h, a, x)
              IN  /\ HeapType(g) /\ g.top = h.top /\ g.free = h.free /\ g.largest = h.largest
                  /\ \A b \in Addr : /\ SameButLinks(g.mem[b], h.mem[b]) /\ g.mem[b].prev = h.mem[b].prev
                                     /\ g.mem[b].next = IF b = a THEN x ELSE h.mem[b].next
                                     /\ b # a => g.mem[b] = h.mem[b]
           /\ LET g == SetPrev(h, a, x)
              IN  /\ HeapType(g) /\ g.top = h.top /\ g.free = h.free /\ g.largest = h.largest
                  /\ \A b \in Addr : /\ SameButLinks(g.mem[b], h.mem[b]) /\ g.mem[b].next = h.mem[b].next
                                     /\ g.mem[b].prev = IF b = a THEN x ELSE h.mem[b].prev
                                     /\ b # a => g.mem[b] = h.mem[b]
<1>1. CASE a = NULL
  <2>1. SetNext(h, a, x) = h /\ SetPrev(h, a, x) = h
    BY <1>1 DEF SetNext, SetPrev
  <2>2. a \notin Addr
    BY <1>1, AddrNumbers
  <2> QED BY <2>1, <2>2 DEF SameButLinks
<1>2. CASE a # NULL
  <2>1. a \in Addr /\ h.mem[a].kind = "free"
    BY <1>2 DEF Ref, IsFree
  <2>2. h.mem[a] \in Block /\ h.mem \in [Addr -> Block]
    BY <2>1 DEF HeapType
  <2> DEFINE n == [h.mem[a] EXCEPT !.next = x]
             p == [h.mem[a] EXCEPT !.prev = x]
  <2>5. /\ n \in Block /\ SameButLinks(n, h.mem[a]) /\ n.prev = h.mem[a].prev /\ n.next = x
        /\ p \in Block /\ SameButLinks(p, h.mem[a]) /\ p.next = h.mem[a].next /\ p.prev = x
        /\ n.kind = "free" /\ p.kind = "free"
    BY <2>1, <2>2 DEF Block, SameButLinks
  <2>6. \A b \in Addr : b # a => h.mem[b] \in Block /\ SameButLinks(h.mem[b], h.mem[b])
    BY <2>2 DEF SameButLinks
  <2>7. /\ SetNext(h, a, x) = [h EXCEPT !.mem = [h.mem EXCEPT ![a] = n]]
        /\ SetPrev(h, a, x) = [h EXCEPT !.mem = [h.mem EXCEPT ![a] = p]]
    <3>1. IsFree(h, a)
      BY <1>2
    <3>2. SetNext(h, a, x) = [h EXCEPT !.mem[a].next = x] /\ SetPrev(h, a, x) = [h EXCEPT !.mem[a].prev = x]
      BY <3>1 DEF SetNext, SetPrev
    <3>3. h \in [mem : [Addr -> Block], top : Addr, free : Ref, largest : 0 .. HeapSize]
      BY DEF HeapType
    <3> QED BY <3>2, <3>3, <2>1, <2>2
  <2> HIDE DEF n, p
  <2>8. \A q \in Block : q.kind = "free" =>
           LET g == [h EXCEPT !.mem = [h.mem EXCEPT ![a] = q]]
           IN  /\ HeapType(g) /\ g.top = h.top /\ g.free = h.free /\ g.largest = h.largest
               /\ g.mem = [h.mem EXCEPT ![a] = q]
    BY <2>1, <2>2 DEF HeapType
  <2> DEFINE gn == SetNext(h, a, x)
             gp == SetPrev(h, a, x)
  <2>9. /\ HeapType(gn) /\ gn.top = h.top /\ gn.free = h.free /\ gn.largest = h.largest
        /\ gn.mem = [h.mem EXCEPT ![a] = n]
    BY <2>5, <2>7, <2>8
  <2>10. /\ HeapType(gp) /\ gp.top = h.top /\ gp.free = h.free /\ gp.largest = h.largest
         /\ gp.mem = [h.mem EXCEPT ![a] = p]
    BY <2>5, <2>7, <2>8
  <2> HIDE DEF gn, gp
  <2>11. ASSUME NEW b \in Addr
         PROVE  /\ gn.mem[b] = IF b = a THEN n ELSE h.mem[b]
                /\ gp.mem[b] = IF b = a THEN p ELSE h.mem[b]
    BY <2>9, <2>10, <2>2
  <2>12. \A b \in Addr : /\ SameButLinks(gn.mem[b], h.mem[b]) /\ gn.mem[b].prev = h.mem[b].prev
                         /\ gn.mem[b].next = IF b = a THEN x ELSE h.mem[b].next
                         /\ b # a => gn.mem[b] = h.mem[b]
    BY <2>11, <2>5, <2>6
  <2>13. \A b \in Addr : /\ SameButLinks(gp.mem[b], h.mem[b]) /\ gp.mem[b].next = h.mem[b].next
                         /\ gp.mem[b].prev = IF b = a THEN x ELSE h.mem[b].prev
                         /\ b # a => gp.mem[b] = h.mem[b]
    BY <2>11, <2>5, <2>6
  <2> QED BY <2>9, <2>10, <2>12, <2>13 DEF gn, gp
<1> QED BY <1>1, <1>2


\* An address has one predecessor and one successor.
LEMMA OneNeighbour ==
    ASSUME NEW F \in SUBSET Addr, NEW a \in Ref
    PROVE  /\ \A x, y : IsBefore(F, a, x) /\ IsBefore(F, a, y) => x = y
           /\ \A x, y : IsAfter(F, a, x) /\ IsAfter(F, a, y) => x = y
<1>1. a \in Int /\ F \subseteq Int /\ NULL \notin F
  BY AddrNumbers
<1>2. ASSUME NEW x, NEW y, IsBefore(F, a, x), IsBefore(F, a, y) PROVE x = y
  BY <1>1, <1>2, AddrNumbers DEF IsBefore
<1>3. ASSUME NEW x, NEW y, IsAfter(F, a, x), IsAfter(F, a, y) PROVE x = y
  <2>1. x = NULL => \A u \in F : ~(a < u)
    BY <1>1, <1>3 DEF IsAfter
  <2>2. x # NULL => x \in F /\ a < x /\ \A u \in F : a < u => x <= u
    BY <1>3 DEF IsAfter
  <2>3. y = NULL => \A u \in F : ~(a < u)
    BY <1>1, <1>3 DEF IsAfter
  <2>4. y # NULL => y \in F /\ a < y /\ \A u \in F : a < u => y <= u
    BY <1>3 DEF IsAfter
  <2>5. CASE x = NULL \/ y = NULL
    <3>1. x = NULL /\ y = NULL
      BY <2>5, <2>1, <2>2, <2>3, <2>4
    <3> QED BY <3>1
  <2>6. CASE x # NULL /\ y # NULL
    <3>1. x <= y /\ y <= x /\ x \in Int /\ y \in Int
      BY <2>6, <2>2, <2>4, <1>1
    <3> QED BY <3>1
  <2> QED BY <2>5, <2>6
<1> QED BY <1>2, <1>3

\* Without one block its neighbours are each other's.
LEMMA NeighboursWithout ==
    ASSUME NEW F \in SUBSET Addr, NEW c \in F, NEW p, NEW n, IsBefore(F, c, p), IsAfter(F, c, n)
    PROVE  /\ \A a \in F \ {c} : \A q : IsBefore(F, a, q) => IsBefore(F \ {c}, a, IF a = n THEN p ELSE q)
           /\ \A a \in F \ {c} : \A q : IsAfter(F, a, q) => IsAfter(F \ {c}, a, IF a = p THEN n ELSE q)
           /\ \A q : IsAfter(F, NULL, q) => IsAfter(F \ {c}, NULL, IF p = NULL THEN n ELSE q)
<1>1. F \subseteq Int /\ NULL \in Int /\ \A y \in F : NULL < y
  BY AddrNumbers
<1>2. p \in Int /\ p < c /\ (p = NULL \/ p \in F) /\ \A y \in F : y < c => y <= p
  BY <1>1 DEF IsBefore
<1>3. (n = NULL /\ \A y \in F : y <= c) \/ (n \in F /\ c < n /\ \A y \in F : c < y => n <= y)
  BY DEF IsAfter
<1>4. ASSUME NEW a \in F \ {c}, NEW q, IsBefore(F, a, q)
      PROVE  IsBefore(F \ {c}, a, IF a = n THEN p ELSE q)
  <2>1. q \in F \cup {NULL} /\ q < a /\ \A y \in F : y < a => y <= q
    BY <1>4 DEF IsBefore
  <2>2. CASE a = n
    <3>1. p \in (F \ {c}) \cup {NULL}
      BY <1>1, <1>2
    <3>2. p < a
      BY <1>1, <1>2, <1>3, <2>2
    <3>3. \A y \in F \ {c} : y < a => y <= p
      BY <1>1, <1>2, <1>3, <2>2
    <3> QED BY <3>1, <3>2, <3>3, <2>2 DEF IsBefore
  <2>3. CASE a # n
    <3>1. q # c
      <4>1. SUFFICES ASSUME q = c PROVE FALSE
        OBVIOUS
      <4>2. c < a /\ \A y \in F : y < a => y <= c
        BY <4>1, <2>1
      <4>3. ~(a <= c) /\ n \in F /\ c < n /\ n <= a
        BY <4>2, <1>1, <1>3
      <4> QED BY <4>2, <4>3, <1>1, <2>3
    <3> QED BY <3>1, <2>1, <2>3 DEF IsBefore
  <2> QED BY <2>2, <2>3
<1>5. ASSUME NEW a \in F \ {c}, NEW q, IsAfter(F, a, q)
      PROVE  IsAfter(F \ {c}, a, IF a = p THEN n ELSE q)
  <2>1. (q = NULL /\ \A y \in F : y <= a) \/ (q \in F /\ a < q /\ \A y \in F : a < y => q <= y)
    BY <1>5 DEF IsAfter
  <2>2. CASE a = p
    <3>1. n = NULL => \A y \in F \ {c} : y <= a
      BY <1>1, <1>2, <1>3, <2>2
    <3>2. n # NULL => n \in F \ {c} /\ a < n /\ \A y \in F \ {c} : a < y => n <= y
      <4>1. SUFFICES ASSUME n # NULL PROVE n \in F \ {c} /\ a < n /\ \A y \in F \ {c} : a < y => n <= y
        OBVIOUS
      <4>2. n \in F /\ c < n /\ \A y \in F : c < y => n <= y
        BY <4>1, <1>3
      <4>3. ASSUME NEW y \in F \ {c}, a < y PROVE c < y
        <5>1. ~(y < c)
          BY <4>3, <1>1, <1>2, <2>2
        <5> QED BY <5>1, <1>1
      <4> QED BY <4>2, <4>3, <1>1, <1>2, <2>2
    <3> QED BY <3>1, <3>2, <2>2 DEF IsAfter
  <2>3. CASE a # p
    <3>1. q # c
      BY <1>1, <1>2, <2>1, <2>3
    <3> QED BY <3>1, <2>1, <2>3 DEF IsAfter
  <2> QED BY <2>2, <2>3
<1>6. ASSUME NEW q, IsAfter(F, NULL, q)
      PROVE  IsAfter(F \ {c}, NULL, IF p = NULL THEN n ELSE q)
  <2>1. q \in F /\ \A y \in F : q <= y
    <3>1. ~(c <= NULL)
      BY <1>1
    <3> QED BY <1>1, <1>6, <3>1 DEF IsAfter
  <2>2. CASE p = NULL
    <3>1. n = NULL => \A y \in F \ {c} : y <= NULL
      BY <1>1, <1>2, <1>3, <2>2
    <3>2. n # NULL => n \in F \ {c} /\ NULL < n /\ \A y \in F \ {c} : NULL < y => n <= y
      <4>1. SUFFICES ASSUME n # NULL PROVE n \in F \ {c} /\ NULL < n /\ \A y \in F \ {c} : NULL < y => n <= y
        OBVIOUS
      <4>2. n \in F /\ c < n /\ \A y \in F : c < y => n <= y
        BY <4>1, <1>3
      <4>3. \A y \in F \ {c} : NULL < y => c < y
        BY <1>1, <1>2, <2>2
      <4> QED BY <4>2, <4>3, <1>1, <1>2, <2>2
    <3> QED BY <3>1, <3>2, <2>2 DEF IsAfter
  <2>3. CASE p # NULL
    <3>1. q # c
      BY <1>1, <1>2, <2>1, <2>3
    <3> QED BY <3>1, <1>1, <2>1, <2>3 DEF IsAfter
  <2> QED BY <2>2, <2>3
<1> QED BY <1>4, <1>5, <1>6

\* What follows the predecessor of a new block follows that.
LEMMA NextOfLocation ==
    ASSUME NEW F \in SUBSET Addr, NEW c \in Addr, c \notin F, NEW p, NEW n,
           IsBefore(F, c, p), IsAfter(F, p, n)
    PROVE  IsAfter(F, c, n)
<1>1. F \subseteq Int /\ NULL \in Int /\ c \in Int /\ \A y \in F : NULL < y
  BY AddrNumbers
<1>2. p \in Int /\ p < c /\ \A y \in F : y < c => y <= p
  BY <1>1 DEF IsBefore
<1>3. CASE n = NULL /\ \A y \in F : y <= p
  BY <1>1, <1>2, <1>3 DEF IsAfter
<1>4. CASE n \in F /\ p < n /\ \A y \in F : p < y => n <= y
  <2>1. c < n
    <3>1. n \in Int /\ n # c
      BY <1>4, <1>1
    <3>2. ~(n < c)
      BY <1>1, <1>2, <1>4, <3>1
    <3> QED BY <3>1, <3>2, <1>1
  <2>2. \A y \in F : c < y => n <= y
    BY <1>1, <1>2, <1>4
  <2> QED BY <2>1, <2>2, <1>4 DEF IsAfter
<1> QED BY <1>3, <1>4 DEF IsAfter

\* With a block between two, it is the neighbour of each.
LEMMA NeighboursWith ==
    ASSUME NEW F \in SUBSET Addr, NEW c \in Addr, c \notin F, NEW p, NEW n,
           IsBefore(F, c, p), IsAfter(F, c, n)
    PROVE  /\ \A a \in F : \A q : IsBefore(F, a, q) => IsBefore(F \cup {c}, a, IF a = n THEN c ELSE q)
           /\ \A a \in F : \A q : IsAfter(F, a, q) => IsAfter(F \cup {c}, a, IF a = p THEN c ELSE q)
           /\ \A q : IsAfter(F, NULL, q) => IsAfter(F \cup {c}, NULL, IF p = NULL THEN c ELSE q)
           /\ IsBefore(F \cup {c}, c, p) /\ IsAfter(F \cup {c}, c, n)
<1>1. F \subseteq Int /\ NULL \in Int /\ c \in Int /\ NULL < c /\ \A y \in F : NULL < y
  BY AddrNumbers
<1>2. p \in Int /\ p < c /\ (p = NULL \/ p \in F) /\ \A y \in F : y < c => y <= p
  BY <1>1 DEF IsBefore
<1>3. (n = NULL /\ \A y \in F : y <= c) \/ (n \in F /\ c < n /\ \A y \in F : c < y => n <= y)
  BY DEF IsAfter
<1>4. ASSUME NEW a \in F, NEW q, IsBefore(F, a, q)
      PROVE  IsBefore(F \cup {c}, a, IF a = n THEN c ELSE q)
  <2>1. q \in F \cup {NULL} /\ q < a /\ \A y \in F : y < a => y <= q
    BY <1>4 DEF IsBefore
  <2>2. CASE a = n
    <3>1. c < a /\ \A y \in F \cup {c} : y < a => y <= c
      BY <1>1, <1>3, <2>2
    <3> QED BY <3>1, <2>2 DEF IsBefore
  <2>3. CASE a # n
    <3>1. c < a => c <= q
      <4>1. SUFFICES ASSUME c < a PROVE c <= q
        OBVIOUS
      <4>2. n \in F /\ c < n /\ n <= a
        BY <4>1, <1>1, <1>3
      <4>3. n < a
        BY <4>2, <2>3, <1>1
      <4> QED BY <4>2, <4>3, <2>1, <1>1
    <3> QED BY <3>1, <2>1, <2>3 DEF IsBefore
  <2> QED BY <2>2, <2>3
<1>5. ASSUME NEW a \in F, NEW q, IsAfter(F, a, q)
      PROVE  IsAfter(F \cup {c}, a, IF a = p THEN c ELSE q)
  <2>1. (q = NULL /\ \A y \in F : y <= a) \/ (q \in F /\ a < q /\ \A y \in F : a < y => q <= y)
    BY <1>5 DEF IsAfter
  <2>2. CASE a = p
    <3>1. a < c /\ \A y \in F \cup {c} : a < y => c <= y
      BY <1>1, <1>2, <2>2
    <3> QED BY <3>1, <2>2 DEF IsAfter
  <2>3. CASE a # p
    <3>1. a < c => q \in F /\ q <= c
      <4>1. SUFFICES ASSUME a < c PROVE q \in F /\ q <= c
        OBVIOUS
      <4>2. a < p /\ p \in F
        BY <4>1, <1>1, <1>2, <2>3
      <4>3. ~(p <= a)
        BY <4>2, <1>1
      <4>4. q \in F /\ q <= p
        BY <4>2, <4>3, <2>1
      <4> QED BY <4>4, <1>1, <1>2
    <3>2. a \in Int /\ (a < c \/ c < a)
      BY <1>1
    <3> QED BY <3>1, <3>2, <1>1, <2>1, <2>3 DEF IsAfter
  <2> QED BY <2>2, <2>3
<1>6. ASSUME NEW q, IsAfter(F, NULL, q)
      PROVE  IsAfter(F \cup {c}, NULL, IF p = NULL THEN c ELSE q)
  <2>1. (q = NULL /\ \A y \in F : y <= NULL) \/ (q \in F /\ NULL < q /\ \A y \in F : NULL < y => q <= y)
    BY <1>6 DEF IsAfter
  <2>2. CASE p = NULL
    <3>1. \A y \in F \cup {c} : c <= y
      BY <1>1, <1>2, <2>2
    <3> QED BY <3>1, <1>1, <2>2 DEF IsAfter
  <2>3. CASE p # NULL
    <3>1. p \in F /\ NULL < p
      BY <1>1, <1>2, <2>3
    <3>2. q \in F /\ q <= p /\ q <= c
      <4>1. ~(p <= NULL)
        BY <3>1, <1>1
      <4>2. q \in F /\ q <= p
        BY <3>1, <4>1, <2>1
      <4> QED BY <4>2, <1>1, <1>2
    <3> QED BY <3>2, <2>1, <1>1, <2>3 DEF IsAfter
  <2> QED BY <2>2, <2>3
<1>7. IsBefore(F \cup {c}, c, p) /\ IsAfter(F \cup {c}, c, n)
  BY <1>1, <1>2, <1>3 DEF IsBefore, IsAfter
<1> QED BY <1>4, <1>5, <1>6, <1>7


\* pinta_free_remove takes the block off the list and changes nothing but links.
LEMMA RemoveLinks ==
    ASSUME NEW h, HeapType(h), NEW F, OnList(h, F), NEW item \in F,
           NEW g, g = FreeRemove(h, item)
    PROVE  HeapType(g) /\ Relinked(h, g, F \ {item}) /\ OnList(g, F \ {item})
<1> DEFINE p == h.mem[item].prev
           n == h.mem[item].next
           h1 == IF p # NULL THEN SetNext(h, p, n) ELSE [h EXCEPT !.free = n]
<1>1. g = SetPrev(h1, n, p)
  BY DEF FreeRemove
<1>2. /\ p \in F \cup {NULL} /\ n \in F \cup {NULL} /\ p \in Ref /\ n \in Ref
      /\ IsBefore(F, item, p) /\ IsAfter(F, item, n)
      /\ (IsFree(h, p) <=> p # NULL) /\ (IsFree(h, n) <=> n # NULL)
  <2>1. F \subseteq Ref
    BY DEF OnList, Ref
  <2> QED BY <2>1, Neighbours DEF Ref
<1> HIDE DEF p, n
<1>3. /\ HeapType(h1) /\ h1.top = h.top /\ h1.largest = h.largest
      /\ h1.free = IF p = NULL THEN n ELSE h.free
      /\ \A b \in Addr : /\ SameButLinks(h1.mem[b], h.mem[b]) /\ h1.mem[b].prev = h.mem[b].prev
                         /\ h1.mem[b].next = IF b = p THEN n ELSE h.mem[b].next
                         /\ b # p => h1.mem[b] = h.mem[b]
  <2>1. CASE p # NULL
    BY <2>1, <1>2, LinkSet
  <2>2. CASE p = NULL
    <3>1. h1 = [h EXCEPT !.free = n]
      BY <2>2
    <3>2. HeapType(h1) /\ h1.top = h.top /\ h1.largest = h.largest /\ h1.free = n /\ h1.mem = h.mem
      BY <3>1, <1>2 DEF HeapType
    <3>3. \A b \in Addr : b # p
      BY <2>2, AddrNumbers
    <3> QED BY <3>2, <3>3, <2>2 DEF SameButLinks
  <2> QED BY <2>1, <2>2
<1> HIDE DEF h1
<1>4. IsFree(h1, n) <=> n # NULL
  BY <1>2, <1>3 DEF IsFree, SameButLinks
<1>5. /\ HeapType(g) /\ g.top = h.top /\ g.largest = h.largest
      /\ g.free = IF p = NULL THEN n ELSE h.free
      /\ \A b \in Addr : /\ SameButLinks(g.mem[b], h1.mem[b]) /\ g.mem[b].next = h1.mem[b].next
                         /\ g.mem[b].prev = IF b = n THEN p ELSE h1.mem[b].prev
                         /\ b # n => g.mem[b] = h1.mem[b]
  BY <1>1, <1>2, <1>3, <1>4, LinkSet
<1>6. \A b \in Addr : /\ SameButLinks(g.mem[b], h.mem[b])
                      /\ g.mem[b].next = IF b = p THEN n ELSE h.mem[b].next
                      /\ g.mem[b].prev = IF b = n THEN p ELSE h.mem[b].prev
                      /\ b # p /\ b # n => g.mem[b] = h.mem[b]
  BY <1>3, <1>5 DEF SameButLinks
<1>7. F \subseteq Addr /\ F \in SUBSET Addr
  BY DEF OnList
<1>8. p # item /\ n # item
  <2>1. item \in Int
    BY <1>7, AddrNumbers
  <2>2. p < item /\ (n = NULL \/ item < n)
    BY <1>2 DEF IsBefore, IsAfter
  <2> QED BY <2>1, <2>2, <1>7, AddrNumbers
<1>9. \A b \in Addr : b \notin F \ {item} => b # p /\ b # n
  BY <1>2, <1>8, AddrNumbers
<1>10. Relinked(h, g, F \ {item})
  BY <1>5, <1>6, <1>9 DEF Relinked
<1>11. /\ \A a \in F \ {item} : \A q : IsBefore(F, a, q) => IsBefore(F \ {item}, a, IF a = n THEN p ELSE q)
       /\ \A a \in F \ {item} : \A q : IsAfter(F, a, q) => IsAfter(F \ {item}, a, IF a = p THEN n ELSE q)
       /\ \A q : IsAfter(F, NULL, q) => IsAfter(F \ {item}, NULL, IF p = NULL THEN n ELSE q)
  BY <1>2, <1>7, NeighboursWithout
<1>12. ASSUME NEW a \in F \ {item}
       PROVE  IsBefore(F \ {item}, a, g.mem[a].prev) /\ IsAfter(F \ {item}, a, g.mem[a].next)
  <2>1. IsBefore(F, a, h.mem[a].prev) /\ IsAfter(F, a, h.mem[a].next) /\ a \in Addr
    BY <1>7, Neighbours
  <2> QED BY <2>1, <1>6, <1>11
<1>13. IsAfter(F \ {item}, NULL, g.free)
  <2>1. IsAfter(F, NULL, h.free)
    BY DEF OnList
  <2> QED BY <2>1, <1>5, <1>11
<1>14. \A a \in F \ {item} : g.mem[a].kind = "free"
  BY <1>6, <1>7 DEF OnList, SameButLinks
<1>15. OnList(g, F \ {item})
  BY <1>7, <1>12, <1>13, <1>14 DEF OnList, Linked
<1> QED BY <1>5, <1>10, <1>15

\* Slots within the block at a of so many slots, the first excepted.
Within(x, a, len) == a < x /\ x < a + len

\* Heap g is h with the block b written at a: its header at its first slot, data at the others.
IsWritten(h, a, b, g) ==
    /\ HeapType(g) /\ g.top = h.top /\ g.free = h.free /\ g.largest = h.largest
    /\ \A x \in Addr : g.mem[x] = IF x = a THEN b ELSE IF Within(x, a, b.len) THEN Data ELSE h.mem[x]

LEMMA Written ==
    ASSUME NEW h, HeapType(h), NEW a \in Addr, NEW b \in Block, b.kind # "data"
    PROVE  IsWritten(h, a, b, [h EXCEPT !.mem = WriteBlock(h.mem, a, b)])
<1>1. h.mem \in [Addr -> Block] /\ h \in [mem : [Addr -> Block], top : Addr, free : Ref, largest : 0 .. HeapSize]
  BY DEF HeapType
<1> DEFINE m == WriteBlock(h.mem, a, b)
           g == [h EXCEPT !.mem = WriteBlock(h.mem, a, b)]
<1>2. \A x \in Addr : m[x] = IF x = a THEN b ELSE IF Within(x, a, b.len) THEN Data ELSE h.mem[x]
  BY DEF WriteBlock, Within
<1>3. m \in [Addr -> Block]
  BY <1>1, DataIsBlock DEF WriteBlock
<1> HIDE DEF m
<1>4. g = [h EXCEPT !.mem = m]
  BY DEF m
<1>5. /\ g \in [mem : [Addr -> Block], top : Addr, free : Ref, largest : 0 .. HeapSize]
      /\ g.top = h.top /\ g.free = h.free /\ g.largest = h.largest /\ g.mem = m
  BY <1>1, <1>3, <1>4
<1>6. \A x \in Addr : m[x].kind = "data" => m[x] = Data
  BY <1>2, HeapFields, DataIsBlock
<1> HIDE DEF g
<1>7. IsWritten(h, a, b, g)
  BY <1>2, <1>5, <1>6 DEF HeapType, IsWritten
<1> QED BY <1>7 DEF g

\* Heap g is h with a new free block at item on the list of the blocks F.
IsInserted(h, F, item, len, g) ==
    /\ HeapType(g) /\ g.top = h.top /\ g.largest = h.largest /\ OnList(g, F \cup {item})
    /\ g.mem[item].kind = "free" /\ g.mem[item].len = len /\ ~g.mem[item].pinned
    /\ \A x \in Addr : /\ Within(x, item, len) => g.mem[x] = Data
                       /\ x \in F => SameButLinks(g.mem[x], h.mem[x])
                       /\ x \notin F \cup {item} /\ ~Within(x, item, len) => g.mem[x] = h.mem[x]

\* pinta_free_insert_after puts the block on the list, where the blocks of the list are
\* not overwritten.
LEMMA InsertLinks ==
    ASSUME NEW h, HeapType(h), NEW F, OnList(h, F), NEW item \in Addr, item \notin F,
           NEW len \in 1 .. HeapSize, NEW location, IsBefore(F, item, location),
           \A a \in F : ~Within(a, item, len),
           NEW g, g = FreeInsertAfter(h, location, item, len)
    PROVE  IsInserted(h, F, item, len, g)
<1> DEFINE n == IF location = NULL THEN h.free ELSE h.mem[location].next
           h1 == SetPrev(h, n, item)
           h2 == IF location = NULL THEN [h1 EXCEPT !.free = item] ELSE SetNext(h1, location, item)
           b == FreeBlock(len, n, location)
<1>1. g = [h2 EXCEPT !.mem = WriteBlock(@, item, b)]
  BY DEF FreeInsertAfter
<1>2. F \in SUBSET Addr /\ F \subseteq Ref /\ item \in Ref /\ location \in F \cup {NULL} /\ location \in Ref
  BY DEF OnList, Ref, IsBefore
<1>3. IsAfter(F, location, n)
  <2>1. CASE location = NULL
    BY <2>1 DEF OnList
  <2>2. CASE location # NULL
    BY <2>2, <1>2, Neighbours
  <2> QED BY <2>1, <2>2
<1>4. n \in F \cup {NULL} /\ n \in Ref /\ (IsFree(h, n) <=> n # NULL) /\ (IsFree(h, location) <=> location # NULL)
  <2>1. n \in F \cup {NULL}
    BY <1>3 DEF IsAfter
  <2>2. \A x \in F \cup {NULL} : IsFree(h, x) <=> x # NULL
    BY AddrNumbers DEF OnList, IsFree
  <2> QED BY <2>1, <2>2, <1>2 DEF Ref
<1>5. IsAfter(F, item, n)
  BY <1>2, <1>3, NextOfLocation
<1> HIDE DEF n
<1>6. /\ HeapType(h1) /\ h1.top = h.top /\ h1.free = h.free /\ h1.largest = h.largest
      /\ \A x \in Addr : /\ SameButLinks(h1.mem[x], h.mem[x]) /\ h1.mem[x].next = h.mem[x].next
                         /\ h1.mem[x].prev = IF x = n THEN item ELSE h.mem[x].prev
                         /\ x # n => h1.mem[x] = h.mem[x]
  BY <1>2, <1>4, LinkSet
<1> HIDE DEF h1
<1>7. /\ HeapType(h2) /\ h2.top = h.top /\ h2.largest = h.largest
      /\ h2.free = IF location = NULL THEN item ELSE h.free
      /\ \A x \in Addr : /\ SameButLinks(h2.mem[x], h1.mem[x]) /\ h2.mem[x].prev = h1.mem[x].prev
                         /\ h2.mem[x].next = IF x = location THEN item ELSE h1.mem[x].next
                         /\ x # location => h2.mem[x] = h1.mem[x]
  <2>1. CASE location # NULL
    <3>1. IsFree(h1, location) <=> location # NULL
      BY <1>4, <1>6 DEF IsFree, SameButLinks
    <3> QED BY <2>1, <3>1, <1>2, <1>6, LinkSet
  <2>2. CASE location = NULL
    <3>1. h2 = [h1 EXCEPT !.free = item]
      BY <2>2
    <3>2. HeapType(h2) /\ h2.top = h1.top /\ h2.largest = h1.largest /\ h2.free = item /\ h2.mem = h1.mem
      BY <3>1, <1>2, <1>6 DEF HeapType
    <3>3. \A x \in Addr : x # location
      BY <2>2, AddrNumbers
    <3> QED BY <3>2, <3>3, <2>2, <1>6 DEF SameButLinks
  <2> QED BY <2>1, <2>2
<1> HIDE DEF h2
<1>8. b \in Block /\ b.kind = "free" /\ b.len = len /\ b.next = n /\ b.prev = location /\ ~b.pinned
  BY <1>2, <1>4, FreeBlockIs
<1> HIDE DEF b
<1>9. /\ HeapType(g) /\ g.top = h.top /\ g.largest = h.largest
      /\ g.free = IF location = NULL THEN item ELSE h.free
      /\ \A x \in Addr : g.mem[x] = IF x = item THEN b ELSE IF Within(x, item, len) THEN Data ELSE h2.mem[x]
  <2>1. b \in Block /\ b.kind # "data"
    BY <1>8
  <2>3. HeapType(h2)
    BY <1>7
  <2>2. IsWritten(h2, item, b, [h2 EXCEPT !.mem = WriteBlock(h2.mem, item, b)])
    BY <2>1, <2>3, Written
  <2>4. IsWritten(h2, item, b, g)
    BY <1>1, <2>2
  <2> QED BY <2>4, <1>7, <1>8 DEF IsWritten
<1>10. \A x \in Addr : x \in F =>
          /\ SameButLinks(g.mem[x], h.mem[x])
          /\ g.mem[x].next = IF x = location THEN item ELSE h.mem[x].next
          /\ g.mem[x].prev = IF x = n THEN item ELSE h.mem[x].prev
  <2>1. \A x \in Addr : x \in F => g.mem[x] = h2.mem[x]
    BY <1>9
  <2> QED BY <2>1, <1>6, <1>7 DEF SameButLinks
<1>11. \A x \in Addr : x \notin F \cup {item} /\ ~Within(x, item, len) => g.mem[x] = h.mem[x]
  <2>1. \A x \in Addr : x \notin F => x # n /\ x # location
    BY <1>2, <1>4, AddrNumbers
  <2> QED BY <2>1, <1>6, <1>7, <1>9
<1>12. ~Within(item, item, len)
  BY AddrNumbers DEF Within
<1>13. /\ \A a \in F : \A q : IsBefore(F, a, q) => IsBefore(F \cup {item}, a, IF a = n THEN item ELSE q)
       /\ \A a \in F : \A q : IsAfter(F, a, q) => IsAfter(F \cup {item}, a, IF a = location THEN item ELSE q)
       /\ \A q : IsAfter(F, NULL, q) => IsAfter(F \cup {item}, NULL, IF location = NULL THEN item ELSE q)
       /\ IsBefore(F \cup {item}, item, location) /\ IsAfter(F \cup {item}, item, n)
  BY <1>2, <1>5, NeighboursWith
<1>14. ASSUME NEW a \in F \cup {item}
       PROVE  IsBefore(F \cup {item}, a, g.mem[a].prev) /\ IsAfter(F \cup {item}, a, g.mem[a].next)
  <2>1. CASE a = item
    BY <2>1, <1>8, <1>9, <1>13
  <2>2. CASE a \in F
    <3>1. IsBefore(F, a, h.mem[a].prev) /\ IsAfter(F, a, h.mem[a].next) /\ a \in Addr
      BY <2>2, <1>2, Neighbours
    <3> QED BY <2>2, <3>1, <1>10, <1>13
  <2> QED BY <2>1, <2>2
<1>15. IsAfter(F \cup {item}, NULL, g.free)
  <2>1. IsAfter(F, NULL, h.free)
    BY DEF OnList
  <2> QED BY <2>1, <1>9, <1>13
<1>16. \A a \in F \cup {item} : g.mem[a].kind = "free" /\ a \in Addr
  BY <1>2, <1>8, <1>9, <1>10 DEF OnList, SameButLinks
<1>17. OnList(g, F \cup {item})
  BY <1>14, <1>15, <1>16 DEF OnList, Linked
<1>18. \A x \in Addr : Within(x, item, len) => g.mem[x] = Data
  BY <1>9, <1>12
<1>19. g.mem[item].kind = "free" /\ g.mem[item].len = len /\ ~g.mem[item].pinned
  BY <1>8, <1>9
<1>20. \A x \in Addr : x \in F => SameButLinks(g.mem[x], h.mem[x])
  BY <1>10
<1> QED BY <1>9, <1>11, <1>17, <1>18, <1>19, <1>20 DEF IsInserted


-----------------------------------------------------------------------------
(* Blocks cut anew *)

\* A heap of the same kinds and lengths has the same blocks.
LEMMA SameBlocks ==
    ASSUME NEW h, HeapType(h), Tiled(h), NEW g, HeapType(g), g.top = h.top,
           \A x \in Addr : g.mem[x].kind = h.mem[x].kind /\ g.mem[x].len = h.mem[x].len
    PROVE  /\ Tiled(g) /\ Blocks(g) = Blocks(h) /\ Bounds(g) = Bounds(h)
           /\ FreeBlocks(g) = FreeBlocks(h) /\ Objects(g) = Objects(h)
           /\ \A x \in Addr : After(g, x) = After(h, x)
<1>1. Blocks(g) = Blocks(h)
  BY BlocksAre
<1>2. \A x \in Addr : After(g, x) = After(h, x)
  BY DEF After
<1>3. Blocks(h) \subseteq Addr
  BY DEF Blocks
<1>4. Tiled(g)
  BY <1>1, <1>2, <1>3 DEF Tiled
<1>5. FreeBlocks(g) = FreeBlocks(h) /\ Objects(g) = Objects(h)
  BY DEF FreeBlocks, Objects, InUse, IsObject
<1> QED BY <1>1, <1>2, <1>4, <1>5 DEF Bounds

\* Between two bounds of h, p and e, heap g has a block up to m, and another from there
\* on unless m is e; elsewhere it has the blocks h has.
Recut(h, g, p, m, e) ==
    /\ p \in Blocks(h) /\ e \in Bounds(h) /\ m \in Int /\ p < m /\ m <= e
    /\ g.top = h.top
    /\ \A x \in Addr : x < p \/ e <= x => g.mem[x].kind = h.mem[x].kind /\ g.mem[x].len = h.mem[x].len
    /\ \A x \in Addr : p < x /\ x < e /\ x # m => g.mem[x].kind = "data"
    /\ g.mem[p].kind # "data" /\ g.mem[p].len = m - p
    /\ m < e => g.mem[m].kind # "data" /\ g.mem[m].len = e - m

LEMMA RecutTiles ==
    ASSUME NEW h, HeapType(h), Tiled(h), NEW g, HeapType(g), NEW p, NEW m, NEW e, Recut(h, g, p, m, e)
    PROVE  /\ Tiled(g)
           /\ \A x : x \in Blocks(g) <=> x = p \/ (x = m /\ m < e) \/ (x \in Blocks(h) /\ (x < p \/ e <= x))
           /\ After(g, p) = m /\ (m < e => After(g, m) = e)
           /\ \A x \in Blocks(h) : x < p \/ e <= x => After(g, x) = After(h, x)
           /\ \A x \in Blocks(h) : x < p => After(g, x) <= p
<1>1. /\ p \in Addr /\ p \in Int /\ m \in Int /\ e \in Int /\ p < m /\ m <= e /\ e <= h.top /\ e \in Bounds(h)
      /\ p \in Blocks(h) /\ p \in Bounds(h) /\ h.top \in Int /\ 0 <= p /\ 0 < h.top /\ h.top < HeapSize /\ HeapSize \in Int
  <2>1. e \in Addr /\ h.top \in Addr /\ p \in Addr
    BY Tiles, HeapFields DEF Recut, Bounds
  <2>2. p \in Int /\ e \in Int /\ h.top \in Int /\ 0 <= p /\ h.top < HeapSize /\ HeapSize \in Int
    BY <2>1, AddrNumbers
  <2>3. p \in Blocks(h) /\ e \in Bounds(h) /\ m \in Int /\ p < m /\ m <= e
    BY DEF Recut
  <2>4. p \in Bounds(h)
    BY <2>3 DEF Bounds
  <2>5. e <= h.top /\ p < After(h, p) /\ After(h, p) <= h.top
    BY <2>3, Tiles
  <2>6. p < h.top
    BY <2>3 DEF Blocks
  <2> QED BY <2>1, <2>2, <2>3, <2>4, <2>5, <2>6
<1>2. m < e => m \in Addr
  BY <1>1 DEF Addr
<1>3. ASSUME NEW x PROVE x \in Blocks(g) <=> x = p \/ (x = m /\ m < e) \/ (x \in Blocks(h) /\ (x < p \/ e <= x))
  <2>1. x \in Blocks(g) <=> x \in Addr /\ x < g.top /\ g.mem[x].kind # "data"
    BY BlocksAre
  <2>2. x \in Blocks(h) <=> x \in Addr /\ x < h.top /\ h.mem[x].kind # "data"
    BY BlocksAre
  <2>3. x \in Addr => x \in Int
    BY AddrNumbers
  <2>4. g.top = h.top
    BY DEF Recut
  <2>5. CASE x \in Addr /\ (x < p \/ e <= x)
    <3>1. g.mem[x].kind = h.mem[x].kind /\ x # p /\ ~(x = m /\ m < e)
      BY <2>5, <2>3, <1>1 DEF Recut
    <3> QED BY <3>1, <2>1, <2>2, <2>4, <2>5
  <2>6. CASE x \in Addr /\ p < x /\ x < e /\ x # m
    <3>1. g.mem[x].kind = "data" /\ x # p /\ ~(x < p) /\ ~(e <= x)
      BY <2>6, <2>3, <1>1 DEF Recut
    <3> QED BY <3>1, <2>1, <2>6
  <2>7. CASE x = p
    <3>1. g.mem[x].kind # "data" /\ x < h.top
      BY <2>7, <1>1 DEF Recut
    <3> QED BY <3>1, <2>1, <2>4, <2>7, <1>1
  <2>8. CASE x = m /\ m < e
    <3>1. g.mem[x].kind # "data" /\ x < h.top
      BY <2>8, <1>1 DEF Recut
    <3> QED BY <3>1, <2>1, <2>4, <2>8, <1>2
  <2>9. CASE x \notin Addr
    BY <2>1, <2>2, <2>9, <1>1, <1>2
  <2> QED BY <2>3, <2>5, <2>6, <2>7, <2>8, <2>9, <1>1
<1>4. After(g, p) = m /\ (m < e => After(g, m) = e)
  <2>1. p + (m - p) = m /\ m + (e - m) = e
    BY <1>1
  <2> QED BY <2>1 DEF After, Recut
<1>5. ASSUME NEW x \in Blocks(h), x < p \/ e <= x PROVE After(g, x) = After(h, x)
  <2>1. x \in Addr
    BY DEF Blocks
  <2> QED BY <2>1, <1>5 DEF After, Recut
<1>6. \A x \in Blocks(h) : x \in Int /\ After(h, x) \in Int /\ x < After(h, x)
  BY Tiles
<1>7. \A x \in Blocks(h) : x < p => After(h, x) <= p
  BY <1>1, Tiles
<1>8. \A x \in Blocks(h) : After(h, x) \in Bounds(h)
  BY Tiles
<1>9. \A x \in Bounds(h) : e <= x => x = g.top \/ x \in Blocks(g)
  <2>1. g.top = h.top
    BY DEF Recut
  <2> QED BY <2>1, <1>3, Tiles
<1>10. ASSUME NEW a \in Blocks(g) PROVE After(g, a) = g.top \/ After(g, a) \in Blocks(g)
  <2>1. CASE a = p
    BY <2>1, <1>1, <1>3, <1>4, <1>9
  <2>2. CASE a = m /\ m < e
    BY <2>2, <1>1, <1>4, <1>9
  <2>3. CASE a \in Blocks(h) /\ a < p
    <3>1. After(g, a) = After(h, a) /\ After(h, a) <= p /\ After(h, a) \in Bounds(h) /\ After(h, a) \in Int
      BY <2>3, <1>5, <1>6, <1>7, <1>8
    <3>2. CASE After(h, a) = p
      BY <3>1, <3>2, <1>3
    <3>3. CASE After(h, a) < p
      <4>1. After(h, a) \in Blocks(h)
        BY <3>1, <3>3, <1>1, Tiles
      <4> QED BY <4>1, <3>1, <3>3, <1>3
    <3> QED BY <3>1, <3>2, <3>3, <1>1
  <2>4. CASE a \in Blocks(h) /\ e <= a
    <3>1. After(g, a) = After(h, a) /\ After(h, a) \in Bounds(h)
      BY <2>4, <1>5, <1>8
    <3>2. e <= After(h, a)
      BY <2>4, <1>1, <1>6
    <3> QED BY <3>1, <3>2, <1>9
  <2> QED BY <2>1, <2>2, <2>3, <2>4, <1>3
<1>11. ASSUME NEW a \in Blocks(g), NEW b \in Blocks(g), a < b PROVE After(g, a) <= b
  <2>1. b = p \/ (b = m /\ m < e) \/ (b \in Blocks(h) /\ b < p) \/ (b \in Blocks(h) /\ e <= b)
    BY <1>3
  <2>2. CASE a = p
    BY <2>1, <2>2, <1>1, <1>4, <1>6, <1>11
  <2>3. CASE a = m /\ m < e
    BY <2>1, <2>3, <1>1, <1>4, <1>6, <1>11
  <2>4. CASE a \in Blocks(h) /\ a < p
    <3>1. After(g, a) = After(h, a) /\ After(h, a) <= p /\ After(h, a) \in Int
      BY <2>4, <1>5, <1>6, <1>7
    <3>2. CASE b \in Blocks(h)
      BY <3>1, <3>2, <2>4, <1>11 DEF Tiled
    <3>3. CASE b \notin Blocks(h)
      BY <3>1, <3>3, <2>1, <1>1
    <3> QED BY <3>2, <3>3
  <2>5. CASE a \in Blocks(h) /\ e <= a
    <3>1. After(g, a) = After(h, a) /\ a \in Int
      BY <2>5, <1>5, <1>6
    <3>2. b \in Blocks(h)
      BY <2>1, <2>5, <3>1, <1>1, <1>11
    <3> QED BY <3>1, <3>2, <2>5, <1>11 DEF Tiled
  <2> QED BY <2>2, <2>3, <2>4, <2>5, <1>3
<1>12. g.top > 0 => 0 \in Blocks(g)
  <2>1. 0 \in Bounds(h) /\ 0 \in Blocks(h)
    BY <1>1, Tiles
  <2>2. 0 < p \/ 0 = p
    BY <1>1
  <2> QED BY <2>1, <2>2, <1>3
<1>13. Tiled(g)
  BY <1>10, <1>11, <1>12 DEF Tiled
<1> QED BY <1>3, <1>4, <1>5, <1>7, <1>13


\* Below a bound the blocks are tiled too.
LEMMA TruncatedTiles ==
    ASSUME NEW h, HeapType(h), Tiled(h), NEW top \in Bounds(h), NEW g, HeapType(g),
           g.mem = h.mem, g.top = top
    PROVE  /\ Tiled(g)
           /\ \A x : x \in Blocks(g) <=> x \in Blocks(h) /\ x < top
           /\ \A x : x \in FreeBlocks(g) <=> x \in FreeBlocks(h) /\ x < top
           /\ \A x : x \in Objects(g) <=> x \in Objects(h) /\ x < top
           /\ \A x : After(g, x) = After(h, x)
<1>1. top <= h.top /\ top \in Int /\ 0 <= top /\ h.top \in Int
  BY Tiles DEF Bounds
<1>2. \A x \in Addr : x \in Int
  BY AddrNumbers
<1>3. \A x : x \in Blocks(g) <=> x \in Blocks(h) /\ x < top
  BY <1>1, <1>2 DEF Blocks
<1>4. \A x : x \in FreeBlocks(g) <=> x \in FreeBlocks(h) /\ x < top
  BY <1>1, <1>2 DEF FreeBlocks
<1>5. \A x : x \in Objects(g) <=> x \in Objects(h) /\ x < top
  BY <1>1, <1>2 DEF Objects, InUse, IsObject
<1>6. \A x : After(g, x) = After(h, x)
  BY DEF After
<1>7. ASSUME NEW a \in Blocks(g) PROVE After(g, a) = g.top \/ After(g, a) \in Blocks(g)
  <2>1. a \in Blocks(h) /\ a < top
    BY <1>3
  <2>2. After(h, a) <= top /\ After(h, a) \in Bounds(h) /\ After(h, a) \in Int
    BY <2>1, Tiles
  <2>3. CASE After(h, a) < top
    <3>1. After(h, a) # h.top
      BY <2>2, <2>3, <1>1
    <3> QED BY <2>2, <2>3, <3>1, <1>3, <1>6, Tiles
  <2>4. CASE After(h, a) = top
    BY <2>4, <1>6
  <2> QED BY <2>2, <2>3, <2>4, <1>1
<1>8. g.top > 0 => 0 \in Blocks(g)
  <2>1. SUFFICES ASSUME 0 < top PROVE 0 \in Blocks(g)
    BY <1>1
  <2>2. 0 \in Bounds(h) /\ 0 # h.top
    BY <2>1, <1>1, Tiles
  <2> QED BY <2>1, <2>2, <1>3, Tiles
<1>9. \A a, b \in Blocks(g) : a < b => After(g, a) <= b
  BY <1>3, <1>6 DEF Tiled
<1> QED BY <1>3, <1>4, <1>5, <1>6, <1>7, <1>8, <1>9 DEF Tiled

\* A block more at the top.
LEMMA ExtendedTiles ==
    ASSUME NEW h, HeapType(h), Tiled(h), NEW g, HeapType(g), g.top = After(g, h.top),
           g.mem[h.top].kind # "data",
           \A x \in Addr : x < h.top => g.mem[x] = h.mem[x],
           \A x \in Addr : Within(x, h.top, g.mem[h.top].len) => g.mem[x] = Data
    PROVE  /\ Tiled(g)
           /\ \A x : x \in Blocks(g) <=> x \in Blocks(h) \/ x = h.top
           /\ \A x \in Blocks(h) : After(g, x) = After(h, x) /\ g.mem[x] = h.mem[x]
<1>1. h.top \in Addr /\ h.top \in Int /\ 0 <= h.top /\ g.top \in Int /\ h.top < g.top
  <2>1. h.top \in Addr /\ g.top \in Addr
    BY HeapFields
  <2>2. g.mem[h.top].len \in Int /\ 1 <= g.mem[h.top].len
    BY <2>1, HeapFields, BlockFields
  <2>3. g.top = h.top + g.mem[h.top].len
    BY DEF After
  <2>4. h.top \in Int /\ 0 <= h.top
    BY <2>1, AddrNumbers
  <2> QED BY <2>1, <2>2, <2>3, <2>4
<1>2. ASSUME NEW x PROVE x \in Blocks(g) <=> x \in Blocks(h) \/ x = h.top
  <2>1. x \in Blocks(g) <=> x \in Addr /\ x < g.top /\ g.mem[x].kind # "data"
    BY BlocksAre
  <2>2. x \in Blocks(h) <=> x \in Addr /\ x < h.top /\ h.mem[x].kind # "data"
    BY BlocksAre
  <2>3. x \in Addr => x \in Int
    BY AddrNumbers
  <2>4. CASE x \in Addr /\ x < h.top
    BY <2>1, <2>2, <2>3, <2>4, <1>1
  <2>5. CASE x = h.top
    BY <2>1, <2>5, <1>1
  <2>6. CASE x \in Addr /\ h.top < x
    <3>1. x < g.top => Within(x, h.top, g.mem[h.top].len)
      BY <2>6 DEF Within, After
    <3>2. ~(x \in Blocks(g))
      BY <3>1, <2>1, <2>6, DataIsBlock
    <3> QED BY <3>2, <2>2, <2>3, <2>6, <1>1
  <2> QED BY <2>1, <2>2, <2>3, <2>4, <2>5, <2>6, <1>1
<1>3. ASSUME NEW x \in Blocks(h) PROVE After(g, x) = After(h, x) /\ g.mem[x] = h.mem[x]
  BY DEF Blocks, After
<1>4. \A x \in Blocks(h) : /\ x \in Int /\ After(h, x) \in Int /\ x < h.top /\ After(h, x) <= h.top
                           /\ After(h, x) = h.top \/ After(h, x) \in Blocks(h)
  <2>1. \A x \in Blocks(h) : x < h.top
    BY DEF Blocks
  <2> QED BY <2>1, Tiles DEF Tiled
<1>5. ASSUME NEW a \in Blocks(g) PROVE After(g, a) = g.top \/ After(g, a) \in Blocks(g)
  BY <1>2, <1>3, <1>4
<1>6. ASSUME NEW a \in Blocks(g), NEW b \in Blocks(g), a < b PROVE After(g, a) <= b
  <2>1. CASE a \in Blocks(h) /\ b \in Blocks(h)
    BY <2>1, <1>3, <1>6 DEF Tiled
  <2>2. CASE a \in Blocks(h) /\ b = h.top
    BY <2>2, <1>3, <1>4
  <2>3. CASE a = h.top
    BY <2>3, <1>2, <1>4, <1>1, <1>6
  <2> QED BY <2>1, <2>2, <2>3, <1>2
<1>7. 0 \in Blocks(g)
  BY <1>1, <1>2 DEF Tiled
<1> QED BY <1>2, <1>3, <1>5, <1>6, <1>7 DEF Tiled

-----------------------------------------------------------------------------
(* What a walk along the free list finds *)

\* A heap between two operations on it.
Sound(h) == HeapType(h) /\ Tiled(h) /\ OnList(h, FreeBlocks(h))

\* The list is met block by block.
LEMMA FreeAtSteps ==
    ASSUME NEW h, HeapType(h)
    PROVE  /\ FreeAt(h, 0) = h.free
           /\ \A k \in Nat : FreeAt(h, k) \in Ref
           /\ \A k \in Nat : FreeAt(h, k + 1) = IF IsFree(h, FreeAt(h, k)) THEN h.mem[FreeAt(h, k)].next ELSE NULL
<1> DEFINE after == [a \in Ref |-> IF IsFree(h, a) THEN h.mem[a].next ELSE NULL]
           at == CHOOSE f : f = [n \in Nat |-> IF n = 0 THEN h.free ELSE after[f[n - 1]]]
<1>1. \A k : FreeAt(h, k) = at[k]
  BY DEF FreeAt
<1>2. \A a \in Ref : after[a] = IF IsFree(h, a) THEN h.mem[a].next ELSE NULL
  OBVIOUS
<1>3. after \in [Ref -> Ref]
  <2>1. \A a \in Ref : IsFree(h, a) => h.mem[a].next \in Ref
    BY HeapFields, BlockFields DEF IsFree
  <2>2. NULL \in Ref
    BY DEF Ref
  <2> QED BY <2>1, <2>2
<1>4. h.free \in Ref
  BY HeapFields
<1> HIDE DEF after
<1>5. \E f \in [Nat -> Ref] : f = [n \in Nat |-> IF n = 0 THEN h.free ELSE after[f[n - 1]]]
  <2>1. \E f \in [Nat -> Ref] : Iterates(f, h.free, after)
    BY <1>3, <1>4, Iteration
  <2> QED BY <2>1 DEF Iterates
<1>6. at = [n \in Nat |-> IF n = 0 THEN h.free ELSE after[at[n - 1]]]
  BY <1>5
<1> HIDE DEF at
<1>7. at[0] = h.free
  BY <1>6
<1>8. ASSUME NEW k \in Nat PROVE at[k + 1] = after[at[k]]
  <2>1. k + 1 \in Nat /\ k + 1 # 0 /\ (k + 1) - 1 = k
    OBVIOUS
  <2> QED BY <2>1, <1>6
<1>9. \A k \in Nat : at[k] \in Ref
  <2> DEFINE T == {k \in Nat : at[k] \in Ref}
  <2>1. 0 \in T
    BY <1>4, <1>7
  <2>2. \A k \in Nat : k \in T => k + 1 \in T
    BY <1>3, <1>8
  <2>3. Nat \subseteq T
    <3> HIDE DEF T
    <3> QED BY <2>1, <2>2, FromZero
  <2> QED BY <2>3
<1> QED BY <1>1, <1>2, <1>4, <1>7, <1>8, <1>9

\* The k-th block of the list lies k slots or more above the start.
LEMMA FreeAtRises ==
    ASSUME NEW h, HeapType(h), NEW F, OnList(h, F)
    PROVE  \A k \in Nat : /\ FreeAt(h, k) \in F \cup {NULL}
                          /\ FreeAt(h, k) = NULL \/ k <= FreeAt(h, k)
                          /\ FreeAt(h, k) # NULL => IsAfter(F, FreeAt(h, k), FreeAt(h, k + 1))
                          /\ FreeAt(h, k) = NULL => FreeAt(h, k + 1) = NULL
<1> DEFINE T == {k \in Nat : FreeAt(h, k) \in F \cup {NULL} /\ (FreeAt(h, k) = NULL \/ k <= FreeAt(h, k))}
<1>1. F \subseteq Addr /\ F \subseteq Int /\ NULL \notin F /\ \A a \in F : 0 <= a
  BY AddrNumbers DEF OnList
<1>2. \A x \in F \cup {NULL} : IsFree(h, x) <=> x # NULL
  BY AddrNumbers DEF OnList, IsFree
<1>3. \A a \in F : IsAfter(F, a, h.mem[a].next)
  BY DEF OnList, Linked
<1>4. 0 \in T
  <2>1. h.free \in F \cup {NULL}
    BY DEF OnList, IsAfter
  <2> QED BY <2>1, <1>1, FreeAtSteps
<1>5. ASSUME NEW k \in Nat, FreeAt(h, k) \in F \cup {NULL}
      PROVE  /\ FreeAt(h, k) # NULL => IsAfter(F, FreeAt(h, k), FreeAt(h, k + 1))
             /\ FreeAt(h, k) = NULL => FreeAt(h, k + 1) = NULL
  BY <1>2, <1>3, <1>5, FreeAtSteps
<1>6. ASSUME NEW k \in Nat, k \in T PROVE k + 1 \in T
  <2>1. CASE FreeAt(h, k) = NULL
    BY <2>1, <1>5
  <2>2. CASE FreeAt(h, k) # NULL
    <3>1. FreeAt(h, k) \in F /\ k <= FreeAt(h, k) /\ IsAfter(F, FreeAt(h, k), FreeAt(h, k + 1))
      BY <2>2, <1>5, <1>6
    <3>2. FreeAt(h, k + 1) = NULL \/ (FreeAt(h, k + 1) \in F /\ FreeAt(h, k) < FreeAt(h, k + 1))
      BY <3>1 DEF IsAfter
    <3> DEFINE x == FreeAt(h, k)
               y == FreeAt(h, k + 1)
    <3>3. x \in F /\ k <= x /\ (y = NULL \/ (y \in F /\ x < y))
      BY <3>1, <3>2
    <3>4. y \in F \cup {NULL} /\ (y = NULL \/ k + 1 <= y)
      <4> HIDE DEF x, y
      <4>1. x \in Int /\ (y \in F => y \in Int)
        BY <3>3, <1>1
      <4>2. y \in F => k + 1 <= y
        BY <3>3, <4>1, <1>1
      <4> QED BY <3>3, <4>2
    <3> QED BY <3>4
  <2> QED BY <2>1, <2>2
<1>7. Nat \subseteq T
  <2> HIDE DEF T
  <2> QED BY <1>4, <1>6, FromZero
<1> QED BY <1>5, <1>7

\* Every block of the list is met, and before it only those below it.
LEMMA FreeAtReaches ==
    ASSUME NEW h, HeapType(h), NEW F, OnList(h, F), NEW a \in F
    PROVE  \E k \in 0 .. HeapSize : /\ FreeAt(h, k) = a
                                    /\ \A j \in 0 .. HeapSize : j < k => FreeAt(h, j) \in F /\ FreeAt(h, j) < a
<1>1. F \subseteq Addr /\ F \subseteq Int /\ NULL \notin F /\ NULL \in Int /\ \A x \in F : NULL < x /\ x < HeapSize
  <2>1. F \subseteq Addr
    BY DEF OnList
  <2>2. \A x \in Addr : x \in Int /\ NULL < x /\ x < HeapSize
    BY AddrNumbers
  <2> QED BY <2>1, <2>2, AddrNumbers
<1> DEFINE T == {k \in Nat : FreeAt(h, k) = NULL \/ a <= FreeAt(h, k)}
<1>2. HeapSize \in T
  <2>1. HeapSize \in Nat
    BY HeapSizeAssumption
  <2> DEFINE x == FreeAt(h, HeapSize)
  <2>2. x \in F \cup {NULL} /\ (x = NULL \/ HeapSize <= x)
    BY <2>1, FreeAtRises
  <2>3. x = NULL
    <3> HIDE DEF x
    <3> QED BY <2>1, <2>2, <1>1
  <2> QED BY <2>1, <2>3
<1>3. PICK k \in T : \A j \in T : k <= j
  <2>1. T \in SUBSET Nat /\ T # {}
    BY <1>2
  <2> HIDE DEF T
  <2> QED BY <2>1, LeastExists
<1>4. k \in Nat /\ k \in 0 .. HeapSize /\ (FreeAt(h, k) = NULL \/ a <= FreeAt(h, k))
  <2>1. k <= HeapSize
    BY <1>2, <1>3
  <2> QED BY <2>1, <1>3, HeapSizeAssumption
<1>5. ASSUME NEW j \in Nat, j < k PROVE FreeAt(h, j) \in F /\ FreeAt(h, j) < a
  <2>1. j \notin T
    BY <1>3, <1>4, <1>5
  <2> DEFINE x == FreeAt(h, j)
  <2>2. x \in F \cup {NULL}
    BY FreeAtRises
  <2>3. ~(x = NULL \/ a <= x)
    BY <2>1
  <2>4. x \in F /\ x < a
    <3> HIDE DEF x
    <3> QED BY <2>2, <2>3, <1>1
  <2> QED BY <2>4
<1>6. FreeAt(h, k) = a
  <2>1. CASE k = 0
    <3>1. IsAfter(F, NULL, FreeAt(h, k))
      BY <2>1, FreeAtSteps DEF OnList
    <3>2. ~(a <= NULL)
      BY <1>1
    <3>3. FreeAt(h, k) \in F /\ FreeAt(h, k) <= a
      BY <3>1, <3>2, <1>1 DEF IsAfter
    <3> DEFINE x == FreeAt(h, k)
    <3>4. x \in F /\ x <= a /\ (x = NULL \/ a <= x)
      BY <3>3, <1>4
    <3>5. x = a
      <4> HIDE DEF x
      <4> QED BY <3>4, <1>1
    <3> QED BY <3>5
  <2>2. CASE k # 0
    <3> DEFINE b == FreeAt(h, k - 1)
    <3>1. k - 1 \in Nat /\ k - 1 < k /\ (k - 1) + 1 = k
      BY <2>2, <1>4
    <3>2. b \in F /\ b < a
      BY <3>1, <1>5
    <3>3. IsAfter(F, b, FreeAt(h, k))
      <4>1. b # NULL
        BY <3>2, <1>1
      <4> QED BY <3>1, <4>1, FreeAtRises
    <3> HIDE DEF b
    <3>4. ~(a <= b)
      BY <3>2, <1>1
    <3>5. FreeAt(h, k) \in F /\ FreeAt(h, k) <= a
      BY <3>2, <3>3, <3>4 DEF IsAfter
    <3> DEFINE x == FreeAt(h, k)
    <3>6. x \in F /\ x <= a /\ (x = NULL \/ a <= x)
      BY <3>5, <1>4
    <3>7. x = a
      <4> HIDE DEF x
      <4> QED BY <3>6, <1>1
    <3> QED BY <3>7
  <2> QED BY <2>1, <2>2
<1> QED BY <1>4, <1>5, <1>6

\* So the walk meets the blocks of the list.
LEMMA FreeSetIs ==
    ASSUME NEW h, HeapType(h), NEW F, OnList(h, F)
    PROVE  FreeSet(h) = F
<1>1. NULL \notin F
  BY AddrNumbers DEF OnList
<1>2. 0 .. HeapSize \subseteq Nat
  BY HeapSizeAssumption
<1>3. \A k \in 0 .. HeapSize : FreeAt(h, k) \in F \cup {NULL}
  BY <1>2, FreeAtRises
<1>4. \A a \in F : \E k \in 0 .. HeapSize : FreeAt(h, k) = a
  BY FreeAtReaches
<1> QED BY <1>1, <1>3, <1>4 DEF FreeSet

\* And finds the lowest block that is one of those looked for.
LEMMA FirstFreeIs ==
    ASSUME NEW h, HeapType(h), NEW F, OnList(h, F), NEW fits \in SUBSET Addr
    PROVE  \/ FirstFree(h, fits) = NULL /\ F \cap fits = {}
           \/ FirstFree(h, fits) \in F \cap fits /\ \A b \in F \cap fits : FirstFree(h, fits) <= b
<1> DEFINE list == [k \in 0 .. HeapSize |-> FreeAt(h, k)]
           hits == {k \in 0 .. HeapSize : list[k] \in fits}
<1>1. F \subseteq Int /\ NULL \notin fits /\ NULL \notin F
  BY AddrNumbers DEF OnList
<1>2. hits \in SUBSET Nat /\ hits \subseteq 0 .. HeapSize
  BY HeapSizeAssumption
<1>3. FirstFree(h, fits) = IF hits = {} THEN NULL ELSE list[Min(hits)]
  BY DEF FirstFree
<1>4. \A k \in hits : list[k] = FreeAt(h, k) /\ FreeAt(h, k) \in F \cap fits
  <2>1. \A k \in 0 .. HeapSize : FreeAt(h, k) \in F \cup {NULL}
    BY HeapSizeAssumption, FreeAtRises
  <2> QED BY <2>1, <1>1
<1>5. \A a \in F \cap fits : \E k \in hits : FreeAt(h, k) = a /\ \A j \in 0 .. HeapSize : j < k => FreeAt(h, j) < a
  BY FreeAtReaches
<1> HIDE DEF list, hits
<1>6. CASE hits = {}
  BY <1>3, <1>5, <1>6
<1>7. CASE hits # {}
  <2>1. \E k \in hits : \A j \in hits : k <= j
    BY <1>2, <1>7, LeastExists
  <2> DEFINE m == Min(hits)
  <2>2. m \in hits /\ \A j \in hits : m <= j
    BY <2>1 DEF Min
  <2> HIDE DEF m
  <2>3. FirstFree(h, fits) = FreeAt(h, m) /\ FreeAt(h, m) \in F \cap fits
    BY <1>3, <1>4, <1>7, <2>2 DEF m
  <2>4. ASSUME NEW b \in F \cap fits PROVE FreeAt(h, m) <= b
    <3>1. PICK k \in hits : FreeAt(h, k) = b /\ \A j \in 0 .. HeapSize : j < k => FreeAt(h, j) < b
      BY <1>5
    <3>2. m = k \/ m < k
      BY <2>2, <1>2
    <3>3. m = k => FreeAt(h, m) = b
      BY <3>1
    <3>4. m \in 0 .. HeapSize
      BY <2>2, <1>2
    <3>5. m < k => FreeAt(h, m) < b
      BY <3>1, <3>4
    <3> DEFINE x == FreeAt(h, m)
    <3>6. x \in Int /\ b \in Int /\ (x = b \/ x < b)
      BY <3>2, <3>3, <3>5, <2>3, <1>1
    <3>7. x <= b
      <4> HIDE DEF x
      <4> QED BY <3>6
    <3> QED BY <3>7
  <2> QED BY <2>3, <2>4
<1> QED BY <1>6, <1>7


-----------------------------------------------------------------------------
(* A heap at rest *)

\* No two free blocks touch.
Merged(h) == \A a \in FreeBlocks(h) : After(h, a) \notin FreeBlocks(h)

\* An object ends at top, if there is anything below it.
TopEnds(h) == h.top = 0 \/ \E a \in Objects(h) : After(h, a) = h.top

\* The hint is no less than any free block.
Hinted(h) == \A a \in FreeBlocks(h) : h.mem[a].len <= h.largest

\* A heap at which neither the sweep nor the compactor is at work.  A compaction around
\* pinned objects may leave free blocks that touch.
Rested(h) == Sound(h) /\ TopEnds(h) /\ Hinted(h)
Settled(h) == Rested(h) /\ Merged(h)

\* Heap g, made of h, is at rest, and merged if h was.
Settles(h, g) == Rested(g) /\ (Merged(h) => Merged(g))

\* The free blocks are linked in order, and the list has all of them.
LEMMA SoundIsOrdered ==
    ASSUME NEW h, Sound(h)
    PROVE  /\ FreeListOrdered(h)
           /\ FreeSet(h) = FreeBlocks(h) /\ FreeBlocks(h) = {a \in Blocks(h) : IsFree(h, a)}
<1> DEFINE F == FreeBlocks(h)
<1>1. HeapType(h) /\ OnList(h, F)
  BY DEF Sound
<1>2. F = {a \in Blocks(h) : IsFree(h, a)}
  BY <1>1, BlocksAre
<1>3. F \subseteq Addr /\ F \subseteq Int /\ NULL \notin F /\ \A a \in F : a < h.top /\ a \in Blocks(h) /\ IsFree(h, a)
  BY <1>2, AddrNumbers DEF Blocks
<1>4. FreeSet(h) = F
  BY <1>1, FreeSetIs
<1> HIDE DEF F
<1>5. ASSUME NEW a \in Blocks(h), IsFree(h, a)
      PROVE  LET below == {x \in Blocks(h) : x < a /\ IsFree(h, x)}
             IN  /\ h.mem[a].prev = IF below = {} THEN NULL
                                    ELSE CHOOSE x \in below : \A y \in below : y <= x
                 /\ h.mem[a].next \in {x \in Addr : x > a /\ x < h.top} \cup {NULL}
                 /\ h.mem[a].next # NULL => IsFree(h, h.mem[a].next) /\ h.mem[h.mem[a].next].prev = a
                 /\ h.mem[a].prev # NULL => h.mem[h.mem[a].prev].next = a
  <2> DEFINE below == {x \in Blocks(h) : x < a /\ IsFree(h, x)}
             p == h.mem[a].prev
             n == h.mem[a].next
  <2>1. a \in F /\ IsBefore(F, a, p) /\ IsAfter(F, a, n)
    <3>1. a \in F
      BY <1>2, <1>5
    <3> QED BY <3>1, <1>1, Neighbours
  <2>2. below = {x \in F : x < a}
    BY <1>2
  <2> HIDE DEF below, p, n
  <2>3. a \in Int /\ a \in Addr
    BY <2>1, <1>3
  <2>4. (p = NULL \/ p \in F) /\ p < a /\ \A y \in F : y < a => y <= p
    BY <2>1 DEF IsBefore
  <2>5. p = IF below = {} THEN NULL ELSE CHOOSE x \in below : \A y \in below : y <= x
    <3>1. CASE below = {}
      BY <3>1, <2>2, <2>4
    <3>2. CASE below # {}
      <4>1. p \in F
        <5>1. PICK y \in F : y < a
          BY <3>2, <2>2
        <5>2. y <= p
          BY <5>1, <2>4
        <5> QED BY <5>1, <5>2, <2>4, <1>3, AddrNumbers
      <4>2. p \in below /\ \A y \in below : y <= p
        BY <4>1, <2>2, <2>4
      <4>3. \A x \in below : (\A y \in below : y <= x) => x = p
        BY <4>2, <2>2, <1>3
      <4> QED BY <4>2, <4>3, <3>2
    <3> QED BY <3>1, <3>2
  <2>6. n # NULL => n \in F /\ a < n /\ \A y \in F : a < y => n <= y
    BY <2>1 DEF IsAfter
  <2>7. n \in {x \in Addr : x > a /\ x < h.top} \cup {NULL}
    BY <2>3, <2>6, <1>3
  <2>8. n # NULL => IsFree(h, n) /\ h.mem[n].prev = a
    <3>1. SUFFICES ASSUME n # NULL PROVE IsFree(h, n) /\ h.mem[n].prev = a
      OBVIOUS
    <3>2. IsBefore(F, n, h.mem[n].prev)
      BY <3>1, <2>6, <1>1, Neighbours
    <3>3. IsBefore(F, n, a)
      <4>1. ASSUME NEW y \in F, y < n PROVE y <= a
        <5>1. y \in Int /\ n \in Int /\ a \in Int
          BY <2>3, <2>6, <3>1, <1>3
        <5>2. ~(a < y)
          BY <4>1, <5>1, <2>6, <3>1
        <5> QED BY <5>1, <5>2
      <4> QED BY <4>1, <2>1, <2>6, <3>1 DEF IsBefore
    <3>4. F \in SUBSET Addr /\ n \in Ref
      BY <1>3, <2>6, <3>1 DEF Ref
    <3> QED BY <3>1, <3>2, <3>3, <3>4, <2>6, <1>3, OneNeighbour
  <2>9. p # NULL => h.mem[p].next = a
    <3>1. SUFFICES ASSUME p # NULL PROVE h.mem[p].next = a
      OBVIOUS
    <3>2. p \in F /\ IsAfter(F, p, h.mem[p].next)
      BY <3>1, <2>4, <1>1, Neighbours
    <3>3. IsAfter(F, p, a)
      <4>1. \A y \in F : p < y => a <= y
        BY <2>3, <2>4, <3>2, <1>3
      <4> QED BY <4>1, <2>1, <2>4 DEF IsAfter
    <3>4. F \in SUBSET Addr /\ p \in Ref
      BY <1>3, <3>2 DEF Ref
    <3> QED BY <3>2, <3>3, <3>4, OneNeighbour
  <2> QED BY <2>5, <2>7, <2>8, <2>9 DEF below, p, n
<1>6. FreeListOrdered(h)
  BY <1>5 DEF FreeListOrdered
<1> QED BY <1>2, <1>4, <1>6 DEF F

\* A heap at rest is what pinta_debug_validate_heap asserts it to be.
LEMMA SettledIsValid ==
    ASSUME NEW h, Settled(h)
    PROVE  ValidHeap(h) /\ \A a \in FreeSet(h) : h.mem[a].len <= h.largest
<1>1. Sound(h) /\ HeapType(h) /\ TopEnds(h) /\ Hinted(h)
  BY DEF Settled, Rested, Sound
<1>2. /\ FreeListOrdered(h) /\ FreeSet(h) = FreeBlocks(h)
      /\ FreeBlocks(h) = {a \in Blocks(h) : IsFree(h, a)}
  BY <1>1, SoundIsOrdered
<1>3. NoAdjacentFree(h)
  <2> SUFFICES ASSUME NEW a \in Blocks(h), IsFree(h, a), After(h, a) < h.top, IsFree(h, After(h, a))
               PROVE  FALSE
    BY DEF NoAdjacentFree
  <2>1. a \in FreeBlocks(h) /\ After(h, a) \in FreeBlocks(h)
    BY <1>2 DEF FreeBlocks, IsFree
  <2> QED BY <2>1 DEF Settled, Merged
<1>4. TopEndsLastObject(h)
  <2>1. Objects(h) = {a \in Blocks(h) : IsObject(h, a)}
    BY <1>1, BlocksAre
  <2>2. h.top = 0 => Blocks(h) = {}
    <3>1. \A x \in Addr : x \in Int /\ ~(x < 0)
      BY AddrNumbers
    <3> QED BY <3>1 DEF Blocks
  <2> QED BY <1>1, <2>1, <2>2 DEF TopEnds, TopEndsLastObject
<1> QED BY <1>1, <1>2, <1>3, <1>4 DEF ValidHeap, Hinted


-----------------------------------------------------------------------------
(* Allocating from a heap at rest *)

\* A list whose blocks and head are as they were is the same list.
SameOn(F, h, g) == g.free = h.free /\ \A a \in F : g.mem[a] = h.mem[a]

LEMMA SameList ==
    ASSUME NEW h, NEW F, OnList(h, F), NEW g, SameOn(F, h, g)
    PROVE  OnList(g, F)
BY DEF OnList, Linked, SameOn

\* A fruitless walk finds the greatest length of a free block.
LEMMA MaxLenIs ==
    ASSUME NEW h, HeapType(h), OnList(h, FreeBlocks(h))
    PROVE  MaxLen(h) \in 0 .. HeapSize /\ \A a \in FreeBlocks(h) : h.mem[a].len <= MaxLen(h)
<1> DEFINE lens == {0} \cup {h.mem[a].len : a \in FreeSet(h)}
           gaps == {HeapSize - n : n \in lens}
<1>1. FreeSet(h) = FreeBlocks(h) /\ FreeBlocks(h) \subseteq Addr
  BY FreeSetIs DEF FreeBlocks
<1>2. \A a \in Addr : h.mem[a].len \in Int /\ 0 <= h.mem[a].len /\ h.mem[a].len <= HeapSize
  BY HeapFields, BlockFields
<1>3. \A n \in lens : n \in Int /\ 0 <= n /\ n <= HeapSize
  BY <1>1, <1>2, HeapSizeAssumption
<1>4. gaps \in SUBSET Nat /\ gaps # {}
  BY <1>3, HeapSizeAssumption
<1>5. PICK m \in lens : \A n \in lens : HeapSize - m <= HeapSize - n
  <2> HIDE DEF lens
  <2>1. PICK u \in gaps : \A v \in gaps : u <= v
    <3> HIDE DEF gaps
    <3> QED BY <1>4, LeastExists
  <2>2. PICK m \in lens : u = HeapSize - m
    BY <2>1
  <2>3. \A n \in lens : HeapSize - n \in gaps
    OBVIOUS
  <2> QED BY <2>1, <2>2, <2>3
<1>6. \A n \in lens : n <= m
  <2> HIDE DEF lens
  <2>1. HeapSize \in Int
    BY HeapSizeAssumption
  <2> QED BY <1>3, <1>5, <2>1
<1>7. MaxLen(h) \in lens /\ \A n \in lens : n <= MaxLen(h)
  <2>1. MaxLen(h) = CHOOSE x \in lens : \A n \in lens : n <= x
    BY DEF MaxLen
  <2> HIDE DEF lens
  <2> QED BY <1>6, <2>1
<1> DEFINE M == MaxLen(h)
<1> HIDE DEF M
<1>8. M \in lens /\ \A n \in lens : n <= M
  BY <1>7 DEF M
<1>9. M \in 0 .. HeapSize
  <2> HIDE DEF lens
  <2> QED BY <1>3, <1>8, HeapSizeAssumption
<1>10. \A a \in FreeBlocks(h) : h.mem[a].len <= M
  BY <1>1, <1>8
<1> QED BY <1>9, <1>10 DEF M

\* Where the walk finds room it is a free block long enough.
LEMMA PlaceIs ==
    ASSUME NEW h, HeapType(h), OnList(h, FreeBlocks(h)), NEW len \in 1 .. HeapSize
    PROVE  \/ CanSlide(h, len) /\ Place(h, len) = h.top /\ h.top # NULL
           \/ ~CanSlide(h, len) /\ Place(h, len) = NULL
           \/ /\ ~CanSlide(h, len) /\ Place(h, len) # NULL
              /\ Place(h, len) \in FreeBlocks(h) /\ len <= h.mem[Place(h, len)].len
<1> DEFINE fits == {a \in Addr : h.mem[a].len >= len}
<1>1. h.top # NULL
  BY HeapFields, AddrNumbers
<1>2. fits \in SUBSET Addr
  OBVIOUS
<1>3. FirstFree(h, fits) = NULL \/ FirstFree(h, fits) \in FreeBlocks(h) \cap fits
  <2> HIDE DEF fits
  <2> QED BY <1>2, FirstFreeIs
<1>4. FitFor(h, len) = NULL \/ FitFor(h, len) \in FreeBlocks(h) \cap fits
  BY <1>3 DEF FitFor
<1>5. \A a \in Addr : h.mem[a].len >= len => len <= h.mem[a].len
  BY HeapFields, BlockFields
<1>6. ~CanSlide(h, len) => Place(h, len) = FitFor(h, len)
  BY DEF Place
<1>7. CanSlide(h, len) => Place(h, len) = h.top
  BY DEF Place
<1> DEFINE p == FitFor(h, len)
<1> HIDE DEF p
<1>8. p = NULL \/ (p \in FreeBlocks(h) /\ len <= h.mem[p].len)
  BY <1>4, <1>5 DEF p
<1> QED BY <1>1, <1>6, <1>7, <1>8 DEF p

\* Heap g is h with at most another hint.
Rehinted(h, g) == /\ HeapType(g) /\ g.mem = h.mem /\ g.top = h.top /\ g.free = h.free

LEMMA RehintedSettles ==
    ASSUME NEW h, Sound(h), NEW g, Rehinted(h, g)
    PROVE  /\ Sound(g) /\ FreeBlocks(g) = FreeBlocks(h) /\ Objects(g) = Objects(h)
           /\ (Rested(h) /\ Hinted(g) => Settles(h, g))
<1>1. /\ Tiled(g) /\ FreeBlocks(g) = FreeBlocks(h) /\ Objects(g) = Objects(h)
      /\ \A x : After(g, x) = After(h, x)
  <2>1. /\ HeapType(h) /\ Tiled(h) /\ HeapType(g) /\ g.top = h.top
        /\ \A x \in Addr : g.mem[x].kind = h.mem[x].kind /\ g.mem[x].len = h.mem[x].len
    BY DEF Sound, Rehinted
  <2> QED BY <2>1, SameBlocks DEF After, Rehinted
<1>2. Sound(g)
  <2>1. OnList(g, FreeBlocks(h))
    BY SameList DEF Sound, Rehinted, SameOn
  <2> QED BY <1>1, <2>1 DEF Sound, Rehinted
<1> QED BY <1>1, <1>2 DEF Settles, Rested, Merged, TopEnds, Rehinted

\* An allocation without a place for the block changes the hint at most.
LEMMA AllocTries ==
    ASSUME NEW h, Rested(h), NEW len \in 1 .. HeapSize, NEW id, Place(h, len) = NULL,
           NEW g, g = HeapAlloc(h, len, id)
    PROVE  Rehinted(h, g) /\ Settles(h, g)
<1>1. HeapType(h) /\ OnList(h, FreeBlocks(h)) /\ Sound(h) /\ Hinted(h)
  BY DEF Rested, Sound
<1>2. ~CanSlide(h, len)
  BY <1>1, PlaceIs
<1>3. g = IF h.free = NULL \/ h.largest < len THEN h ELSE [h EXCEPT !.largest = MaxLen(h)]
  BY <1>2 DEF HeapAlloc
<1>4. CASE g = h
  BY <1>1, <1>4 DEF Rehinted, Settles
<1>5. CASE g = [h EXCEPT !.largest = MaxLen(h)]
  <2>1. MaxLen(h) \in 0 .. HeapSize /\ \A a \in FreeBlocks(h) : h.mem[a].len <= MaxLen(h)
    BY <1>1, MaxLenIs
  <2>2. Rehinted(h, g) /\ g.largest = MaxLen(h)
    BY <1>1, <1>5, <2>1 DEF Rehinted, HeapType
  <2>3. FreeBlocks(g) = FreeBlocks(h)
    BY <1>1, <2>2, RehintedSettles
  <2>4. Hinted(g)
    BY <2>1, <2>2, <2>3 DEF Hinted, Rehinted
  <2> QED BY <1>1, <2>2, <2>4, RehintedSettles
<1> QED BY <1>3, <1>4, <1>5


\* Heap g is h with a new object at at.
Allocated(h, g, at, len, id) ==
    /\ at \in Addr /\ at \notin Objects(h) /\ Objects(g) = Objects(h) \cup {at}
    /\ g.mem[at] = Object(id, len)
    /\ \A a \in Objects(h) : g.mem[a] = h.mem[a]
    /\ \A a \in Addr : g.mem[a].pinned => h.mem[a].pinned

\* The object put at top.
LEMMA SlideAllocates ==
    ASSUME NEW h, Rested(h), NEW len \in 1 .. HeapSize, NEW id \in Ids, CanSlide(h, len),
           NEW g, g = HeapAlloc(h, len, id)
    PROVE  Settles(h, g) /\ Allocated(h, g, h.top, len, id)
<1> DEFINE b == Object(id, len)
           w == [h EXCEPT !.mem = WriteBlock(h.mem, h.top, b)]
<1>1. HeapType(h) /\ Tiled(h) /\ OnList(h, FreeBlocks(h)) /\ Hinted(h) /\ h.top \in Addr
  <2>1. Sound(h) /\ Hinted(h)
    BY DEF Rested
  <2> QED BY <2>1 DEF Sound, HeapType
<1>2. h \in [mem : [Addr -> Block], top : Addr, free : Ref, largest : 0 .. HeapSize]
  BY <1>1 DEF HeapType
<1>3. g = [w EXCEPT !.top = h.top + len]
  <2>1. g = [h EXCEPT !.mem = WriteBlock(@, h.top, b), !.top = @ + len]
    <3>1. Place(h, len) # NULL
      BY <1>1, PlaceIs
    <3> QED BY <3>1 DEF HeapAlloc
  <2> QED BY <2>1, <1>2
<1>4. b \in Block /\ b.kind = "object" /\ b.len = len /\ b.ref = NULL /\ b.id = id /\ ~b.pinned
  BY ObjectIs
<1> HIDE DEF b
<1>5. IsWritten(h, h.top, b, w)
  BY <1>1, <1>4, Written
<1> HIDE DEF w
<1>6. h.top + len \in Addr /\ h.top \in Int /\ 0 <= h.top /\ h.top + len # 0
  <2>1. h.top \in Int /\ 0 <= h.top /\ h.top + len < HeapSize /\ HeapSize \in Int
    BY <1>1, AddrNumbers DEF CanSlide
  <2> QED BY <2>1 DEF Addr
<1>7. /\ HeapType(g) /\ g.mem = w.mem /\ g.top = h.top + len /\ g.free = h.free /\ g.largest = h.largest
  BY <1>3, <1>5, <1>6 DEF IsWritten, HeapType
<1>8. \A x \in Addr : g.mem[x] = IF x = h.top THEN b ELSE IF Within(x, h.top, len) THEN Data ELSE h.mem[x]
  BY <1>4, <1>5, <1>7 DEF IsWritten
<1>9. /\ g.mem[h.top] = b
      /\ \A x \in Addr : x < h.top => g.mem[x] = h.mem[x]
      /\ \A x \in Addr : Within(x, h.top, len) => g.mem[x] = Data
  <2>1. \A x \in Addr : x \in Int
    BY AddrNumbers
  <2> QED BY <2>1, <1>1, <1>6, <1>8 DEF Within
<1>10. g.top = After(g, h.top)
  BY <1>4, <1>7, <1>9 DEF After
<1>11. /\ Tiled(g)
       /\ \A x : x \in Blocks(g) <=> x \in Blocks(h) \/ x = h.top
       /\ \A x \in Blocks(h) : After(g, x) = After(h, x) /\ g.mem[x] = h.mem[x]
  BY <1>1, <1>4, <1>7, <1>9, <1>10, ExtendedTiles
<1>12. Blocks(h) \subseteq Addr /\ h.top \notin Blocks(h)
  BY <1>6 DEF Blocks
<1>13. FreeBlocks(g) = FreeBlocks(h) /\ FreeBlocks(h) \subseteq Blocks(h)
  <2>1. \A x : x \in FreeBlocks(g) <=> x \in Blocks(g) /\ IsFree(g, x)
    BY <1>7, BlocksAre
  <2>2. \A x : x \in FreeBlocks(h) <=> x \in Blocks(h) /\ IsFree(h, x)
    BY <1>1, BlocksAre
  <2>3. ~IsFree(g, h.top)
    BY <1>4, <1>9 DEF IsFree
  <2>4. \A x \in Blocks(h) : IsFree(g, x) <=> IsFree(h, x)
    BY <1>11 DEF IsFree
  <2>5. \A x : x \in FreeBlocks(g) <=> x \in FreeBlocks(h)
    BY <2>1, <2>2, <2>3, <2>4, <1>11
  <2> QED BY <2>2, <2>5
<1>14. Objects(g) = Objects(h) \cup {h.top} /\ Objects(h) \subseteq Blocks(h)
  <2>1. \A x : x \in Objects(g) <=> x \in Blocks(g) /\ IsObject(g, x)
    BY <1>7, BlocksAre
  <2>2. \A x : x \in Objects(h) <=> x \in Blocks(h) /\ IsObject(h, x)
    BY <1>1, BlocksAre
  <2>3. IsObject(g, h.top)
    BY <1>1, <1>4, <1>9 DEF IsObject
  <2> QED BY <2>1, <2>2, <2>3, <1>11, <1>12 DEF IsObject
<1>15. OnList(g, FreeBlocks(g))
  <2>1. \A a \in FreeBlocks(h) : g.mem[a] = h.mem[a]
    BY <1>11, <1>13
  <2>2. SameOn(FreeBlocks(h), h, g)
    BY <2>1, <1>7 DEF SameOn
  <2> QED BY <2>2, <1>1, <1>13, SameList
<1>16. Settles(h, g)
  <2>1. Merged(h) => Merged(g)
    BY <1>1, <1>11, <1>13 DEF Merged
  <2>2. TopEnds(g)
    BY <1>10, <1>14 DEF TopEnds
  <2>3. Hinted(g)
    BY <1>1, <1>7, <1>11, <1>13 DEF Hinted
  <2> QED BY <2>1, <2>2, <2>3, <1>7, <1>11, <1>15 DEF Settles, Rested, Sound
<1>17. \A a \in Addr : g.mem[a].pinned => h.mem[a].pinned
  BY <1>4, <1>8, DataIsBlock
<1> QED BY <1>1, <1>9, <1>11, <1>12, <1>14, <1>16, <1>17 DEF Allocated, b

\* A free block of which an object takes the first part, and a free block the rest.
Fitted(h, g, at, m) ==
    /\ HeapType(g) /\ Recut(h, g, at, m, After(h, at)) /\ g.largest = h.largest
    /\ g.mem[at].kind = "object" /\ (m < After(h, at) => g.mem[m].kind = "free")
    /\ OnList(g, (FreeBlocks(h) \ {at}) \cup {x \in {m} : m < After(h, at)})

LEMMA FitSettles ==
    ASSUME NEW h, Rested(h), NEW g, NEW at \in FreeBlocks(h), NEW m, Fitted(h, g, at, m)
    PROVE  Settles(h, g) /\ Objects(g) = Objects(h) \cup {at} /\ at \notin Objects(h)
<1> DEFINE F == FreeBlocks(h)
           e == After(h, at)
           G == (F \ {at}) \cup {x \in {m} : m < e}
<1>1. HeapType(h) /\ Tiled(h) /\ TopEnds(h) /\ Hinted(h)
  BY DEF Rested, Sound
<1>16. /\ HeapType(g) /\ Recut(h, g, at, m, e) /\ g.largest = h.largest
       /\ g.mem[at].kind = "object" /\ (m < e => g.mem[m].kind = "free") /\ OnList(g, G)
  BY DEF Fitted
<1>2. /\ \A x : x \in F <=> x \in Blocks(h) /\ IsFree(h, x)
      /\ \A x : x \in Objects(h) <=> x \in Blocks(h) /\ IsObject(h, x)
      /\ F \cap Objects(h) = {} /\ F \subseteq Blocks(h)
  BY <1>1, BlocksAre
<1>3. \A x \in Blocks(h) : /\ x \in Addr /\ x \in Int /\ x < After(h, x) /\ After(h, x) \in Int
                           /\ (at < x => e <= x) /\ After(h, x) \in Bounds(h)
  <2>1. at \in Blocks(h) /\ Blocks(h) \subseteq Bounds(h)
    BY <1>2 DEF Bounds
  <2>2. \A x \in Blocks(h) : x \in Addr /\ x \in Int
    BY AddrNumbers DEF Blocks
  <2>3. \A x \in Blocks(h) : x < After(h, x) /\ After(h, x) \in Bounds(h)
    BY <1>1, Tiles
  <2>4. \A x \in Blocks(h) : After(h, x) \in Int
    BY <2>3, <1>1, Tiles
  <2>5. \A x \in Blocks(h) : at < x => e <= x
    BY <2>1, <1>1, Tiles
  <2> QED BY <2>2, <2>3, <2>4, <2>5
<1>4. /\ Tiled(g)
      /\ \A x : x \in Blocks(g) <=> x = at \/ (x = m /\ m < e) \/ (x \in Blocks(h) /\ (x < at \/ e <= x))
      /\ After(g, at) = m /\ (m < e => After(g, m) = e)
      /\ \A x \in Blocks(h) : x < at \/ e <= x => After(g, x) = After(h, x)
  BY <1>1, <1>16, RecutTiles
<1>5. at \in Blocks(h) /\ at < m /\ m <= e /\ m \in Int /\ e \in Int /\ at \in Int /\ g.top = h.top
  <2>1. at \in Blocks(h)
    BY <1>2
  <2> QED BY <2>1, <1>3, <1>16 DEF Recut
<1> HIDE DEF F, e
<1>6. \A x \in Blocks(h) : x < at \/ x = at \/ e <= x
  BY <1>3, <1>5
<1>7. \A x \in Bounds(h) : ~(at < x /\ x < e)
  <2>1. \A x \in Bounds(h) : at < x => e <= x
    BY <1>1, <1>5, Tiles DEF e
  <2>2. \A x \in Bounds(h) : x \in Int
    BY <1>1, Tiles
  <2> QED BY <2>1, <2>2, <1>5
<1>8. \A x \in Blocks(h) : x # at => x \in Blocks(g) /\ g.mem[x].kind = h.mem[x].kind /\ g.mem[x].len = h.mem[x].len
                                     /\ After(g, x) = After(h, x) /\ ~(x = m /\ m < e)
  BY <1>3, <1>4, <1>5, <1>6, <1>16 DEF Recut
<1>9. \A x : x \in Blocks(g) <=> x = at \/ (x = m /\ m < e) \/ (x \in Blocks(h) /\ x # at)
  BY <1>4, <1>6, <1>8
<1>10. at \in Addr /\ (m < e => m \in Addr)
  <2>1. \A x \in Blocks(g) : x \in Addr
    BY DEF Blocks
  <2> QED BY <2>1, <1>9
<1>11. FreeBlocks(g) = G
  <2>1. \A x : x \in FreeBlocks(g) <=> x \in Blocks(g) /\ IsFree(g, x)
    BY <1>16, BlocksAre
  <2>2. ~IsFree(g, at) /\ (m < e => IsFree(g, m))
    BY <1>10, <1>16 DEF IsFree
  <2>3. \A x \in Blocks(h) : x # at => (IsFree(g, x) <=> IsFree(h, x))
    BY <1>3, <1>8 DEF IsFree
  <2> QED BY <2>1, <2>2, <2>3, <1>2, <1>5, <1>9 DEF F
<1>12. Objects(g) = Objects(h) \cup {at} /\ at \notin Objects(h)
  <2>1. \A x : x \in Objects(g) <=> x \in Blocks(g) /\ IsObject(g, x)
    BY <1>16, BlocksAre
  <2>2. IsObject(g, at) /\ (m < e => ~IsObject(g, m))
    BY <1>10, <1>16 DEF IsObject
  <2>3. \A x \in Blocks(h) : x # at => (IsObject(g, x) <=> IsObject(h, x))
    BY <1>3, <1>8 DEF IsObject
  <2>4. at \notin Objects(h)
    BY <1>2 DEF F
  <2> QED BY <2>1, <2>2, <2>3, <2>4, <1>2, <1>9
<1>13. Merged(h) => Merged(g)
  <2> SUFFICES ASSUME Merged(h), NEW a \in G PROVE After(g, a) \notin G
    BY <1>11 DEF Merged
  <2>1. CASE a \in F /\ a # at
    <3>1. After(g, a) = After(h, a) /\ After(h, a) \notin F /\ After(h, a) \in Bounds(h)
      BY <2>1, <1>1, <1>2, <1>3, <1>8 DEF Merged, F
    <3>2. ~(m < e /\ After(h, a) = m)
      BY <3>1, <1>5, <1>7
    <3> QED BY <3>1, <3>2
  <2>2. CASE a = m /\ m < e
    <3>1. After(g, a) = e /\ e \notin F
      BY <2>2, <1>1, <1>4 DEF Merged, F, e
    <3> QED BY <3>1, <2>2, <1>5
  <2> QED BY <2>1, <2>2
<1>14. TopEnds(g)
  <2>1. PICK o \in Objects(h) : After(h, o) = h.top
    <3>1. h.top # 0
      <4>1. at < h.top /\ 0 <= at
        BY <1>5, <1>10, AddrNumbers DEF Blocks
      <4>2. h.top \in Int
        BY <1>1, HeapFields, AddrNumbers
      <4> QED BY <4>1, <4>2, <1>5
    <3> QED BY <3>1, <1>1 DEF TopEnds
  <2>2. o \in Objects(g) /\ After(g, o) = h.top
    BY <2>1, <1>2, <1>8, <1>12
  <2> QED BY <2>2, <1>5 DEF TopEnds
<1>15. Hinted(g)
  <2> SUFFICES ASSUME NEW a \in G PROVE g.mem[a].len <= g.largest
    BY <1>11 DEF Hinted
  <2>1. CASE a \in F /\ a # at
    BY <2>1, <1>1, <1>2, <1>8, <1>16 DEF Hinted, F
  <2>2. CASE a = m /\ m < e
    <3>1. g.mem[a].len = e - m /\ e = at + h.mem[at].len /\ h.mem[at].len <= h.largest
      BY <2>2, <1>1, <1>16 DEF Recut, Hinted, After, e
    <3>2. g.largest = h.largest /\ h.mem[at].len \in Int /\ h.largest \in Int
      BY <1>1, <1>10, <1>16, HeapFields, BlockFields
    <3> QED BY <3>1, <3>2, <1>5
  <2> QED BY <2>1, <2>2
<1> QED BY <1>4, <1>11, <1>12, <1>13, <1>14, <1>15, <1>16 DEF Settles, Rested, Sound


\* A block with no end in it, between it and the next.
LEMMA FreeBlockAt ==
    ASSUME NEW h, Sound(h), NEW at \in FreeBlocks(h)
    PROVE  /\ at \in Blocks(h) /\ at \in Addr /\ at \in Int /\ 0 <= at
           /\ h.mem[at].len \in Int /\ 1 <= h.mem[at].len /\ After(h, at) = at + h.mem[at].len
           /\ After(h, at) \in Bounds(h) /\ After(h, at) \in Int /\ After(h, at) < HeapSize
           /\ \A x \in Blocks(h) : x \in Int /\ (x < at \/ x = at \/ After(h, at) <= x)
<1>1. HeapType(h) /\ Tiled(h)
  BY DEF Sound
<1>2. at \in Blocks(h) /\ at \in Addr
  BY <1>1, BlocksAre DEF FreeBlocks
<1>3. at \in Int /\ 0 <= at
  BY <1>2, AddrNumbers
<1>4. h.mem[at].len \in Int /\ 1 <= h.mem[at].len
  BY <1>1, <1>2, HeapFields, BlockFields
<1>5. After(h, at) = at + h.mem[at].len
  BY DEF After
<1>6. After(h, at) \in Bounds(h) /\ After(h, at) \in Addr
  BY <1>1, <1>2, Tiles
<1>7. After(h, at) \in Int /\ After(h, at) < HeapSize
  BY <1>6, AddrNumbers
<1>8. \A x \in Blocks(h) : x \in Int /\ (at < x => After(h, at) <= x)
  BY <1>1, <1>2, Tiles DEF Bounds
<1> QED BY <1>2, <1>3, <1>4, <1>5, <1>6, <1>7, <1>8

\* An object that takes a free block whole.
LEMMA ExactAllocates ==
    ASSUME NEW h, Rested(h), NEW len \in 1 .. HeapSize, NEW id \in Ids, NEW at \in FreeBlocks(h),
           h.mem[at].len = len,
           NEW c, c = FreeRemove(h, at), NEW g, g = [c EXCEPT !.mem = WriteBlock(c.mem, at, Object(id, len))]
    PROVE  Settles(h, g) /\ Allocated(h, g, at, len, id)
<1> DEFINE F == FreeBlocks(h)
           e == After(h, at)
           b == Object(id, len)
<1>1. HeapType(h) /\ OnList(h, F) /\ Sound(h)
  BY DEF Rested, Sound
<1>2. /\ at \in Blocks(h) /\ at \in Addr /\ at \in Int /\ e = at + len /\ at < e
      /\ e \in Bounds(h) /\ e \in Int /\ \A x \in Blocks(h) : x \in Int /\ (x < at \/ x = at \/ e <= x)
  BY <1>1, FreeBlockAt
<1>3. HeapType(c) /\ Relinked(h, c, F \ {at}) /\ OnList(c, F \ {at})
  BY <1>1, RemoveLinks
<1>4. b \in Block /\ b.kind = "object" /\ b.len = len /\ ~b.pinned
  BY ObjectIs
<1> HIDE DEF b
<1>5. IsWritten(c, at, b, g)
  <2>1. IsWritten(c, at, b, [c EXCEPT !.mem = WriteBlock(c.mem, at, b)])
    BY <1>2, <1>3, <1>4, Written
  <2> QED BY <2>1 DEF b
<1> HIDE DEF e
<1>6. /\ HeapType(g) /\ g.top = h.top /\ g.largest = h.largest /\ g.free = c.free
      /\ \A x \in Addr : g.mem[x] = IF x = at THEN b ELSE IF Within(x, at, len) THEN Data ELSE c.mem[x]
  BY <1>3, <1>4, <1>5 DEF IsWritten, Relinked
<1>7. \A x \in Addr : x \in Int /\ (Within(x, at, len) <=> at < x /\ x < e)
  BY <1>2, AddrNumbers DEF Within
<1>8. \A x \in Addr : SameButLinks(c.mem[x], h.mem[x]) /\ (x \notin F => c.mem[x] = h.mem[x])
  BY <1>3 DEF Relinked, SameButLinks
<1>9. Recut(h, g, at, e, e)
  <2>1. \A x \in Addr : x < at \/ e <= x => g.mem[x].kind = h.mem[x].kind /\ g.mem[x].len = h.mem[x].len
    BY <1>2, <1>6, <1>7, <1>8 DEF SameButLinks
  <2>2. \A x \in Addr : at < x /\ x < e => g.mem[x].kind = "data"
    BY <1>2, <1>6, <1>7, DataIsBlock
  <2>3. g.mem[at].kind # "data" /\ g.mem[at].len = e - at
    BY <1>2, <1>4, <1>6
  <2> QED BY <2>1, <2>2, <2>3, <1>2, <1>6 DEF Recut
<1>10. F \subseteq Blocks(h) /\ F \subseteq Addr
  BY <1>1, BlocksAre DEF FreeBlocks
<1>11. OnList(g, F \ {at})
  <2>1. \A a \in F \ {at} : g.mem[a] = c.mem[a]
    BY <1>2, <1>6, <1>7, <1>10
  <2>2. g.free = c.free /\ OnList(c, F \ {at})
    BY <1>3, <1>6
  <2>3. SameOn(F \ {at}, c, g)
    BY <2>1, <2>2 DEF SameOn
  <2> QED BY <2>2, <2>3, SameList
<1>12. (F \ {at}) \cup {x \in {e} : e < e} = F \ {at}
  BY <1>2
<1>13. Settles(h, g) /\ Objects(g) = Objects(h) \cup {at} /\ at \notin Objects(h)
  <2>1. g.mem[at].kind = "object" /\ ~(e < e)
    BY <1>2, <1>4, <1>6
  <2>2. OnList(g, (F \ {at}) \cup {x \in {e} : e < e})
    BY <1>11, <1>12
  <2>3. /\ Recut(h, g, at, e, After(h, at))
        /\ e < After(h, at) => g.mem[e].kind = "free"
        /\ OnList(g, (FreeBlocks(h) \ {at}) \cup {x \in {e} : e < After(h, at)})
    BY <2>1, <2>2, <1>9 DEF e
  <2>4. HeapType(g) /\ g.largest = h.largest
    BY <1>6
  <2>5. Fitted(h, g, at, e)
    BY <2>1, <2>3, <2>4 DEF Fitted
  <2>6. \A m : Fitted(h, g, at, m) => Settles(h, g)
    BY FitSettles
  <2>7. \A m : Fitted(h, g, at, m) => Objects(g) = Objects(h) \cup {at} /\ at \notin Objects(h)
    BY FitSettles
  <2> QED BY <2>5, <2>6, <2>7
<1>14. ASSUME NEW a \in Objects(h) PROVE g.mem[a] = h.mem[a]
  <2>1. a \in Blocks(h) /\ a \in Addr /\ a \notin F
    BY <1>1, BlocksAre DEF Blocks
  <2>2. a # at /\ ~Within(a, at, len)
    BY <2>1, <1>2, <1>7
  <2> QED BY <2>1, <2>2, <1>6, <1>8
<1>15. \A a \in Addr : g.mem[a].pinned => h.mem[a].pinned
  BY <1>4, <1>6, <1>8, DataIsBlock DEF SameButLinks
<1>16. g.mem[at] = Object(id, len)
  BY <1>2, <1>6 DEF b
<1> QED BY <1>2, <1>13, <1>14, <1>15, <1>16 DEF Allocated

\* An object that takes a part of a free block.
LEMMA SplitAllocates ==
    ASSUME NEW h, Rested(h), NEW len \in 1 .. HeapSize, NEW id \in Ids, NEW at \in FreeBlocks(h),
           len < h.mem[at].len,
           NEW r, r = FreeRemove(h, at),
           NEW c, c = FreeInsertAfter(r, h.mem[at].prev, at + len, h.mem[at].len - len),
           NEW g, g = [c EXCEPT !.mem = WriteBlock(c.mem, at, Object(id, len))]
    PROVE  Settles(h, g) /\ Allocated(h, g, at, len, id)
<1> DEFINE F == FreeBlocks(h)
           e == After(h, at)
           b == Object(id, len)
           m == at + len
           rest == h.mem[at].len - len
           before == h.mem[at].prev
<1>1. HeapType(h) /\ OnList(h, F) /\ Sound(h)
  BY DEF Rested, Sound
<1>2. /\ at \in Blocks(h) /\ at \in Addr /\ at \in Int /\ 0 <= at /\ e \in Bounds(h) /\ e \in Int /\ e < HeapSize
      /\ \A x \in Blocks(h) : x \in Int /\ (x < at \/ x = at \/ e <= x)
  BY <1>1, FreeBlockAt
<1>3. m \in Int /\ at < m /\ m < e /\ m + rest = e /\ rest \in Int /\ rest = e - m /\ m \in Addr /\ rest \in 1 .. HeapSize
  <2>1. e = at + h.mem[at].len /\ h.mem[at].len \in Int /\ 1 <= h.mem[at].len
    BY <1>1, FreeBlockAt
  <2> HIDE DEF e
  <2>2. m \in Int /\ at < m /\ m < e /\ m + rest = e /\ rest \in Int /\ rest = e - m
    BY <2>1, <1>2
  <2>3. m \in Addr /\ rest \in 1 .. HeapSize
    BY <2>2, <1>2, HeapSizeAssumption DEF Addr
  <2> QED BY <2>2, <2>3
<1> HIDE DEF e, m, rest
<1>4. F \subseteq Blocks(h) /\ F \subseteq Addr
  BY <1>1, BlocksAre DEF FreeBlocks
<1>5. HeapType(r) /\ Relinked(h, r, F \ {at}) /\ OnList(r, F \ {at})
  BY <1>1, RemoveLinks
<1>6. m \notin F \ {at} /\ \A a \in F \ {at} : ~Within(a, m, rest)
  BY <1>2, <1>3, <1>4 DEF Within
<1>7. IsBefore(F \ {at}, m, before)
  <2>1. IsBefore(F, at, before)
    BY <1>1, Neighbours
  <2> HIDE DEF before
  <2>2. before \in F \cup {NULL} /\ before < at /\ before \in Int /\ \A y \in F : y < at => y <= before
    BY <2>1, <1>4, AddrNumbers DEF IsBefore
  <2>3. before \in (F \ {at}) \cup {NULL} /\ before < m
    BY <2>2, <1>2, <1>3
  <2>4. \A y \in F \ {at} : y < m => y <= before
    BY <2>2, <1>2, <1>3, <1>4
  <2> QED BY <2>3, <2>4 DEF IsBefore
<1>8. /\ HeapType(c) /\ c.top = r.top /\ c.largest = r.largest /\ OnList(c, (F \ {at}) \cup {m})
      /\ c.mem[m].kind = "free" /\ c.mem[m].len = rest /\ ~c.mem[m].pinned
      /\ \A x \in Addr : /\ Within(x, m, rest) => c.mem[x] = Data
                         /\ x \in F \ {at} => SameButLinks(c.mem[x], r.mem[x])
                         /\ x \notin (F \ {at}) \cup {m} /\ ~Within(x, m, rest) => c.mem[x] = r.mem[x]
  <2>1. c = FreeInsertAfter(r, before, m, rest)
    BY DEF m, rest
  <2> DEFINE G == F \ {at}
  <2>2. HeapType(r) /\ OnList(r, G) /\ m \in Addr /\ m \notin G /\ rest \in 1 .. HeapSize
    BY <1>3, <1>5, <1>6
  <2>3. IsBefore(G, m, before) /\ \A a \in G : ~Within(a, m, rest)
    BY <1>6, <1>7
  <2> HIDE DEF before, F
  <2>4. IsInserted(r, G, m, rest, c)
    <3> HIDE DEF G
    <3> QED BY <2>1, <2>2, <2>3, InsertLinks
  <2> QED BY <2>4 DEF IsInserted
<1>9. b \in Block /\ b.kind = "object" /\ b.len = len /\ ~b.pinned
  BY ObjectIs
<1> HIDE DEF b
<1>10. IsWritten(c, at, b, g)
  <2>1. IsWritten(c, at, b, [c EXCEPT !.mem = WriteBlock(c.mem, at, b)])
    BY <1>2, <1>8, <1>9, Written
  <2> QED BY <2>1 DEF b
<1>11. /\ HeapType(g) /\ g.top = h.top /\ g.largest = h.largest /\ g.free = c.free
       /\ \A x \in Addr : g.mem[x] = IF x = at THEN b ELSE IF Within(x, at, len) THEN Data ELSE c.mem[x]
  <2>1. c.top = h.top /\ c.largest = h.largest
    BY <1>5, <1>8 DEF Relinked
  <2>2. /\ HeapType(g) /\ g.top = c.top /\ g.largest = c.largest /\ g.free = c.free
        /\ \A x \in Addr : g.mem[x] = IF x = at THEN b ELSE IF Within(x, at, len) THEN Data ELSE c.mem[x]
    BY <1>9, <1>10 DEF IsWritten
  <2> QED BY <2>1, <2>2
<1>12. \A x \in Addr : /\ x \in Int
                       /\ Within(x, at, len) <=> at < x /\ x < m
                       /\ Within(x, m, rest) <=> m < x /\ x < e
  <2>1. \A x \in Addr : x \in Int
    BY AddrNumbers
  <2>2. m = at + len /\ m + rest = e
    BY <1>3 DEF m
  <2> QED BY <2>1, <2>2 DEF Within
<1>13. \A x \in Addr : SameButLinks(r.mem[x], h.mem[x]) /\ (x \notin F => r.mem[x] = h.mem[x])
  BY <1>5 DEF Relinked, SameButLinks
<1>14. \A x \in Addr : x # at /\ x # m /\ ~Within(x, at, len) /\ ~Within(x, m, rest) =>
                          SameButLinks(g.mem[x], h.mem[x]) /\ (x \notin F => g.mem[x] = h.mem[x])
  <2>1. \A x \in Addr : x # at /\ x # m /\ ~Within(x, at, len) /\ ~Within(x, m, rest) =>
           g.mem[x] = c.mem[x] /\ (x \in F \ {at} \/ x \notin (F \ {at}) \cup {m})
    BY <1>11
  <2> SUFFICES ASSUME NEW x \in Addr, x # at, x # m, ~Within(x, at, len), ~Within(x, m, rest)
               PROVE  SameButLinks(g.mem[x], h.mem[x]) /\ (x \notin F => g.mem[x] = h.mem[x])
    OBVIOUS
  <2>2. SameButLinks(r.mem[x], h.mem[x]) /\ (x \notin F => r.mem[x] = h.mem[x])
    BY <1>13
  <2>3. g.mem[x] = c.mem[x]
    BY <2>1
  <2>4. CASE x \in F
    <3>1. SameButLinks(c.mem[x], r.mem[x])
      BY <2>4, <1>8
    <3> QED BY <3>1, <2>2, <2>3, <2>4 DEF SameButLinks
  <2>5. CASE x \notin F
    <3>1. c.mem[x] = r.mem[x]
      BY <2>5, <1>8
    <3> QED BY <3>1, <2>2, <2>3, <2>5
  <2> QED BY <2>4, <2>5
<1>16. g.mem[m] = c.mem[m] /\ g.mem[m].kind = "free" /\ g.mem[m].len = rest /\ ~g.mem[m].pinned
  <2>1. m # at /\ m \in Addr /\ ~Within(m, at, len)
    BY <1>2, <1>3, <1>12
  <2>2. g.mem[m] = c.mem[m]
    BY <2>1, <1>11
  <2>3. c.mem[m].kind = "free" /\ c.mem[m].len = rest /\ ~c.mem[m].pinned
    BY <1>8
  <2> QED BY <2>2, <2>3
<1>15. Recut(h, g, at, m, e)
  <2>1. \A x \in Addr : x < at \/ e <= x => g.mem[x].kind = h.mem[x].kind /\ g.mem[x].len = h.mem[x].len
    <3>1. \A x \in Addr : x < at \/ e <= x => x # at /\ x # m /\ ~Within(x, at, len) /\ ~Within(x, m, rest)
      BY <1>2, <1>3, <1>12
    <3> QED BY <3>1, <1>14 DEF SameButLinks
  <2>2. \A x \in Addr : at < x /\ x < e /\ x # m => g.mem[x].kind = "data"
    <3> SUFFICES ASSUME NEW x \in Addr, at < x, x < e, x # m PROVE g.mem[x].kind = "data"
      OBVIOUS
    <3>1. Within(x, at, len) \/ (Within(x, m, rest) /\ ~Within(x, at, len) /\ x # at)
      BY <1>2, <1>3, <1>12
    <3>2. x # at
      BY <1>2, <1>12
    <3>3. CASE Within(x, at, len)
      <4>1. g.mem[x] = Data
        BY <3>2, <3>3, <1>11
      <4> QED BY <4>1, DataIsBlock
    <3>4. CASE Within(x, m, rest) /\ ~Within(x, at, len)
      <4>1. g.mem[x] = c.mem[x]
        BY <3>2, <3>4, <1>11
      <4>2. c.mem[x] = Data
        BY <3>4, <1>8
      <4> QED BY <4>1, <4>2, DataIsBlock
    <3> QED BY <3>1, <3>3, <3>4
  <2>3. g.mem[at].kind # "data" /\ g.mem[at].len = m - at
    <3>1. g.mem[at] = b
      BY <1>2, <1>11
    <3>2. m - at = len
      BY <1>2 DEF m
    <3> QED BY <3>1, <3>2, <1>9
  <2>4. g.mem[m].kind # "data" /\ g.mem[m].len = e - m
    <3>1. rest = e - m
      BY <1>3
    <3> QED BY <3>1, <1>16
  <2>5. g.top = h.top
    BY <1>11
  <2>6. at \in Blocks(h) /\ e \in Bounds(h) /\ m \in Int /\ at < m /\ m <= e
    BY <1>2, <1>3
  <2> QED BY <2>1, <2>2, <2>3, <2>4, <2>5, <2>6 DEF Recut
<1>17. OnList(g, (F \ {at}) \cup {m})
  <2>1. \A a \in (F \ {at}) \cup {m} : g.mem[a] = c.mem[a]
    <3> SUFFICES ASSUME NEW a \in F \ {at} PROVE g.mem[a] = c.mem[a]
      BY <1>16
    <3>1. a \in Addr /\ a # at /\ ~Within(a, at, len)
      BY <1>2, <1>3, <1>4, <1>12
    <3> QED BY <3>1, <1>11
  <2> DEFINE G == (F \ {at}) \cup {m}
  <2>2. g.free = c.free /\ OnList(c, G)
    BY <1>8, <1>11
  <2>3. SameOn(G, c, g)
    BY <2>1, <2>2 DEF SameOn
  <2> QED BY <2>2, <2>3, SameList
<1>18. (F \ {at}) \cup {x \in {m} : m < e} = (F \ {at}) \cup {m}
  BY <1>3
<1>19. Settles(h, g) /\ Objects(g) = Objects(h) \cup {at} /\ at \notin Objects(h)
  <2>1. g.mem[at].kind = "object"
    BY <1>2, <1>9, <1>11
  <2>2. OnList(g, (F \ {at}) \cup {x \in {m} : m < e})
    BY <1>17, <1>18
  <2>3. /\ Recut(h, g, at, m, After(h, at))
        /\ m < After(h, at) => g.mem[m].kind = "free"
        /\ OnList(g, (FreeBlocks(h) \ {at}) \cup {x \in {m} : m < After(h, at)})
    BY <2>2, <1>15, <1>16 DEF e
  <2>4. HeapType(g) /\ g.largest = h.largest
    BY <1>11
  <2>5. Fitted(h, g, at, m)
    BY <2>1, <2>3, <2>4 DEF Fitted
  <2> QED BY <2>5, FitSettles
<1>20. ASSUME NEW a \in Objects(h) PROVE g.mem[a] = h.mem[a]
  <2>1. a \in Blocks(h) /\ a \in Addr /\ a \notin F
    BY <1>1, BlocksAre DEF Blocks
  <2>2. a # at /\ a # m /\ ~Within(a, at, len) /\ ~Within(a, m, rest)
    BY <2>1, <1>2, <1>3, <1>12
  <2> QED BY <2>1, <2>2, <1>14
<1>21. ASSUME NEW a \in Addr, g.mem[a].pinned PROVE h.mem[a].pinned
  <2>1. a # at /\ a # m /\ ~Within(a, at, len) /\ ~Within(a, m, rest)
    <3>1. g.mem[a] # b /\ g.mem[a] # Data /\ a # m
      BY <1>9, <1>16, <1>21, DataIsBlock
    <3>2. a # at /\ ~Within(a, at, len) /\ g.mem[a] = c.mem[a]
      BY <3>1, <1>11
    <3>3. ~Within(a, m, rest)
      BY <3>1, <3>2, <1>8
    <3> QED BY <3>1, <3>2, <3>3
  <2> QED BY <2>1, <1>14, <1>21 DEF SameButLinks
<1>22. g.mem[at] = Object(id, len)
  BY <1>2, <1>11 DEF b
<1> QED BY <1>2, <1>19, <1>20, <1>21, <1>22 DEF Allocated

\* An allocation puts the object where there is a place for it.
LEMMA AllocPlaces ==
    ASSUME NEW h, Rested(h), NEW len \in 1 .. HeapSize, NEW id \in Ids,
           NEW at, at = Place(h, len), at # NULL, NEW g, g = HeapAlloc(h, len, id)
    PROVE  Settles(h, g) /\ Allocated(h, g, at, len, id)
<1>1. HeapType(h) /\ OnList(h, FreeBlocks(h)) /\ Sound(h)
  BY DEF Rested, Sound
<1>2. CASE CanSlide(h, len)
  <2>1. at = h.top
    BY <1>2 DEF Place
  <2> QED BY <2>1, <1>2, SlideAllocates
<1>3. CASE ~CanSlide(h, len)
  <2> DEFINE rest == h.mem[at].len - len
             r == FreeRemove(h, at)
             i == FreeInsertAfter(r, h.mem[at].prev, at + len, rest)
             c == IF rest # 0 THEN i ELSE r
  <2>1. at \in FreeBlocks(h) /\ len <= h.mem[at].len
    BY <1>1, <1>3, PlaceIs
  <2>2. g = [c EXCEPT !.mem = WriteBlock(@, at, Object(id, len))]
    BY <1>3 DEF HeapAlloc
  <2>3. g = [c EXCEPT !.mem = WriteBlock(c.mem, at, Object(id, len))]
    BY <2>2
  <2>4. h.mem[at].len \in Int
    BY <2>1, <1>1, FreeBlockAt
  <2>5. CASE h.mem[at].len = len
    <3>1. c = r
      BY <2>4, <2>5
    <3>2. g = [r EXCEPT !.mem = WriteBlock(r.mem, at, Object(id, len))]
      BY <2>3, <3>1
    <3> QED BY <3>2, <2>1, <2>5, ExactAllocates
  <2>6. CASE len < h.mem[at].len
    <3>1. c = i
      BY <2>4, <2>6
    <3>2. g = [i EXCEPT !.mem = WriteBlock(i.mem, at, Object(id, len))]
      BY <2>3, <3>1
    <3> QED BY <3>2, <2>1, <2>6, SplitAllocates
  <2> QED BY <2>1, <2>4, <2>5, <2>6
<1> QED BY <1>2, <1>3

-----------------------------------------------------------------------------
(* The sweep *)

\* The free blocks below slot c.
Passed(g, c) == {a \in FreeBlocks(g) : a < c}

\* Heap g is h swept up to slot c, and from there on it is h still.
SweptUpTo(h, g, c) ==
    /\ HeapType(g) /\ Tiled(g) /\ g.top = h.top
    /\ c \in Bounds(h) /\ c \in Bounds(g)
    /\ \A x \in Addr : c <= x => g.mem[x] = h.mem[x]

\* Below slot c the objects left are the live ones, as they were.
LiveKept(h, g, c, live) ==
    \A x \in Addr : x < c => /\ g.mem[x].kind = "object" <=> x \in live
                             /\ x \in live => g.mem[x] = h.mem[x]

\* The free blocks F are on the new list, and none of them touches another.  Until there is
\* one of them nothing is changed.
NewList(h, g, F) ==
    /\ Linked(g.mem, F)
    /\ IF F = {} THEN g.free = h.free /\ g.mem = h.mem ELSE IsAfter(F, NULL, g.free)
    /\ \A a \in F : After(g, a) \notin F /\ g.mem[a].len <= g.largest

PinsKept(h, g) == \A a \in Addr : g.mem[a].pinned => h.mem[a].pinned

\* The locals of the sweep: the last free and the last live block met, and the last free
\* one before that.
SweepLocals(s, F, live) ==
    /\ IsBefore(F, s.current, s.last_free)
    /\ IsBefore(live, s.current, s.alive_last)
    /\ IF s.alive_last = NULL THEN s.before_free = NULL ELSE IsBefore(F, s.alive_last, s.before_free)

SweepInv(h, live, s) ==
    /\ SweptUpTo(h, s.heap, s.current) /\ LiveKept(h, s.heap, s.current, live) /\ PinsKept(h, s.heap)
    /\ NewList(h, s.heap, Passed(s.heap, s.current))
    /\ SweepLocals(s, Passed(s.heap, s.current), live)

\* The block the sweep has reached is as it was.
LEMMA SweepReaches ==
    ASSUME NEW h, HeapType(h), Tiled(h), NEW g, NEW c, SweptUpTo(h, g, c), c < h.top, NEW e, e = After(g, c)
    PROVE  /\ c \in Blocks(h) /\ c \in Blocks(g) /\ c \in Addr /\ c \in Int /\ 0 <= c
           /\ g.mem[c] = h.mem[c] /\ g.mem[c] \in Block /\ e = c + g.mem[c].len /\ e = After(h, c)
           /\ e \in Bounds(h) /\ e \in Bounds(g) /\ e \in Addr /\ e \in Int /\ c < e /\ e <= h.top
           /\ \A x \in Addr : c < x /\ x < e => g.mem[x] = Data /\ h.mem[x] = Data
<1>1. HeapType(g) /\ Tiled(g) /\ g.top = h.top /\ c \in Bounds(h) /\ c \in Bounds(g)
  BY DEF SweptUpTo
<1>2. c \in Addr /\ c \in Int /\ 0 <= c /\ h.top \in Int
  BY <1>1, Tiles
<1>3. c \in Blocks(h) /\ c \in Blocks(g)
  BY <1>1, <1>2 DEF Bounds
<1>4. g.mem[c] = h.mem[c] /\ g.mem[c] \in Block
  BY <1>1, <1>2, HeapFields DEF SweptUpTo
<1>5. e = c + g.mem[c].len /\ e = After(h, c)
  BY <1>4 DEF After
<1>6. e \in Bounds(h) /\ e \in Bounds(g) /\ c < e /\ e <= h.top
  BY <1>1, <1>3, <1>5, Tiles
<1>7. e \in Addr /\ e \in Int
  BY <1>1, <1>6, Tiles
<1>8. ASSUME NEW x \in Addr, c < x, x < e PROVE g.mem[x] = Data /\ h.mem[x] = Data
  <2>1. x \in Int /\ x < h.top
    BY <1>2, <1>6, <1>7, <1>8, AddrNumbers
  <2>2. x \notin Blocks(h)
    <3>1. SUFFICES ASSUME x \in Blocks(h) PROVE FALSE
      OBVIOUS
    <3>2. x \in Bounds(h)
      BY <3>1 DEF Bounds
    <3>3. e <= x
      BY <1>1, <1>3, <1>5, <1>8, <3>2, Tiles
    <3> QED BY <3>3, <2>1, <1>7, <1>8
  <2>3. h.mem[x] = Data
    BY <2>1, <2>2 DEF Blocks
  <2>4. c <= x
    BY <1>2, <1>8, <2>1
  <2> QED BY <2>3, <2>4 DEF SweptUpTo
<1> QED BY <1>2, <1>3, <1>4, <1>5, <1>6, <1>7, <1>8

\* Past the block at c, where slots from its end on are as they were and the block itself is dealt with.
LEMMA SweepPasses ==
    ASSUME NEW h, HeapType(h), Tiled(h), NEW live, live \subseteq Objects(h),
           NEW g, NEW c, SweptUpTo(h, g, c), LiveKept(h, g, c, live), c < h.top,
           NEW e, e = After(g, c),
           NEW g2, HeapType(g2), Tiled(g2), g2.top = g.top, e \in Bounds(g2),
           \A x \in Addr : e <= x => g2.mem[x] = g.mem[x],
           \A x \in Addr : c < x /\ x < e => g2.mem[x] = Data,
           \A x \in live : x <= c => g2.mem[x] = g.mem[x],
           \A x \in Addr : x < c => g2.mem[x].kind = g.mem[x].kind,
           g2.mem[c].kind = "object" <=> c \in live
    PROVE  SweptUpTo(h, g2, e) /\ LiveKept(h, g2, e, live)
<1>1. /\ c \in Addr /\ c \in Int /\ e \in Bounds(h) /\ e \in Int /\ c < e /\ g.mem[c] = h.mem[c]
      /\ \A x \in Addr : c < x /\ x < e => h.mem[x] = Data
  BY SweepReaches
<1>2. g2.top = h.top
  BY DEF SweptUpTo
<1>3. ASSUME NEW x \in Addr, e <= x PROVE g2.mem[x] = h.mem[x]
  <2>1. c <= x
    BY <1>1, <1>3, AddrNumbers
  <2> QED BY <2>1, <1>3 DEF SweptUpTo
<1>4. SweptUpTo(h, g2, e)
  BY <1>1, <1>2, <1>3 DEF SweptUpTo
<1>5. ASSUME NEW x \in Addr, x < e
      PROVE  /\ g2.mem[x].kind = "object" <=> x \in live
             /\ x \in live => g2.mem[x] = h.mem[x]
  <2>1. x \in Int
    BY AddrNumbers
  <2>2. CASE x < c
    BY <2>1, <2>2, <1>1 DEF LiveKept
  <2>3. CASE x = c
    BY <2>3, <1>1
  <2>4. CASE c < x
    <3>1. x \notin live
      <4>1. h.mem[x].kind # "object"
        BY <2>4, <1>1, <1>5, DataIsBlock
      <4> QED BY <4>1 DEF Objects, InUse, IsObject
    <3> QED BY <2>4, <1>5, <3>1, DataIsBlock
  <2> QED BY <2>1, <2>2, <2>3, <2>4, <1>1
<1>6. LiveKept(h, g2, e, live)
  BY <1>5 DEF LiveKept
<1> QED BY <1>4, <1>6

\* A live block is left, and is the last one.
LEMMA SweepKeepsLive ==
    ASSUME NEW h, HeapType(h), Tiled(h), NEW live, live \subseteq Objects(h),
           NEW s, SweepInv(h, live, s), s.current < h.top, s.current \in live,
           NEW t, t.heap = s.heap, t.current = After(s.heap, s.current), t.last_free = s.last_free,
           t.alive_last = s.current, t.before_free = s.last_free
    PROVE  SweepInv(h, live, t)
<1> DEFINE g == s.heap
           c == s.current
           e == After(g, c)
           F == Passed(g, c)
<1>1. SweptUpTo(h, g, c) /\ LiveKept(h, g, c, live) /\ PinsKept(h, g) /\ NewList(h, g, F) /\ SweepLocals(s, F, live)
  BY DEF SweepInv
<1>2. /\ c \in Addr /\ c \in Int /\ 0 <= c /\ e \in Bounds(g) /\ e \in Int /\ c < e /\ g.mem[c] = h.mem[c]
      /\ \A x \in Addr : c < x /\ x < e => g.mem[x] = Data
  BY <1>1, SweepReaches
<1>3. g.mem[c].kind = "object"
  BY <1>2 DEF Objects, InUse, IsObject
<1>4. HeapType(g) /\ Tiled(g) /\ live \subseteq Addr
  BY <1>1 DEF SweptUpTo, Objects
<1>5. SweptUpTo(h, g, e) /\ LiveKept(h, g, e, live)
  BY <1>1, <1>2, <1>3, <1>4, SweepPasses
<1>6. Passed(g, e) = F
  <2>1. \A x \in Addr : x \in Int
    BY AddrNumbers
  <2>2. \A x \in Addr : c <= x /\ x < e => g.mem[x].kind # "free"
    BY <1>2, <1>3, <2>1, DataIsBlock
  <2> QED BY <1>2, <2>1, <2>2 DEF Passed, FreeBlocks
<1>7. F \subseteq Addr /\ \A x \in F : x < c
  BY DEF Passed, FreeBlocks
<1>8. SweepLocals(t, F, live)
  <2>1. IsBefore(F, c, s.last_free)
    BY <1>1 DEF SweepLocals
  <2>2. IsBefore(F, e, s.last_free)
    <3>1. s.last_free \in F \cup {NULL} /\ s.last_free < c /\ \A y \in F : y <= s.last_free
      BY <2>1, <1>7 DEF IsBefore
    <3>2. s.last_free \in Int
      <4>1. s.last_free \in Addr \cup {NULL}
        BY <3>1, <1>7
      <4> QED BY <4>1, AddrNumbers DEF Ref
    <3>3. s.last_free < e
      BY <3>1, <3>2, <1>2
    <3> QED BY <3>1, <3>3 DEF IsBefore
  <2>3. IsBefore(live, e, c)
    <3>1. ASSUME NEW y \in live, y < e PROVE y <= c
      <4>1. y \in Addr /\ y \in Int
        BY <1>4, AddrNumbers
      <4>2. h.mem[y].kind = "object"
        BY DEF Objects, InUse, IsObject
      <4>3. h.mem[y] # Data
        BY <4>2, DataIsBlock
      <4>4. \A x \in Addr : c < x /\ x < e => h.mem[x] = Data
        BY <1>1, SweepReaches
      <4> QED BY <3>1, <4>1, <4>3, <4>4, <1>2
    <3> QED BY <3>1, <1>2 DEF IsBefore
  <2>4. c # NULL
    BY <1>2, AddrNumbers
  <2> QED BY <2>1, <2>2, <2>3, <2>4 DEF SweepLocals
<1> QED BY <1>1, <1>5, <1>6, <1>8 DEF SweepInv

\* The locals after a block that is not live.
LEMMA SweepLocalsPass ==
    ASSUME NEW h, HeapType(h), Tiled(h), NEW live, live \subseteq Objects(h),
           NEW s, SweepInv(h, live, s), s.current < h.top, s.current \notin live,
           NEW G, NEW t, t.current = After(s.heap, s.current),
           t.alive_last = s.alive_last, t.before_free = s.before_free,
           G \subseteq Addr, \A y \in Addr : y < s.current => (y \in G <=> y \in Passed(s.heap, s.current)),
           t.last_free \in G, \A y \in G : y <= t.last_free, t.last_free <= s.current
    PROVE  SweepLocals(t, G, live)
<1> DEFINE g == s.heap
           c == s.current
           e == After(g, c)
           F == Passed(g, c)
<1>1. SweptUpTo(h, g, c) /\ SweepLocals(s, F, live)
  BY DEF SweepInv
<1>2. /\ c \in Addr /\ c \in Int /\ e \in Int /\ c < e
      /\ \A x \in Addr : c < x /\ x < e => h.mem[x] = Data
  BY <1>1, SweepReaches
<1>3. F \subseteq Addr /\ \A y \in F : y < c
  BY DEF Passed, FreeBlocks
<1>4. live \subseteq Addr /\ \A y \in live : h.mem[y] # Data
  BY DataIsBlock DEF Objects, InUse, IsObject
<1>5. t.last_free \in Int /\ t.last_free < e
  <2>1. t.last_free \in Addr
    OBVIOUS
  <2>2. t.last_free \in Int
    BY <2>1, AddrNumbers
  <2> QED BY <2>2, <1>2
<1>6. IsBefore(G, e, t.last_free)
  BY <1>5 DEF IsBefore
<1>7. IsBefore(live, c, s.alive_last)
  BY <1>1 DEF SweepLocals
<1>8. s.alive_last \in live \cup {NULL} /\ s.alive_last < c /\ \A y \in live : y < c => y <= s.alive_last
  BY <1>7 DEF IsBefore
<1>9. s.alive_last \in Int
  <2>1. s.alive_last \in Addr \cup {NULL}
    BY <1>4, <1>8
  <2> QED BY <2>1, AddrNumbers DEF Ref
<1>10. IsBefore(live, e, s.alive_last)
  <2>1. ASSUME NEW y \in live, y < e PROVE y <= s.alive_last
    <3>1. y \in Addr /\ y \in Int /\ y # c /\ h.mem[y] # Data
      BY <1>4, AddrNumbers
    <3>2. ~(c < y)
      BY <1>2, <2>1, <3>1
    <3> QED BY <3>1, <3>2, <1>2, <1>8
  <2>2. s.alive_last < e
    BY <1>2, <1>8, <1>9
  <2> QED BY <1>8, <2>1, <2>2 DEF IsBefore
<1>11. CASE s.alive_last = NULL
  BY <1>1, <1>6, <1>10, <1>11 DEF SweepLocals
<1>12. CASE s.alive_last # NULL
  <2>1. IsBefore(F, s.alive_last, s.before_free)
    BY <1>1, <1>12 DEF SweepLocals
  <2>2. s.before_free \in F \cup {NULL} /\ s.before_free < s.alive_last /\ \A y \in F : y < s.alive_last => y <= s.before_free
    BY <2>1 DEF IsBefore
  <2>3. s.before_free \in G \cup {NULL}
    BY <1>3, <2>2
  <2>4. ASSUME NEW y \in G, y < s.alive_last PROVE y <= s.before_free
    <3>1. y \in Int /\ y < c
      BY <1>2, <1>8, <1>9, <2>4, AddrNumbers
    <3> QED BY <2>2, <2>4, <3>1
  <2>5. IsBefore(G, s.alive_last, s.before_free)
    BY <2>2, <2>3, <2>4 DEF IsBefore
  <2> QED BY <1>6, <1>10, <1>12, <2>5 DEF SweepLocals
<1> QED BY <1>11, <1>12

\* Heap g2 is g with the block at c of len slots made free and linked after the free block last.
IsFreed(g, c, len, last, g2) ==
    /\ HeapType(g2) /\ g2.top = g.top
    /\ \A x \in Addr : x # c /\ x # last => g2.mem[x] = g.mem[x]
    /\ g2.mem[c] = FreeBlock(len, NULL, last)
    /\ last # NULL => /\ SameButLinks(g2.mem[last], g.mem[last])
                      /\ g2.mem[last].prev = g.mem[last].prev /\ g2.mem[last].next = c
    /\ g2.free = IF last = NULL THEN c ELSE g.free
    /\ len <= g2.largest /\ (last # NULL => g.largest <= g2.largest)

LEMMA FreedTiles ==
    ASSUME NEW g, HeapType(g), Tiled(g), NEW c \in Blocks(g), NEW last \in FreeBlocks(g) \cup {NULL}, last < c,
           NEW g2, IsFreed(g, c, g.mem[c].len, last, g2)
    PROVE  /\ Tiled(g2) /\ Bounds(g2) = Bounds(g)
           /\ \A x \in Addr : x # c => SameButLinks(g2.mem[x], g.mem[x])
           /\ g2.mem[c].kind = "free" /\ g2.mem[c].next = NULL /\ g2.mem[c].prev = last
           /\ ~g2.mem[c].pinned /\ \A x \in Addr : g2.mem[x].len = g.mem[x].len /\ After(g2, x) = After(g, x)
<1>1. /\ c \in Addr /\ c \in Int /\ c < g.top /\ g.mem[c].len \in 1 .. HeapSize /\ last \in Ref
      /\ last # NULL => last \in Addr /\ last # c
  <2>1. c \in Addr /\ c < g.top
    BY DEF Blocks
  <2>2. c \in Int
    BY <2>1, AddrNumbers
  <2>3. g.mem[c].len \in 1 .. HeapSize
    BY <2>1, HeapFields, BlockFields, AddrNumbers
  <2>4. last # NULL => last \in Addr /\ last # c
    BY <2>2 DEF FreeBlocks
  <2>5. last \in Ref
    BY <2>4 DEF Ref
  <2> QED BY <2>1, <2>2, <2>3, <2>4, <2>5
<1>2. /\ g2.mem[c] = FreeBlock(g.mem[c].len, NULL, last) /\ NULL \in Ref
  BY DEF IsFreed, Ref
<1>3. /\ g2.mem[c].kind = "free" /\ g2.mem[c].len = g.mem[c].len /\ g2.mem[c].next = NULL
      /\ g2.mem[c].prev = last /\ ~g2.mem[c].pinned
  BY <1>1, <1>2, FreeBlockIs
<1>4. \A x \in Addr : x # c => SameButLinks(g2.mem[x], g.mem[x])
  <2>1. ASSUME NEW x \in Addr, x # c PROVE SameButLinks(g2.mem[x], g.mem[x])
    <3>1. CASE x = last
      <4>1. last # NULL
        BY <3>1, AddrNumbers
      <4> QED BY <4>1, <3>1 DEF IsFreed
    <3>2. CASE x # last
      <4>1. g2.mem[x] = g.mem[x]
        BY <2>1, <3>2 DEF IsFreed
      <4> QED BY <4>1 DEF SameButLinks
    <3> QED BY <3>1, <3>2
  <2> QED BY <2>1
<1>5. \A x \in Addr : g2.mem[x].len = g.mem[x].len
  BY <1>3, <1>4 DEF SameButLinks
<1>6. \A x \in Addr : g2.mem[x].kind = "data" <=> g.mem[x].kind = "data"
  <2>1. g.mem[c].kind # "data"
    BY BlocksAre
  <2> QED BY <2>1, <1>3, <1>4 DEF SameButLinks
<1>7. HeapType(g2) /\ g2.top = g.top
  BY DEF IsFreed
<1>8. Blocks(g2) = Blocks(g)
  BY <1>6, <1>7, BlocksAre
<1>9. \A x \in Addr : After(g2, x) = After(g, x)
  BY <1>5 DEF After
<1>10. Blocks(g) \subseteq Addr
  BY DEF Blocks
<1>11. Tiled(g2) /\ Bounds(g2) = Bounds(g)
  BY <1>7, <1>8, <1>9, <1>10 DEF Tiled, Bounds
<1> QED BY <1>3, <1>4, <1>5, <1>9, <1>11

\* The block c, above the listed blocks F of which last is the last, linked after it.
IsAppended(g, F, c, last, g2) ==
    /\ c \in Addr /\ F \subseteq Addr /\ (\A y \in F : y < c) /\ IsBefore(F, c, last)
    /\ Linked(g.mem, F) /\ (F # {} => IsAfter(F, NULL, g.free))
    /\ \A x \in F : x # last => g2.mem[x] = g.mem[x]
    /\ last # NULL => g2.mem[last].prev = g.mem[last].prev /\ g2.mem[last].next = c
    /\ g2.mem[c].next = NULL /\ g2.mem[c].prev = last
    /\ g2.free = IF last = NULL THEN c ELSE g.free

\* The list with the freed block at its end.
LEMMA FreedLinks ==
    ASSUME NEW g, NEW F, NEW c, NEW last, NEW g2, IsAppended(g, F, c, last, g2)
    PROVE  Linked(g2.mem, F \cup {c}) /\ IsAfter(F \cup {c}, NULL, g2.free)
<1> /\ c \in Addr /\ F \subseteq Addr /\ (\A y \in F : y < c) /\ IsBefore(F, c, last)
    /\ Linked(g.mem, F) /\ (F # {} => IsAfter(F, NULL, g.free))
    /\ \A x \in F : x # last => g2.mem[x] = g.mem[x]
    /\ last # NULL => g2.mem[last].prev = g.mem[last].prev /\ g2.mem[last].next = c
    /\ g2.mem[c].next = NULL /\ g2.mem[c].prev = last
    /\ g2.free = IF last = NULL THEN c ELSE g.free
  BY DEF IsAppended
<1>1. c \in Int /\ NULL < c /\ F \subseteq Int /\ c \notin F
  <2>1. c \in Int /\ NULL < c /\ F \subseteq Int
    BY AddrNumbers
  <2> QED BY <2>1
<1>2. IsAfter(F, c, NULL)
  <2>1. \A y \in F : y <= c
    BY <1>1
  <2> QED BY <2>1 DEF IsAfter
<1>3. /\ \A a \in F : \A q : IsBefore(F, a, q) => IsBefore(F \cup {c}, a, IF a = NULL THEN c ELSE q)
      /\ \A a \in F : \A q : IsAfter(F, a, q) => IsAfter(F \cup {c}, a, IF a = last THEN c ELSE q)
      /\ \A q : IsAfter(F, NULL, q) => IsAfter(F \cup {c}, NULL, IF last = NULL THEN c ELSE q)
      /\ IsBefore(F \cup {c}, c, last) /\ IsAfter(F \cup {c}, c, NULL)
  BY <1>1, <1>2, NeighboursWith
<1>4. NULL \notin F
  BY AddrNumbers
<1>5. ASSUME NEW a \in F
      PROVE  IsBefore(F \cup {c}, a, g2.mem[a].prev) /\ IsAfter(F \cup {c}, a, g2.mem[a].next)
  <2>1. IsBefore(F, a, g.mem[a].prev) /\ IsAfter(F, a, g.mem[a].next) /\ a # NULL
    BY <1>4 DEF Linked
  <2>2. /\ IsBefore(F \cup {c}, a, g.mem[a].prev)
        /\ IsAfter(F \cup {c}, a, IF a = last THEN c ELSE g.mem[a].next)
    BY <2>1, <1>3
  <2>3. CASE a = last
    BY <2>1, <2>2, <2>3
  <2>4. CASE a # last
    BY <2>2, <2>4
  <2> QED BY <2>3, <2>4
<1>6. Linked(g2.mem, F \cup {c})
  <2>1. ASSUME NEW a \in F \cup {c}
        PROVE  IsBefore(F \cup {c}, a, g2.mem[a].prev) /\ IsAfter(F \cup {c}, a, g2.mem[a].next)
    BY <1>3, <1>5
  <2> QED BY <2>1 DEF Linked
<1>7. IsAfter(F \cup {c}, NULL, g2.free)
  <2>1. CASE F = {}
    <3>1. last = NULL
      BY <2>1 DEF IsBefore
    <3>2. g2.free = c
      BY <3>1
    <3> QED BY <2>1, <3>2, <1>1 DEF IsAfter
  <2>2. CASE F # {}
    BY <2>2, <1>3
  <2> QED BY <2>1, <2>2
<1> QED BY <1>6, <1>7

\* A dead block that touches no free block is put at the end of the list.
LEMMA SweepFrees ==
    ASSUME NEW h, HeapType(h), Tiled(h), OnList(h, FreeBlocks(h)), NEW live, live \subseteq Objects(h),
           NEW s, SweepInv(h, live, s), s.current < h.top, s.current \notin live,
           s.last_free # NULL => After(s.heap, s.last_free) # s.current,
           NEW t, t.current = After(s.heap, s.current), t.last_free = s.current,
           t.alive_last = s.alive_last, t.before_free = s.before_free,
           IsFreed(s.heap, s.current, s.heap.mem[s.current].len, s.last_free, t.heap)
    PROVE  SweepInv(h, live, t)
<1> DEFINE g == s.heap
           c == s.current
           e == After(g, c)
           last == s.last_free
           F == Passed(g, c)
           g2 == t.heap
           G == F \cup {c}
<1>1. SweptUpTo(h, g, c) /\ LiveKept(h, g, c, live) /\ PinsKept(h, g) /\ NewList(h, g, F) /\ SweepLocals(s, F, live)
  BY DEF SweepInv
<1>2. /\ c \in Addr /\ c \in Int /\ c \in Blocks(g) /\ e \in Bounds(g) /\ e \in Int /\ c < e /\ e <= h.top
      /\ e = c + g.mem[c].len
      /\ \A x \in Addr : c < x /\ x < e => g.mem[x] = Data
  BY <1>1, SweepReaches
<1>3. HeapType(g) /\ Tiled(g) /\ g.top = h.top
  BY <1>1 DEF SweptUpTo
<1>4. F \subseteq FreeBlocks(g) /\ F \subseteq Addr /\ \A y \in F : y < c
  BY DEF Passed, FreeBlocks
<1>5. IsBefore(F, c, last)
  BY <1>1 DEF SweepLocals
<1>6. last \in F \cup {NULL} /\ last < c
  BY <1>5 DEF IsBefore
<1>7. IsFreed(g, c, g.mem[c].len, last, g2)
  OBVIOUS
<1>8. /\ Tiled(g2) /\ Bounds(g2) = Bounds(g)
      /\ \A x \in Addr : x # c => SameButLinks(g2.mem[x], g.mem[x])
      /\ g2.mem[c].kind = "free" /\ g2.mem[c].next = NULL /\ g2.mem[c].prev = last
      /\ ~g2.mem[c].pinned /\ \A x \in Addr : g2.mem[x].len = g.mem[x].len /\ After(g2, x) = After(g, x)
  <2>1. last \in FreeBlocks(g) \cup {NULL}
    BY <1>4, <1>6
  <2> QED BY <1>2, <1>3, <1>6, <1>7, <2>1, FreedTiles
<1>9. HeapType(g2) /\ g2.top = g.top /\ \A x \in Addr : x # c /\ x # last => g2.mem[x] = g.mem[x]
  BY <1>7 DEF IsFreed
<1>10. SweptUpTo(h, g2, e) /\ LiveKept(h, g2, e, live)
  <2>1. \A x \in Addr : x \in Int
    BY AddrNumbers
  <2>2. last \in F => last < c
    BY <1>4
  <2>3. \A x \in Addr : c < x => x # c /\ x # last
    BY <1>2, <1>6, <2>1, <2>2, AddrNumbers
  <2>4. \A x \in Addr : e <= x => g2.mem[x] = g.mem[x]
    <3>1. \A x \in Addr : e <= x => c < x
      BY <1>2, <2>1
    <3> QED BY <2>3, <3>1, <1>9
  <2>5. \A x \in Addr : c < x /\ x < e => g2.mem[x] = Data
    BY <1>2, <1>9, <2>3
  <2>6. \A x \in live : g2.mem[x] = g.mem[x]
    <3>1. ASSUME NEW x \in live PROVE x # c /\ x # last /\ x \in Addr
      <4>1. x \in Addr
        BY DEF Objects
      <4>2. ASSUME x = last PROVE FALSE
        <5>1. x \in F
          BY <4>1, <4>2, <1>6, AddrNumbers
        <5>2. g.mem[x].kind = "free" /\ x < c
          BY <5>1, <1>4 DEF FreeBlocks
        <5>3. g.mem[x].kind = "object"
          BY <4>1, <5>2, <1>1 DEF LiveKept
        <5> QED BY <5>2, <5>3
      <4> QED BY <4>1, <4>2
    <3> QED BY <3>1, <1>9
  <2>7. \A x \in Addr : x < c => g2.mem[x].kind = g.mem[x].kind
    <3>1. \A x \in Addr : x < c => x # c
      BY <2>1, <1>2
    <3> QED BY <1>8, <3>1 DEF SameButLinks
  <2>8. g2.mem[c].kind = "object" <=> c \in live
    BY <1>8
  <2>9. e \in Bounds(g2)
    BY <1>2, <1>8
  <2>10. c < h.top /\ e = After(g, c) /\ \A x \in live : x <= c => g2.mem[x] = g.mem[x]
    BY <2>6
  <2>11. SweptUpTo(h, g, c) /\ LiveKept(h, g, c, live) /\ HeapType(g2) /\ Tiled(g2) /\ g2.top = g.top
    BY <1>1, <1>8, <1>9
  <2> HIDE DEF g, c, e, g2, F
  <2> QED BY <2>4, <2>5, <2>7, <2>8, <2>9, <2>10, <2>11, SweepPasses
<1>11. Passed(g2, e) = G
  <2>1. \A x \in Addr : x \in Int
    BY AddrNumbers
  <2>2. \A x \in Addr : x < c => (g2.mem[x].kind = "free" <=> g.mem[x].kind = "free")
    <3>1. \A x \in Addr : x < c => x # c
      BY <2>1, <1>2
    <3> QED BY <1>8, <3>1 DEF SameButLinks
  <2>3. \A x \in Addr : c < x /\ x < e => g2.mem[x].kind # "free"
    <3>1. \A x \in Addr : c < x /\ x < e => g2.mem[x].kind = "data"
      <4>1. \A x \in Addr : c < x => x # c
        BY <2>1, <1>2
      <4>2. \A x \in Addr : c < x /\ x < e => g.mem[x].kind = "data"
        BY <1>2, DataIsBlock
      <4> QED BY <1>8, <4>1, <4>2 DEF SameButLinks
    <3> QED BY <3>1
  <2>4. g2.mem[c].kind = "free" /\ c < g.top /\ g.top \in Int
    <3>1. g.top \in Addr
      BY <1>3, HeapFields
    <3> QED BY <1>8, <1>2, <3>1, AddrNumbers DEF Blocks
  <2>5. ASSUME NEW x \in Addr PROVE x \in Passed(g2, e) <=> x \in G
    <3>1. CASE x < c
      BY <3>1, <2>1, <2>2, <2>4, <1>2, <1>9 DEF Passed, FreeBlocks
    <3>2. CASE x = c
      BY <3>2, <2>4, <1>2, <1>9 DEF Passed, FreeBlocks
    <3>3. CASE c < x
      BY <3>3, <2>1, <2>3, <1>2 DEF Passed, FreeBlocks
    <3> QED BY <3>1, <3>2, <3>3, <2>1, <1>2
  <2>6. Passed(g2, e) \subseteq Addr /\ G \subseteq Addr
    BY <1>2, <1>4 DEF Passed, FreeBlocks
  <2> QED BY <2>5, <2>6
<1>12. NewList(h, g2, G)
  <2>1. Linked(g2.mem, G) /\ IsAfter(G, NULL, g2.free)
    <3>1. Linked(g.mem, F) /\ (F # {} => IsAfter(F, NULL, g.free))
      BY <1>1 DEF NewList
    <3>2. \A x \in F : x # last => g2.mem[x] = g.mem[x]
      <4>1. \A x \in F : x \in Addr /\ x # c
        BY <1>4, <1>2, AddrNumbers
      <4> QED BY <4>1, <1>9
    <3>3. /\ last # NULL => g2.mem[last].prev = g.mem[last].prev /\ g2.mem[last].next = c
          /\ g2.free = IF last = NULL THEN c ELSE g.free
      BY <1>7 DEF IsFreed
    <3>4. /\ c \in Addr /\ F \subseteq Addr /\ \A y \in F : y < c
          /\ g2.mem[c].next = NULL /\ g2.mem[c].prev = last /\ G = F \cup {c}
      BY <1>2, <1>4, <1>8
    <3> HIDE DEF g, c, e, g2, F, last, G
    <3>5. IsAppended(g, F, c, last, g2)
      BY <1>5, <3>1, <3>2, <3>3, <3>4 DEF IsAppended
    <3>6. Linked(g2.mem, F \cup {c}) /\ IsAfter(F \cup {c}, NULL, g2.free)
      BY <3>5, FreedLinks
    <3> QED BY <3>4, <3>6
  <2>2. ASSUME NEW a \in G PROVE After(g2, a) \notin G /\ g2.mem[a].len <= g2.largest
    <3>1. CASE a = c
      <4>1. After(g2, a) = e
        BY <3>1, <1>2, <1>8
      <4>2. e \notin G
        BY <1>2, <1>4
      <4>3. g.mem[c].len <= g2.largest
        BY <1>7 DEF IsFreed
      <4>4. g2.mem[c].len = g.mem[c].len
        BY <1>2, <1>8
      <4> QED BY <3>1, <4>1, <4>2, <4>3, <4>4
    <3>2. CASE a # c
      <4>1. a \in F /\ a \in Addr /\ a \in Int /\ a < c /\ a \in Blocks(g)
        <5>1. a \in F
          BY <3>2
        <5>2. a \in FreeBlocks(g) /\ a \in Addr /\ a < c
          BY <1>4, <5>1
        <5> QED BY <5>1, <5>2, <1>3, BlocksAre, AddrNumbers
      <4>2. After(g, a) \notin F /\ g.mem[a].len <= g.largest
        BY <4>1, <1>1 DEF NewList
      <4>3. last \in F /\ a <= last /\ last # NULL
        <5>1. a <= last
          BY <4>1, <1>5 DEF IsBefore
        <5>2. 0 <= a
          BY <4>1, AddrNumbers
        <5>3. last # NULL
          BY <5>1, <5>2, <4>1, AddrNumbers
        <5> QED BY <5>1, <5>3, <1>6
      <4>4. After(g, a) # c
        <5>1. CASE a = last
          BY <5>1, <4>3
        <5>2. CASE a # last
          <6>1. last \in Addr /\ last \in Int /\ last \in Bounds(g)
            <7>1. last \in FreeBlocks(g) /\ last \in Addr
              BY <4>3, <1>4
            <7>2. last \in Blocks(g)
              BY <7>1, <1>3, BlocksAre
            <7> QED BY <7>1, <7>2, AddrNumbers DEF Bounds
          <6>2. a < last
            BY <4>1, <4>3, <5>2, <6>1
          <6>3. After(g, a) <= last /\ After(g, a) \in Int
            <7>1. After(g, a) <= last
              BY <6>1, <6>2, <4>1, <1>3, Tiles
            <7>2. After(g, a) \in Bounds(g)
              BY <4>1, <1>3, Tiles
            <7> QED BY <7>1, <7>2, <1>3, Tiles
          <6> QED BY <6>1, <6>3, <1>2, <1>6
        <5> QED BY <5>1, <5>2
      <4>5. g.mem[a].len <= g2.largest
        <5>1. g.largest <= g2.largest
          BY <4>3, <1>7 DEF IsFreed
        <5>2. g.mem[a].len \in Int
          BY <4>1, <1>3, HeapFields, BlockFields
        <5>3. g.largest \in Int /\ g2.largest \in Int
          BY <1>3, <1>9, HeapFields
        <5> QED BY <5>1, <5>2, <5>3, <4>2
      <4> QED BY <4>1, <4>2, <4>4, <4>5, <1>8
    <3> QED BY <3>1, <3>2
  <2> QED BY <2>1, <2>2 DEF NewList
<1>13. PinsKept(h, g2)
  <2>1. \A x \in Addr : x # c => g2.mem[x].pinned = g.mem[x].pinned
    BY <1>8 DEF SameButLinks
  <2> QED BY <2>1, <1>1, <1>8 DEF PinsKept
<1>14. SweepLocals(t, G, live)
  <2>1. G \subseteq Addr /\ c \in G /\ c <= c /\ \A y \in G : y <= c
    <3>1. F \subseteq Int
      BY <1>4, AddrNumbers
    <3>2. \A y \in F : y <= c
      BY <3>1, <1>2, <1>4
    <3> QED BY <3>2, <1>2, <1>4
  <2>2. \A y \in Addr : y < c => (y \in G <=> y \in F)
    BY <1>2
  <2> QED BY <2>1, <2>2, SweepLocalsPass
<1> QED BY <1>10, <1>11, <1>12, <1>13, <1>14 DEF SweepInv

\* Heap g2 is g with the free block at p extended by the block at c, after it.
IsMerged(g, p, c, g2) ==
    /\ HeapType(g2) /\ g2.top = g.top /\ g2.free = g.free
    /\ \A x \in Addr : x # c /\ x # p => g2.mem[x] = g.mem[x]
    /\ g2.mem[c] = Data
    /\ g2.mem[p].kind = "free" /\ g2.mem[p].prev = g.mem[p].prev /\ g2.mem[p].next = g.mem[p].next
    /\ g2.mem[p].pinned = g.mem[p].pinned /\ g2.mem[p].len = g.mem[p].len + g.mem[c].len
    /\ g2.mem[p].len <= g2.largest /\ g.largest <= g2.largest

LEMMA MergedTiles ==
    ASSUME NEW g, HeapType(g), Tiled(g), NEW p \in Blocks(g), NEW c \in Blocks(g), After(g, p) = c,
           NEW g2, IsMerged(g, p, c, g2)
    PROVE  /\ Tiled(g2) /\ Blocks(g2) = Blocks(g) \ {c} /\ Bounds(g2) = Bounds(g) \ {c}
           /\ \A x \in Blocks(g) : x # c /\ x # p => After(g2, x) = After(g, x)
           /\ After(g2, p) = After(g, c)
<1> DEFINE e == After(g, c)
<1>1. /\ p \in Addr /\ p \in Int /\ c \in Addr /\ c \in Int /\ e \in Bounds(g) /\ e \in Int
      /\ p < c /\ c < e /\ c = p + g.mem[p].len /\ e = c + g.mem[c].len
      /\ g.mem[p].len \in Int /\ g.mem[c].len \in Int /\ c < g.top
  <2>1. /\ p \in Addr /\ c \in Addr /\ c < g.top
    BY DEF Blocks
  <2>2. e \in Bounds(g) /\ c < e /\ p < c
    BY Tiles
  <2>3. e \in Int
    BY <2>2, Tiles
  <2>4. c = p + g.mem[p].len /\ e = c + g.mem[c].len
    BY DEF After
  <2>5. g.mem[p].len \in Int /\ g.mem[c].len \in Int
    BY Tiles
  <2> QED BY <2>1, <2>2, <2>3, <2>4, <2>5, AddrNumbers
<1>2. \A x \in Blocks(g) : x \in Addr /\ x \in Int /\ (x < p \/ x = p \/ x = c \/ e <= x)
  <2>1. \A x \in Blocks(g) : x \in Addr /\ x \in Int
    BY AddrNumbers DEF Blocks
  <2>2. \A x \in Blocks(g) : (p < x => c <= x) /\ (c < x => e <= x)
    <3>1. Blocks(g) \subseteq Bounds(g)
      BY DEF Bounds
    <3> QED BY <3>1, Tiles
  <2>3. ASSUME NEW x \in Blocks(g) PROVE x < p \/ x = p \/ x = c \/ e <= x
    <3>1. x \in Int /\ (p < x => c <= x) /\ (c < x => e <= x)
      BY <2>1, <2>2
    <3> HIDE DEF e
    <3> QED BY <3>1, <1>1
  <2> QED BY <2>1, <2>3
<1> HIDE DEF e
<1>3. Recut(g, g2, p, e, e)
  <2>1. \A x \in Addr : x \in Int
    BY AddrNumbers
  <2>2. ASSUME NEW x \in Addr, x < p \/ e <= x
        PROVE  g2.mem[x].kind = g.mem[x].kind /\ g2.mem[x].len = g.mem[x].len
    <3>1. x # p /\ x # c
      BY <2>1, <2>2, <1>1
    <3> QED BY <3>1 DEF IsMerged
  <2>3. ASSUME NEW x \in Addr, p < x, x < e PROVE g2.mem[x].kind = "data"
    <3>1. CASE x = c
      BY <3>1, DataIsBlock DEF IsMerged
    <3>2. CASE x # c
      <4>1. x \notin Blocks(g)
        BY <1>1, <1>2, <2>1, <2>3, <3>2
      <4>2. g.top \in Int /\ e <= g.top
        BY Tiles DEF e
      <4>3. x < g.top
        BY <4>2, <2>1, <2>3, <1>1
      <4>4. g.mem[x] = Data
        BY <4>1, <4>3 DEF Blocks
      <4>5. x # p /\ x # c
        BY <1>1, <2>1, <2>3, <3>2
      <4>6. g2.mem[x] = g.mem[x]
        BY <4>5 DEF IsMerged
      <4> QED BY <4>4, <4>6, DataIsBlock
    <3> QED BY <3>1, <3>2
  <2>4. g2.mem[p].kind # "data" /\ g2.mem[p].len = e - p /\ g2.top = g.top
    <3>1. g2.mem[p].kind = "free" /\ g2.mem[p].len = g.mem[p].len + g.mem[c].len /\ g2.top = g.top
      BY DEF IsMerged
    <3> QED BY <3>1, <1>1
  <2>5. p < e /\ e <= e /\ ~(e < e)
    BY <1>1
  <2> QED BY <1>1, <2>2, <2>3, <2>4, <2>5 DEF Recut
<1>4. HeapType(g2) /\ g2.top = g.top
  BY DEF IsMerged
<1>5. /\ Tiled(g2)
      /\ \A x : x \in Blocks(g2) <=> x = p \/ (x = e /\ e < e) \/ (x \in Blocks(g) /\ (x < p \/ e <= x))
      /\ After(g2, p) = e
      /\ \A x \in Blocks(g) : x < p \/ e <= x => After(g2, x) = After(g, x)
  BY <1>3, <1>4, RecutTiles
<1>6. Blocks(g2) = Blocks(g) \ {c}
  <2>1. ~(e < e)
    BY <1>1
  <2>2. \A x : x \in Blocks(g2) <=> x = p \/ (x \in Blocks(g) /\ (x < p \/ e <= x))
    BY <1>5, <2>1
  <2>3. \A x \in Blocks(g) : x # c <=> x = p \/ x < p \/ e <= x
    BY <1>1, <1>2
  <2> QED BY <2>2, <2>3
<1>7. Bounds(g2) = Bounds(g) \ {c}
  <2>1. c # g.top
    BY <1>1, Tiles
  <2> QED BY <1>4, <1>6, <2>1 DEF Bounds
<1>8. \A x \in Blocks(g) : x # c /\ x # p => After(g2, x) = After(g, x)
  BY <1>2, <1>5
<1> QED BY <1>5, <1>6, <1>7, <1>8 DEF e

\* A dead block that touches the last free block is joined to it.
LEMMA SweepMerges ==
    ASSUME NEW h, HeapType(h), Tiled(h), OnList(h, FreeBlocks(h)), NEW live, live \subseteq Objects(h),
           NEW s, SweepInv(h, live, s), s.current < h.top, s.current \notin live,
           s.last_free # NULL, After(s.heap, s.last_free) = s.current,
           NEW t, t.current = After(s.heap, s.current), t.last_free = s.last_free,
           t.alive_last = s.alive_last, t.before_free = s.before_free,
           IsMerged(s.heap, s.last_free, s.current, t.heap)
    PROVE  SweepInv(h, live, t)
<1> DEFINE g == s.heap
           c == s.current
           e == After(g, c)
           p == s.last_free
           F == Passed(g, c)
           g2 == t.heap
<1>1. SweptUpTo(h, g, c) /\ LiveKept(h, g, c, live) /\ PinsKept(h, g) /\ NewList(h, g, F) /\ SweepLocals(s, F, live)
  BY DEF SweepInv
<1>2. /\ c \in Addr /\ c \in Int /\ c \in Blocks(g) /\ e \in Bounds(g) /\ e \in Int /\ c < e /\ e <= h.top
      /\ e = c + g.mem[c].len
      /\ \A x \in Addr : c < x /\ x < e => g.mem[x] = Data
  BY <1>1, SweepReaches
<1>3. HeapType(g) /\ Tiled(g) /\ g.top = h.top
  BY <1>1 DEF SweptUpTo
<1>4. F \subseteq FreeBlocks(g) /\ F \subseteq Addr /\ \A y \in F : y < c
  BY DEF Passed, FreeBlocks
<1>5. IsBefore(F, c, p)
  BY <1>1 DEF SweepLocals
<1>6. p \in F /\ p < c /\ p \in Blocks(g) /\ p \in Addr /\ p \in Int /\ \A y \in F : y <= p
  <2>1. p \in F /\ p < c /\ \A y \in F : y <= p
    BY <1>4, <1>5 DEF IsBefore
  <2>2. p \in Addr /\ p \in FreeBlocks(g)
    BY <1>4, <2>1
  <2> QED BY <2>1, <2>2, <1>3, BlocksAre, AddrNumbers
<1>7. IsMerged(g, p, c, g2)
  OBVIOUS
<1>8. /\ Tiled(g2) /\ Bounds(g2) = Bounds(g) \ {c}
      /\ \A x \in Blocks(g) : x # c /\ x # p => After(g2, x) = After(g, x)
      /\ After(g2, p) = e
  <2>1. After(g, p) = c
    OBVIOUS
  <2> HIDE DEF g, c, p, g2
  <2> QED BY <1>2, <1>3, <1>6, <1>7, <2>1, MergedTiles
<1>9. /\ HeapType(g2) /\ g2.top = g.top /\ g2.free = g.free /\ g2.mem[c] = Data
      /\ \A x \in Addr : x # c /\ x # p => g2.mem[x] = g.mem[x]
  BY <1>7 DEF IsMerged
<1>10. /\ g2.mem[p].kind = "free" /\ g2.mem[p].prev = g.mem[p].prev /\ g2.mem[p].next = g.mem[p].next
       /\ g2.mem[p].pinned = g.mem[p].pinned /\ g2.mem[p].len <= g2.largest /\ g.largest <= g2.largest
  BY <1>7 DEF IsMerged
<1>11. \A x \in Addr : x \in Int
  BY AddrNumbers
<1>12. g.mem[p].kind = "free"
  BY <1>4, <1>6 DEF FreeBlocks
<1>13. SweptUpTo(h, g2, e) /\ LiveKept(h, g2, e, live)
  <2>1. \A x \in Addr : c < x => g2.mem[x] = g.mem[x]
    BY <1>2, <1>6, <1>9, <1>11
  <2>2. \A x \in Addr : e <= x => g2.mem[x] = g.mem[x]
    <3>1. \A x \in Addr : e <= x => c < x
      BY <1>2, <1>11
    <3> QED BY <2>1, <3>1
  <2>3. \A x \in Addr : c < x /\ x < e => g2.mem[x] = Data
    BY <1>2, <2>1
  <2>4. \A x \in live : x <= c => g2.mem[x] = g.mem[x]
    <3>1. p \notin live
      BY <1>1, <1>6, <1>12 DEF LiveKept
    <3>2. \A x \in live : x # c /\ x # p /\ x \in Addr
      BY <3>1 DEF Objects
    <3> QED BY <3>2, <1>9
  <2>5. \A x \in Addr : x < c => g2.mem[x].kind = g.mem[x].kind
    <3>1. \A x \in Addr : x < c => x # c
      BY <1>2, <1>11
    <3> QED BY <3>1, <1>9, <1>10, <1>12
  <2>6. g2.mem[c].kind = "object" <=> c \in live
    BY <1>9, DataIsBlock
  <2>7. e \in Bounds(g2)
    BY <1>2, <1>8
  <2>8. c < h.top /\ e = After(g, c)
    OBVIOUS
  <2>9. SweptUpTo(h, g, c) /\ LiveKept(h, g, c, live) /\ HeapType(g2) /\ Tiled(g2) /\ g2.top = g.top
    BY <1>1, <1>8, <1>9
  <2> HIDE DEF g, c, e, g2, F
  <2> QED BY <2>2, <2>3, <2>4, <2>5, <2>6, <2>7, <2>8, <2>9, SweepPasses
<1>14. Passed(g2, e) = F
  <2>1. ASSUME NEW x \in Addr PROVE x \in Passed(g2, e) <=> x \in F
    <3>1. CASE x < c
      <4>1. g2.mem[x].kind = "free" <=> g.mem[x].kind = "free"
        BY <3>1, <1>2, <1>9, <1>10, <1>12
      <4> QED BY <3>1, <4>1, <1>2, <1>9, <1>11 DEF Passed, FreeBlocks
    <3>2. CASE x = c
      BY <3>2, <1>2, <1>9, DataIsBlock DEF Passed, FreeBlocks
    <3>3. CASE c < x
      <4>1. x \notin F
        BY <3>3, <1>2, <1>4, <1>11
      <4>2. x < e => g2.mem[x].kind # "free"
        <5>1. x # c /\ x # p
          BY <3>3, <1>2, <1>6, <1>11
        <5> QED BY <3>3, <5>1, <1>2, <1>9, DataIsBlock
      <4> QED BY <4>1, <4>2 DEF Passed, FreeBlocks
    <3> QED BY <3>1, <3>2, <3>3, <1>2, <1>11
  <2>2. Passed(g2, e) \subseteq Addr
    BY DEF Passed, FreeBlocks
  <2> QED BY <2>1, <2>2, <1>4
<1>15. NewList(h, g2, F)
  <2>1. \A a \in F : a \in Addr /\ a # c /\ a \in Blocks(g) /\ (a # p => g2.mem[a] = g.mem[a])
    <3>1. \A a \in F : a \in Addr /\ a # c
      BY <1>2, <1>4, <1>11
    <3>2. \A a \in F : a \in Blocks(g)
      BY <1>3, <1>4, BlocksAre
    <3> QED BY <3>1, <3>2, <1>9
  <2>2. \A a \in F : g2.mem[a].prev = g.mem[a].prev /\ g2.mem[a].next = g.mem[a].next
    BY <2>1, <1>10
  <2>3. Linked(g2.mem, F)
    BY <2>2, <1>1 DEF Linked, NewList
  <2>4. F # {} /\ IsAfter(F, NULL, g2.free)
    BY <1>1, <1>6, <1>9 DEF NewList
  <2>5. ASSUME NEW a \in F PROVE After(g2, a) \notin F /\ g2.mem[a].len <= g2.largest
    <3>1. CASE a = p
      <4>1. e \notin F
        BY <1>2, <1>4
      <4> QED BY <3>1, <4>1, <1>8, <1>10
    <3>2. CASE a # p
      <4>1. After(g, a) \notin F /\ g.mem[a].len <= g.largest
        BY <1>1 DEF NewList
      <4>2. After(g2, a) = After(g, a) /\ g2.mem[a] = g.mem[a]
        BY <2>1, <3>2, <1>8
      <4>3. g.mem[a].len \in Int
        BY <2>1, <1>3, HeapFields, BlockFields
      <4>4. g.largest \in Int /\ g2.largest \in Int
        BY <1>3, <1>9, HeapFields
      <4> QED BY <4>1, <4>2, <4>3, <4>4, <1>10
    <3> QED BY <3>1, <3>2
  <2> QED BY <2>3, <2>4, <2>5 DEF NewList
<1>16. PinsKept(h, g2)
  BY <1>1, <1>9, <1>10, DataIsBlock DEF PinsKept
<1>17. SweepLocals(t, F, live)
  <2>1. F \subseteq Addr /\ p \in F /\ p <= c /\ \A y \in F : y <= p
    BY <1>2, <1>4, <1>6
  <2> QED BY <2>1, SweepLocalsPass
<1> QED BY <1>13, <1>14, <1>15, <1>16, <1>17 DEF SweepInv

Heaps == [mem : [Addr -> Block], top : Addr, free : Ref, largest : 0 .. HeapSize]
SweepStates == [heap : Heaps, current : Addr, last_free : Ref, before_free : Ref, alive_last : Ref]

\* Heap g2 is g with other headers, another head of the list and another hint.
IsRewritten(g, m, f, l, g2) ==
    HeapType(g2) /\ g2.mem = m /\ g2.free = f /\ g2.largest = l /\ g2.top = g.top

LEMMA HeadersSet ==
    ASSUME NEW g, HeapType(g), NEW m \in [Addr -> Block],
           \A x \in Addr : m[x].kind = "data" => m[x] = Data,
           NEW f \in Ref, NEW l \in 0 .. HeapSize
    PROVE  IsRewritten(g, m, f, l, [g EXCEPT !.mem = m, !.free = f, !.largest = l])
<1>1. g \in Heaps
  BY DEF HeapType, Heaps
<1> DEFINE g2 == [g EXCEPT !.mem = m, !.free = f, !.largest = l]
<1>2. g2 \in Heaps /\ g2.mem = m /\ g2.free = f /\ g2.largest = l /\ g2.top = g.top
  BY <1>1 DEF Heaps
<1> HIDE DEF g2
<1>3. HeapType(g2)
  BY <1>2 DEF HeapType, Heaps
<1>4. IsRewritten(g, m, f, l, g2)
  BY <1>2, <1>3 DEF IsRewritten
<1> QED BY <1>4 DEF g2

\* What the three ways to pass a dead block do to the heap.
LEMMA HeadIs ==
    ASSUME NEW s \in SweepStates, HeapType(s.heap), NEW len \in 1 .. HeapSize
    PROVE  /\ IsFreed(s.heap, s.current, len, NULL, SweepHead(s, len).heap)
           /\ SweepHead(s, len) \in SweepStates
           /\ SweepHead(s, len) = [s EXCEPT !.last_free = s.current, !.heap = SweepHead(s, len).heap]
<1> DEFINE g == s.heap
           c == s.current
           m == [g.mem EXCEPT ![c] = FreeBlock(len, NULL, NULL)]
           g2 == [g EXCEPT !.mem = m, !.free = c, !.largest = len]
<1>1. g \in Heaps /\ c \in Addr /\ c \in Ref /\ NULL \in Ref /\ len \in 0 .. HeapSize
  BY HeapSizeAssumption DEF SweepStates, Ref
<1>2. LET b == FreeBlock(len, NULL, NULL) IN b \in Block /\ b.kind = "free"
  BY <1>1, FreeBlockIs
<1>3. m \in [Addr -> Block] /\ \A x \in Addr : m[x].kind = "data" => m[x] = Data
  <2>1. g.mem \in [Addr -> Block] /\ \A x \in Addr : g.mem[x].kind = "data" => g.mem[x] = Data
    BY HeapFields
  <2> QED BY <2>1, <1>1, <1>2
<1>4. SweepHead(s, len) = [s EXCEPT !.last_free = c, !.heap = g2]
  BY <1>1 DEF SweepHead, SweepStates, Heaps
<1>5. m[c] = FreeBlock(len, NULL, NULL) /\ \A x \in Addr : x # c => m[x] = g.mem[x]
  BY <1>1 DEF Heaps
<1>10. HeapType(g)
  OBVIOUS
<1> HIDE DEF m, g
<1>6. HeapType(g2) /\ g2.mem = m /\ g2.free = c /\ g2.largest = len /\ g2.top = g.top
  <2>1. IsRewritten(g, m, c, len, g2)
    BY <1>1, <1>3, <1>10, HeadersSet
  <2> QED BY <2>1 DEF IsRewritten
<1>7. g2 \in Heaps
  BY <1>6 DEF HeapType, Heaps
<1> HIDE DEF g2
<1>8. SweepHead(s, len).heap = g2 /\ SweepHead(s, len) \in SweepStates
  BY <1>1, <1>4, <1>7 DEF SweepStates
<1>9. IsFreed(g, c, len, NULL, g2)
  BY <1>5, <1>6 DEF IsFreed
<1> QED BY <1>4, <1>8, <1>9 DEF g

LEMMA LinkIs ==
    ASSUME NEW s \in SweepStates, HeapType(s.heap), NEW len \in 1 .. HeapSize,
           s.last_free # NULL, s.last_free # s.current, s.heap.mem[s.last_free].kind = "free"
    PROVE  /\ IsFreed(s.heap, s.current, len, s.last_free, SweepLink(s, len).heap)
           /\ SweepLink(s, len) \in SweepStates
           /\ SweepLink(s, len) = [s EXCEPT !.last_free = s.current, !.heap = SweepLink(s, len).heap]
<1> DEFINE g == s.heap
           c == s.current
           p == s.last_free
           b == FreeBlock(len, NULL, p)
           q == [g.mem[p] EXCEPT !.next = c]
           m == [g.mem EXCEPT ![c] = b, ![p] = q]
           l == IF len > g.largest THEN len ELSE g.largest
           g2 == [g EXCEPT !.mem = m, !.free = g.free, !.largest = l]
<1>1. /\ g \in Heaps /\ c \in Addr /\ c \in Ref /\ p \in Addr /\ p \in Ref /\ NULL \in Ref /\ p # c
      /\ len \in 0 .. HeapSize
  BY HeapSizeAssumption DEF SweepStates, Ref
<1>2. b \in Block /\ b.kind = "free"
  BY <1>1, FreeBlockIs
<1>3. g.mem \in [Addr -> Block] /\ \A x \in Addr : g.mem[x].kind = "data" => g.mem[x] = Data
  BY HeapFields
<1>4. q \in Block /\ q.kind = "free" /\ SameButLinks(q, g.mem[p]) /\ q.prev = g.mem[p].prev /\ q.next = c
  <2>1. g.mem[p] \in Block /\ g.mem[p].kind = "free"
    BY <1>1, <1>3
  <2> QED BY <1>1, <2>1 DEF Block, SameButLinks
<1>5. SweepLink(s, len) = [s EXCEPT !.last_free = c, !.heap = g2]
  <2>1. [g.mem EXCEPT ![c] = b, ![p].next = c] = m
    BY <1>1, <1>3
  <2> DEFINE gx == [g EXCEPT !.mem[c] = b, !.mem[p].next = c, !.largest = IF len > @ THEN len ELSE @]
  <2>2. gx = [g EXCEPT !.mem = [g.mem EXCEPT ![c] = b, ![p].next = c], !.largest = l]
    BY <1>1 DEF Heaps
  <2>3. SweepLink(s, len) = [s EXCEPT !.last_free = c, !.heap = gx]
    BY <1>1 DEF SweepLink, SweepStates, Heaps
  <2> HIDE DEF m, l, b, q, gx
  <2>4. gx = g2
    BY <2>1, <2>2, <1>1 DEF Heaps
  <2> QED BY <2>3, <2>4
<1>6. m[c] = b /\ m[p] = q /\ \A x \in Addr : x # c /\ x # p => m[x] = g.mem[x]
  BY <1>1, <1>3
<1>7. m \in [Addr -> Block]
  BY <1>1, <1>2, <1>3, <1>4
<1> HIDE DEF b, q, m
<1>8. \A x \in Addr : m[x].kind = "data" => m[x] = Data
  BY <1>2, <1>3, <1>4, <1>6
<1>9. l \in 0 .. HeapSize /\ len <= l /\ g.largest <= l
  BY <1>1 DEF Heaps
<1>10. g.free \in Ref
  BY <1>1 DEF Heaps
<1>16. HeapType(g)
  OBVIOUS
<1> HIDE DEF l, g
<1>11. HeapType(g2) /\ g2.mem = m /\ g2.free = g.free /\ g2.largest = l /\ g2.top = g.top
  <2>1. IsRewritten(g, m, g.free, l, g2)
    BY <1>7, <1>8, <1>9, <1>10, <1>16, HeadersSet
  <2> QED BY <2>1 DEF IsRewritten
<1>12. g2 \in Heaps
  BY <1>11 DEF HeapType, Heaps
<1> HIDE DEF g2
<1>13. SweepLink(s, len).heap = g2 /\ SweepLink(s, len) \in SweepStates
  BY <1>1, <1>5, <1>12 DEF SweepStates
<1>14. IsFreed(g, c, len, p, g2)
  BY <1>1, <1>4, <1>6, <1>9, <1>11 DEF IsFreed, b
<1> QED BY <1>5, <1>13, <1>14 DEF g

LEMMA MergeIs ==
    ASSUME NEW s \in SweepStates, HeapType(s.heap), NEW len \in 1 .. HeapSize, len = s.heap.mem[s.current].len,
           s.last_free # NULL, s.last_free # s.current, s.heap.mem[s.last_free].kind = "free",
           s.heap.mem[s.last_free].len + len <= HeapSize
    PROVE  /\ IsMerged(s.heap, s.last_free, s.current, SweepMerge(s, len).heap)
           /\ SweepMerge(s, len) \in SweepStates
           /\ SweepMerge(s, len) = [s EXCEPT !.heap = SweepMerge(s, len).heap]
<1> DEFINE g == s.heap
           c == s.current
           p == s.last_free
           k == g.mem[p].len + len
           q == [g.mem[p] EXCEPT !.len = k]
           m == [g.mem EXCEPT ![p] = q, ![c] = Data]
           l == IF k > g.largest THEN k ELSE g.largest
           g2 == [g EXCEPT !.mem = m, !.free = g.free, !.largest = l]
<1>1. g \in Heaps /\ c \in Addr /\ p \in Addr /\ p # c
  BY DEF SweepStates, Ref
<1>2. g.mem \in [Addr -> Block] /\ \A x \in Addr : g.mem[x].kind = "data" => g.mem[x] = Data
  BY HeapFields
<1>3. k \in 1 .. HeapSize /\ k \in 0 .. HeapSize
  <2>1. g.mem[p] \in Block
    BY <1>1, <1>2
  <2>2. g.mem[p].len \in 1 .. HeapSize
    BY <2>1 DEF Block
  <2> QED BY <2>2, HeapSizeAssumption
<1>4. /\ q \in Block /\ q.kind = "free" /\ q.prev = g.mem[p].prev /\ q.next = g.mem[p].next
      /\ q.pinned = g.mem[p].pinned /\ q.len = k
  <2>1. g.mem[p] \in Block /\ g.mem[p].kind = "free"
    BY <1>1, <1>2
  <2> HIDE DEF k
  <2> QED BY <1>3, <2>1 DEF Block
<1>5. SweepMerge(s, len) = [s EXCEPT !.heap = g2]
  <2>1. [g.mem EXCEPT ![p].len = k, ![c] = Data] = m
    BY <1>1, <1>2
  <2> DEFINE gx == [g EXCEPT !.mem[p].len = k, !.mem[c] = Data, !.largest = IF k > @ THEN k ELSE @]
  <2>2. gx = [g EXCEPT !.mem = [g.mem EXCEPT ![p].len = k, ![c] = Data], !.largest = l]
    BY <1>1 DEF Heaps
  <2>3. SweepMerge(s, len) = [s EXCEPT !.heap = gx]
    BY <1>1 DEF SweepMerge, SweepStates, Heaps
  <2> HIDE DEF m, l, q, gx, k
  <2>4. gx = g2
    BY <2>1, <2>2, <1>1 DEF Heaps
  <2> QED BY <2>3, <2>4
<1>6. m[c] = Data /\ m[p] = q /\ \A x \in Addr : x # c /\ x # p => m[x] = g.mem[x]
  BY <1>1, <1>2
<1>7. m \in [Addr -> Block]
  BY <1>1, <1>2, <1>4, DataIsBlock
<1> HIDE DEF q, m
<1>8. \A x \in Addr : m[x].kind = "data" => m[x] = Data
  BY <1>2, <1>4, <1>6
<1>9. l \in 0 .. HeapSize /\ k <= l /\ g.largest <= l
  <2> HIDE DEF k
  <2> QED BY <1>1, <1>3 DEF Heaps
<1>10. g.free \in Ref
  BY <1>1 DEF Heaps
<1>16. HeapType(g)
  OBVIOUS
<1> HIDE DEF l, g
<1>11. HeapType(g2) /\ g2.mem = m /\ g2.free = g.free /\ g2.largest = l /\ g2.top = g.top
  <2>1. IsRewritten(g, m, g.free, l, g2)
    BY <1>7, <1>8, <1>9, <1>10, <1>16, HeadersSet
  <2> QED BY <2>1 DEF IsRewritten
<1>12. g2 \in Heaps
  BY <1>11 DEF HeapType, Heaps
<1> HIDE DEF g2
<1>13. SweepMerge(s, len).heap = g2 /\ SweepMerge(s, len) \in SweepStates
  BY <1>1, <1>5, <1>12 DEF SweepStates
<1>14. len = g.mem[c].len
  BY DEF g
<1>15. IsMerged(g, p, c, g2)
  BY <1>1, <1>4, <1>6, <1>9, <1>11, <1>14 DEF IsMerged
<1> QED BY <1>5, <1>13, <1>15 DEF g

\* One block of the sweep.
LEMMA SweepBlockAdvances ==
    ASSUME NEW h, HeapType(h), Tiled(h), OnList(h, FreeBlocks(h)), NEW live, live \subseteq Objects(h),
           NEW s \in SweepStates, SweepInv(h, live, s), s.current < h.top,
           NEW t, t = SweepBlock(s, live)
    PROVE  t \in SweepStates /\ SweepInv(h, live, t) /\ s.current < t.current
<1> DEFINE g == s.heap
           c == s.current
           e == After(g, c)
           p == s.last_free
           len == g.mem[c].len
           F == Passed(g, c)
           moved(done) == [done EXCEPT !.current = @ + len]
<1>1. SweptUpTo(h, g, c) /\ NewList(h, g, F) /\ SweepLocals(s, F, live)
  BY DEF SweepInv
<1>2. /\ c \in Addr /\ c \in Int /\ e \in Addr /\ e \in Int /\ c < e /\ e = c + len /\ g.mem[c] \in Block
      /\ e <= h.top
  BY <1>1, SweepReaches
<1>3. HeapType(g) /\ Tiled(g) /\ g.top = h.top /\ h.top \in Addr
  BY <1>1, HeapFields DEF SweptUpTo
<1>4. len \in 1 .. HeapSize
  BY <1>2, BlockFields, AddrNumbers
<1>5. p # NULL => /\ p \in Addr /\ p \in Int /\ p < c /\ g.mem[p].kind = "free" /\ p \in Blocks(g)
  <2>1. SUFFICES ASSUME p # NULL PROVE p \in Addr /\ p \in Int /\ p < c /\ g.mem[p].kind = "free" /\ p \in Blocks(g)
    OBVIOUS
  <2>2. p \in F
    BY <1>1, <2>1 DEF SweepLocals, IsBefore
  <2>3. p \in FreeBlocks(g) /\ p < c
    BY <2>2 DEF Passed
  <2> QED BY <2>3, <1>3, BlocksAre, AddrNumbers DEF FreeBlocks
<1>6. \A d \in SweepStates : d.current = c =>
         /\ moved(d) \in SweepStates /\ moved(d).current = e /\ moved(d).heap = d.heap
         /\ moved(d).last_free = d.last_free /\ moved(d).alive_last = d.alive_last
         /\ moved(d).before_free = d.before_free
  <2> HIDE DEF len, e
  <2> QED BY <1>2 DEF SweepStates
<1>7. t = moved(CASE c \in live -> SweepKeep(s)
                  [] c \notin live /\ p = NULL -> SweepHead(s, len)
                  [] c \notin live /\ p # NULL /\ After(g, p) = c -> SweepMerge(s, len)
                  [] c \notin live /\ p # NULL /\ ~(p # NULL /\ After(g, p) = c) -> SweepLink(s, len))
  BY DEF SweepBlock
<1> SUFFICES SweepInv(h, live, t) /\ t \in SweepStates /\ t.current = e
  BY <1>2
<1>8. CASE c \in live
  <2> DEFINE d == SweepKeep(s)
  <2>1. /\ d \in SweepStates /\ d.current = c /\ d.heap = g /\ d.alive_last = c
        /\ d.before_free = p /\ d.last_free = p
    BY <1>2 DEF SweepKeep, SweepStates, Ref
  <2>2. t = moved(d)
    BY <1>7, <1>8
  <2> HIDE DEF d, moved
  <2>3. /\ t \in SweepStates /\ t.current = e /\ t.heap = g
        /\ t.last_free = p /\ t.alive_last = c /\ t.before_free = p
    BY <1>6, <2>1, <2>2
  <2>4. SweepInv(h, live, t)
    BY <1>8, <2>3, SweepKeepsLive
  <2> QED BY <2>3, <2>4
<1>9. CASE c \notin live /\ p = NULL
  <2> DEFINE d == SweepHead(s, len)
  <2>1. IsFreed(g, c, len, NULL, d.heap) /\ d \in SweepStates /\ d = [s EXCEPT !.last_free = c, !.heap = d.heap]
    BY <1>3, <1>4, HeadIs
  <2>2. t = moved(d)
    BY <1>7, <1>9
  <2> HIDE DEF d, moved
  <2>3. d.current = c /\ d.last_free = c /\ d.alive_last = s.alive_last /\ d.before_free = s.before_free
    BY <2>1, <1>2 DEF SweepStates
  <2>4. /\ t \in SweepStates /\ t.current = e /\ t.heap = d.heap
        /\ t.last_free = c /\ t.alive_last = s.alive_last /\ t.before_free = s.before_free
    BY <1>6, <2>1, <2>2, <2>3
  <2>5. IsFreed(g, c, len, p, t.heap)
    BY <2>1, <2>4, <1>9
  <2>6. SweepInv(h, live, t)
    BY <1>9, <2>4, <2>5, SweepFrees
  <2> QED BY <2>4, <2>6
<1>10. CASE c \notin live /\ p # NULL /\ After(g, p) = c
  <2> DEFINE d == SweepMerge(s, len)
  <2>1. g.mem[p].len + len <= HeapSize
    <3>1. c = p + g.mem[p].len /\ g.mem[p].len \in Int /\ 0 <= p
      <4>1. g.mem[p].len \in Int
        BY <1>3, <1>5, <1>10, HeapFields, BlockFields
      <4> QED BY <4>1, <1>5, <1>10, AddrNumbers DEF After
    <3>2. h.top \in Int /\ h.top < HeapSize /\ HeapSize \in Int
      BY <1>3, AddrNumbers
    <3> HIDE DEF c, p, e, len, g
    <3> QED BY <3>1, <3>2, <1>2, <1>4, <1>5, <1>10
  <2>2. IsMerged(g, p, c, d.heap) /\ d \in SweepStates /\ d = [s EXCEPT !.heap = d.heap]
    <3>1. p # c /\ g.mem[p].kind = "free" /\ p # NULL
      BY <1>2, <1>5, <1>10
    <3> QED BY <1>3, <1>4, <2>1, <3>1, MergeIs
  <2>3. t = moved(d)
    BY <1>7, <1>10
  <2> HIDE DEF d, moved
  <2>4. d.current = c /\ d.last_free = p /\ d.alive_last = s.alive_last /\ d.before_free = s.before_free
    BY <2>2 DEF SweepStates
  <2>5. /\ t \in SweepStates /\ t.current = e /\ t.heap = d.heap
        /\ t.last_free = p /\ t.alive_last = s.alive_last /\ t.before_free = s.before_free
    BY <1>6, <2>2, <2>3, <2>4
  <2>6. IsMerged(g, p, c, t.heap)
    BY <2>2, <2>5
  <2>7. SweepInv(h, live, t)
    BY <1>10, <2>5, <2>6, SweepMerges
  <2> QED BY <2>5, <2>7
<1>11. CASE c \notin live /\ p # NULL /\ After(g, p) # c
  <2> DEFINE d == SweepLink(s, len)
  <2>1. IsFreed(g, c, len, p, d.heap) /\ d \in SweepStates /\ d = [s EXCEPT !.last_free = c, !.heap = d.heap]
    <3>1. p # c /\ g.mem[p].kind = "free" /\ p # NULL
      BY <1>2, <1>5, <1>11
    <3> QED BY <1>3, <1>4, <3>1, LinkIs
  <2>2. t = moved(d)
    BY <1>7, <1>11
  <2> HIDE DEF d, moved
  <2>3. d.current = c /\ d.last_free = c /\ d.alive_last = s.alive_last /\ d.before_free = s.before_free
    BY <2>1, <1>2 DEF SweepStates
  <2>4. /\ t \in SweepStates /\ t.current = e /\ t.heap = d.heap
        /\ t.last_free = c /\ t.alive_last = s.alive_last /\ t.before_free = s.before_free
    BY <1>6, <2>1, <2>2, <2>3
  <2>5. IsFreed(g, c, len, p, t.heap)
    BY <2>1, <2>4
  <2>6. SweepInv(h, live, t)
    BY <1>11, <2>4, <2>5, SweepFrees
  <2> QED BY <2>4, <2>6
<1> QED BY <1>8, <1>9, <1>10, <1>11

\* The sweep starts with nothing swept.
LEMMA SweepStarts ==
    ASSUME NEW h, HeapType(h), Tiled(h), NEW live, live \subseteq Objects(h)
    PROVE  SweepStart(h) \in SweepStates /\ SweepInv(h, live, SweepStart(h)) /\ SweepStart(h).current = 0
<1> DEFINE s == SweepStart(h)
           g == [h EXCEPT !.largest = 0]
           F == Passed(g, 0)
<1>1. h \in Heaps /\ 0 \in 0 .. HeapSize /\ 0 \in Addr /\ NULL \in Ref
  BY AddrNumbers DEF HeapType, Heaps, Ref
<1>2. g \in Heaps /\ g.mem = h.mem /\ g.top = h.top /\ g.free = h.free
  BY <1>1 DEF Heaps
<1> HIDE DEF g
<1>3. /\ s \in SweepStates /\ s.heap = g /\ s.current = 0 /\ s.last_free = NULL
      /\ s.before_free = NULL /\ s.alive_last = NULL
  BY <1>1, <1>2 DEF SweepStart, SweepStates, g
<1>4. HeapType(g)
  BY <1>2 DEF HeapType, Heaps
<1>5. Tiled(g) /\ Bounds(g) = Bounds(h)
  BY <1>2, <1>4, SameBlocks
<1>6. 0 \in Bounds(h)
  BY Tiles
<1>7. SweptUpTo(h, g, 0)
  BY <1>2, <1>4, <1>5, <1>6 DEF SweptUpTo
<1>8. \A x \in Addr : ~(x < 0)
  BY AddrNumbers
<1>9. LiveKept(h, g, 0, live)
  BY <1>8 DEF LiveKept
<1>10. F = {}
  BY <1>8 DEF Passed, FreeBlocks
<1>11. NewList(h, g, F)
  BY <1>2, <1>10 DEF NewList, Linked
<1>12. PinsKept(h, g)
  BY <1>2 DEF PinsKept
<1>13. SweepLocals(s, F, live)
  <2>1. \A y \in live : ~(y < 0)
    BY <1>8 DEF Objects
  <2>2. NULL < 0
    BY AddrNumbers
  <2>3. IsBefore(F, 0, NULL) /\ IsBefore(live, 0, NULL)
    BY <1>10, <2>1, <2>2 DEF IsBefore
  <2> QED BY <1>3, <2>3 DEF SweepLocals
<1> QED BY <1>3, <1>7, <1>9, <1>11, <1>12, <1>13 DEF SweepInv

\* The iterations of the sweep.
SweepAt(h, live) ==
    CHOOSE f : f = [n \in Nat |-> IF n = 0 THEN SweepStart(h)
                                  ELSE IF f[n - 1].current < h.top THEN SweepBlock(f[n - 1], live) ELSE f[n - 1]]

\* After as many as there are slots, all blocks are swept.
LEMMA SweepFinishes ==
    ASSUME NEW h, HeapType(h), Tiled(h), OnList(h, FreeBlocks(h)), NEW live, live \subseteq Objects(h),
           NEW s, s = SweepAt(h, live)[HeapSize]
    PROVE  s \in SweepStates /\ SweepInv(h, live, s) /\ s.current = h.top
<1> DEFINE S == {t \in SweepStates : SweepInv(h, live, t)}
           nxt == [t \in S |-> IF t.current < h.top THEN SweepBlock(t, live) ELSE t]
           at == SweepAt(h, live)
           T == {n \in Nat : at[n].current = h.top \/ n <= at[n].current}
<1>1. SweepStart(h) \in S /\ SweepStart(h).current = 0
  BY SweepStarts
<1>2. \A t \in S : t.current < h.top => SweepBlock(t, live) \in S /\ t.current < SweepBlock(t, live).current
  BY SweepBlockAdvances
<1>3. nxt \in [S -> S]
  BY <1>2
<1>4. ASSUME NEW t \in S
      PROVE  /\ t.current \in Int /\ t.current <= h.top /\ h.top \in Int /\ h.top < HeapSize
             /\ nxt[t] = IF t.current < h.top THEN SweepBlock(t, live) ELSE t
  <2>1. t.current \in Bounds(h)
    BY DEF SweepInv, SweptUpTo
  <2>2. t.current \in Int /\ t.current <= h.top
    BY <2>1, Tiles
  <2>3. h.top \in Addr
    BY HeapFields
  <2> QED BY <2>2, <2>3, AddrNumbers
<1>5. PICK f \in [Nat -> S] : f = [n \in Nat |-> IF n = 0 THEN SweepStart(h) ELSE nxt[f[n - 1]]]
  <2> HIDE DEF S, nxt
  <2>1. SweepStart(h) \in S
    BY <1>1
  <2>2. PICK f \in [Nat -> S] : Iterates(f, SweepStart(h), nxt)
    BY <2>1, <1>3, Iteration
  <2> QED BY <2>2 DEF Iterates
<1> HIDE DEF S, nxt
<1>6. f = [n \in Nat |-> IF n = 0 THEN SweepStart(h)
                         ELSE IF f[n - 1].current < h.top THEN SweepBlock(f[n - 1], live) ELSE f[n - 1]]
  <2>1. ASSUME NEW n \in Nat, n # 0
        PROVE  nxt[f[n - 1]] = IF f[n - 1].current < h.top THEN SweepBlock(f[n - 1], live) ELSE f[n - 1]
    <3>1. n - 1 \in Nat
      BY <2>1
    <3>2. f[n - 1] \in S
      BY <3>1, <1>5
    <3> QED BY <3>2, <1>4
  <2> QED BY <2>1, <1>5
<1>7. at = [n \in Nat |-> IF n = 0 THEN SweepStart(h)
                          ELSE IF at[n - 1].current < h.top THEN SweepBlock(at[n - 1], live) ELSE at[n - 1]]
  BY <1>6 DEF SweepAt
<1> HIDE DEF at
<1>8. at[0] = SweepStart(h)
  BY <1>7
<1>9. ASSUME NEW n \in Nat
      PROVE  at[n + 1] = IF at[n].current < h.top THEN SweepBlock(at[n], live) ELSE at[n]
  <2>1. n + 1 \in Nat /\ n + 1 # 0 /\ (n + 1) - 1 = n
    OBVIOUS
  <2> QED BY <2>1, <1>7
<1> DEFINE U == {n \in Nat : at[n] \in S}
<1>10. Nat \subseteq U
  <2>1. 0 \in U
    BY <1>1, <1>8
  <2>2. ASSUME NEW n \in Nat, n \in U PROVE n + 1 \in U
    <3>1. n + 1 \in Nat
      OBVIOUS
    <3>2. at[n + 1] \in S
      BY <1>2, <1>9, <2>2
    <3> QED BY <3>1, <3>2
  <2> HIDE DEF U
  <2> QED BY <2>1, <2>2, FromZero
<1>11. Nat \subseteq T
  <2>1. 0 \in T
    BY <1>1, <1>8
  <2>2. ASSUME NEW n \in Nat, n \in T PROVE n + 1 \in T
    <3>1. n + 1 \in Nat /\ at[n] \in S /\ at[n + 1] \in S
      BY <1>10
    <3> DEFINE x == at[n].current
               y == at[n + 1].current
    <3>2. x \in Int /\ x <= h.top /\ y \in Int /\ y <= h.top /\ h.top \in Int
      BY <3>1, <1>4
    <3>3. x = h.top \/ n <= x
      BY <2>2
    <3>4. CASE x < h.top
      <4>1. x < y
        BY <3>1, <3>4, <1>2, <1>9
      <4> HIDE DEF x, y
      <4>2. y = h.top \/ n + 1 <= y
        BY <4>1, <3>2, <3>3, <3>4
      <4> QED BY <3>1, <4>2 DEF y
    <3>5. CASE ~(x < h.top)
      <4>1. x = h.top
        BY <3>2, <3>5
      <4>2. y = x
        BY <1>9, <3>5
      <4> QED BY <3>1, <4>1, <4>2
    <3> QED BY <3>4, <3>5
  <2> HIDE DEF T
  <2> QED BY <2>1, <2>2, FromZero
<1>12. HeapSize \in Nat
  BY HeapSizeAssumption
<1>13. s \in S /\ (s.current = h.top \/ HeapSize <= s.current)
  BY <1>10, <1>11, <1>12 DEF at
<1>14. s.current = h.top
  BY <1>4, <1>12, <1>13
<1> QED BY <1>13, <1>14 DEF S

\* Heap g is h with the live objects only.
SweptTo(h, live, g) ==
    /\ Settled(g) /\ Objects(g) = live
    /\ \A a \in live : g.mem[a] = h.mem[a]
    /\ PinsKept(h, g)

\* The free blocks below the new top, with the link of the last cut.
CutList(g, F, top, before, h1) ==
    /\ F \subseteq Addr /\ Linked(g.mem, F) /\ (\A a \in F : g.mem[a].kind = "free")
    /\ h1.mem = g.mem
    /\ IF F = {} THEN h1.free = NULL
       ELSE IsAfter(F, NULL, g.free) /\ h1.free = IF g.free >= top THEN NULL ELSE g.free
    /\ IF top = 0 THEN before = NULL ELSE \E a \in Int : /\ IsBefore(F, a, before) /\ a < top /\ 0 <= a
                                                         /\ \A y \in F : y < top => y < a

CutTail(h, before) == IF h.free # NULL /\ before # NULL THEN SetNext(h, before, NULL) ELSE h

IsCut(h, F, top, g) ==
    /\ HeapType(g) /\ g.top = h.top /\ g.largest = h.largest
    /\ \A x \in Addr : SameButLinks(g.mem[x], h.mem[x])
    /\ \A x \in Addr : h.mem[x].kind # "free" => g.mem[x] = h.mem[x]
    /\ OnList(g, {a \in F : a < top})

LEMMA CutLinks ==
    ASSUME NEW g, NEW F, NEW top \in Addr, NEW before, NEW h1, HeapType(h1), CutList(g, F, top, before, h1)
    PROVE  IsCut(h1, F, top, CutTail(h1, before))
<1> DEFINE G == {a \in F : a < top}
           g2 == CutTail(h1, before)
<1> SUFFICES /\ HeapType(g2) /\ g2.top = h1.top /\ g2.largest = h1.largest
             /\ \A x \in Addr : SameButLinks(g2.mem[x], h1.mem[x])
             /\ \A x \in Addr : h1.mem[x].kind # "free" => g2.mem[x] = h1.mem[x]
             /\ OnList(g2, G)
  BY DEF IsCut
<1> g2 = IF h1.free # NULL /\ before # NULL THEN SetNext(h1, before, NULL) ELSE h1
  BY DEF CutTail
<1> HIDE DEF g2
<1>1. /\ F \subseteq Addr /\ Linked(g.mem, F) /\ (\A a \in F : g.mem[a].kind = "free") /\ h1.mem = g.mem
      /\ (F = {} => h1.free = NULL)
      /\ (F # {} => IsAfter(F, NULL, g.free) /\ h1.free = IF g.free >= top THEN NULL ELSE g.free)
  BY DEF CutList
<1>2. F \subseteq Int /\ top \in Int /\ 0 <= top /\ (\A y \in F : 0 <= y) /\ NULL = -1 /\ NULL \notin F
  BY <1>1, AddrNumbers
<1>3. before \in F \cup {NULL} /\ (before \in F => before < top /\ before \in G) /\ (before = NULL => G = {})
      /\ \A y \in G : y <= before
  <2>1. CASE top = 0
    <3>1. before = NULL
      BY <2>1 DEF CutList
    <3>2. ASSUME NEW y \in G PROVE FALSE
      <4>1. y \in F /\ y < top
        OBVIOUS
      <4>2. 0 <= y /\ y \in Int
        BY <4>1, <1>2
      <4> QED BY <4>1, <4>2, <2>1
    <3> QED BY <3>1, <3>2, <1>2
  <2>2. CASE top # 0
    <3>1. PICK a \in Int : IsBefore(F, a, before) /\ a < top /\ 0 <= a /\ \A y \in F : y < top => y < a
      BY <2>2 DEF CutList
    <3>2. before \in F \cup {NULL} /\ before < a /\ \A y \in F : y < a => y <= before
      BY <3>1 DEF IsBefore
    <3>3. \A y \in G : y <= before
      BY <3>1, <3>2
    <3>4. before = NULL => G = {}
      <4>1. ASSUME before = NULL, NEW y \in G PROVE FALSE
        <5>1. y <= -1 /\ 0 <= y /\ y \in Int
          BY <3>3, <4>1, <1>2
        <5> QED BY <5>1
      <4> QED BY <4>1
    <3> QED BY <3>1, <3>2, <3>3, <3>4, <1>2
  <2> QED BY <2>1, <2>2
<1>4. F # {} => g.free \in F /\ \A y \in F : g.free <= y
  <2>1. SUFFICES ASSUME F # {} PROVE g.free \in F /\ \A y \in F : g.free <= y
    OBVIOUS
  <2>2. PICK y \in F : TRUE
    BY <2>1
  <2>3. ~(y <= NULL)
    BY <1>2
  <2> QED BY <1>1, <1>2, <2>1, <2>3 DEF IsAfter
<1>5. CASE h1.free # NULL /\ before # NULL
  <2>1. g2 = SetNext(h1, before, NULL)
    BY <1>5
  <2>2. before \in F /\ before \in G /\ before \in Addr /\ before \in Ref
    BY <1>1, <1>3, <1>5 DEF Ref
  <2>3. IsFree(h1, before)
    BY <1>1, <2>2 DEF IsFree
  <2>4. /\ HeapType(g2) /\ g2.top = h1.top /\ g2.free = h1.free /\ g2.largest = h1.largest
        /\ \A b \in Addr : /\ SameButLinks(g2.mem[b], h1.mem[b]) /\ g2.mem[b].prev = h1.mem[b].prev
                           /\ g2.mem[b].next = IF b = before THEN NULL ELSE h1.mem[b].next
                           /\ b # before => g2.mem[b] = h1.mem[b]
    <3>1. NULL \in Ref
      BY DEF Ref
    <3> QED BY <2>1, <2>2, <2>3, <1>5, <3>1, LinkSet
  <2>5. \A x \in Addr : h1.mem[x].kind # "free" => g2.mem[x] = h1.mem[x]
    BY <2>3, <2>4 DEF IsFree
  <2>6. G \subseteq Addr /\ \A a \in G : g2.mem[a].kind = "free"
    <3>1. \A a \in G : a \in Addr /\ h1.mem[a].kind = "free"
      BY <1>1
    <3> QED BY <3>1, <2>4 DEF SameButLinks
  <2>7. IsAfter(G, NULL, g2.free)
    <3>1. F # {}
      BY <2>2
    <3> DEFINE f == g.free
    <3>2. f \in F /\ (\A y \in F : f <= y) /\ f \in Int /\ h1.free = IF f >= top THEN NULL ELSE f
      BY <3>1, <1>1, <1>2, <1>4
    <3> HIDE DEF f
    <3>3. f < top /\ g2.free = f
      BY <3>2, <1>2, <1>5, <2>4
    <3>4. f \in G /\ NULL < f /\ \A y \in G : NULL < y => f <= y
      BY <3>2, <3>3, <1>2
    <3>5. IsAfter(G, NULL, f)
      <4> HIDE DEF G
      <4> QED BY <3>4 DEF IsAfter
    <3> QED BY <3>3, <3>5
  <2>8. ASSUME NEW a \in G
        PROVE  IsBefore(G, a, g2.mem[a].prev) /\ IsAfter(G, a, g2.mem[a].next)
    <3>1. a \in F /\ a \in Addr /\ a < top /\ a \in Int
      BY <1>1, <1>2
    <3>2. IsBefore(F, a, g.mem[a].prev) /\ IsAfter(F, a, g.mem[a].next)
      BY <3>1, <1>1 DEF Linked
    <3>3. IsBefore(G, a, g2.mem[a].prev)
      <4>1. g2.mem[a].prev = g.mem[a].prev
        BY <3>1, <1>1, <2>4
      <4> DEFINE x == g.mem[a].prev
      <4>2. x \in F \cup {NULL} /\ x < a /\ \A y \in F : y < a => y <= x
        BY <3>2 DEF IsBefore
      <4> HIDE DEF x
      <4>3. x \in F => x < top
        BY <4>2, <3>1, <1>2
      <4>4. IsBefore(G, a, x)
        BY <4>2, <4>3 DEF IsBefore
      <4> QED BY <4>1, <4>4 DEF x
    <3>4. IsAfter(G, a, g2.mem[a].next)
      <4>1. CASE a = before
        <5>1. g2.mem[a].next = NULL
          BY <3>1, <4>1, <2>4
        <5> QED BY <5>1, <4>1, <1>3 DEF IsAfter
      <4>2. CASE a # before
        <5>1. g2.mem[a].next = g.mem[a].next
          BY <3>1, <4>2, <1>1, <2>4
        <5> DEFINE x == g.mem[a].next
        <5>2. a < before
          BY <3>1, <4>2, <2>2, <1>2, <1>3
        <5>3. x \in F /\ a < x /\ \A y \in F : a < y => x <= y
          <6>1. ~(before <= a)
            BY <5>2, <3>1, <2>2, <1>2
          <6> QED BY <6>1, <3>2, <2>2 DEF IsAfter
        <5> HIDE DEF x
        <5>4. x <= before /\ x < top
          BY <5>2, <5>3, <2>2, <1>2, <1>3
        <5>5. IsAfter(G, a, x)
          BY <5>3, <5>4 DEF IsAfter
        <5> QED BY <5>1, <5>5 DEF x
      <4> QED BY <4>1, <4>2
    <3> QED BY <3>3, <3>4
  <2>9. OnList(g2, G)
    BY <2>6, <2>7, <2>8 DEF OnList, Linked
  <2> QED BY <2>4, <2>5, <2>9
<1>6. CASE h1.free = NULL \/ before = NULL
  <2>1. g2 = h1
    BY <1>6
  <2>2. G = {}
    <3>1. CASE before = NULL
      BY <3>1, <1>3
    <3>2. CASE F = {}
      BY <3>2
    <3>3. CASE before # NULL /\ F # {}
      <4> DEFINE f == g.free
      <4>1. f \in F /\ (\A y \in F : f <= y) /\ f \in Int /\ h1.free = IF f >= top THEN NULL ELSE f
        BY <3>3, <1>1, <1>2, <1>4
      <4>2. h1.free = NULL /\ f # NULL
        BY <1>2, <1>6, <3>3, <4>1
      <4> HIDE DEF f
      <4>3. f >= top
        BY <4>1, <4>2
      <4>4. ASSUME NEW y \in G PROVE FALSE
        <5>1. f <= y /\ y < top /\ y \in Int
          BY <4>1, <1>2
        <5> HIDE DEF G
        <5> QED BY <5>1, <4>1, <4>3, <1>2
      <4> QED BY <4>4
    <3> QED BY <3>1, <3>2, <3>3
  <2>3. h1.free = NULL
    <3>1. SUFFICES ASSUME F # {} PROVE h1.free = NULL
      BY <1>1
    <3>2. g.free \in F /\ g.free \notin G
      BY <3>1, <2>2, <1>4
    <3>3. g.free \in Int /\ ~(g.free < top)
      BY <3>2, <1>2
    <3>4. g.free >= top
      BY <3>3, <1>2
    <3> QED BY <3>1, <3>4, <1>1
  <2>4. OnList(g2, G)
    BY <2>1, <2>2, <2>3 DEF OnList, Linked, IsAfter
  <2> QED BY <2>1, <2>4 DEF SameButLinks
<1> QED BY <1>5, <1>6

\* The sweep leaves the live objects, and a heap at rest.
LEMMA SweepSettles ==
    ASSUME NEW h, Sound(h), NEW live, live \subseteq Objects(h)
    PROVE  SweptTo(h, live, Sweep(h, live))
<1> DEFINE s == SweepAt(h, live)[HeapSize]
           g == s.heap
           F == Passed(g, h.top)
           a == s.alive_last
           b == s.before_free
           top == IF a = NULL THEN 0 ELSE After(g, a)
           f == IF g.free >= top THEN NULL ELSE g.free
           h1 == [g EXCEPT !.top = top, !.free = f]
           g2 == CutTail(h1, b)
<1>1. HeapType(h) /\ Tiled(h) /\ OnList(h, FreeBlocks(h))
  BY DEF Sound
<1>2. s \in SweepStates /\ SweepInv(h, live, s) /\ s.current = h.top
  BY <1>1, SweepFinishes
<1>3. Sweep(h, live) = g2
  BY DEF Sweep, SweepAt, CutTail
<1> HIDE DEF s
<1>4. SweptUpTo(h, g, h.top) /\ LiveKept(h, g, h.top, live) /\ PinsKept(h, g) /\ NewList(h, g, F) /\ SweepLocals(s, F, live)
  BY <1>2 DEF SweepInv
<1>5. HeapType(g) /\ Tiled(g) /\ g.top = h.top /\ h.top \in Addr /\ h.top \in Int
  BY <1>1, <1>4, HeapFields, AddrNumbers DEF SweptUpTo
<1>6. F = FreeBlocks(g)
  BY <1>5 DEF Passed, FreeBlocks
<1>7. \A x : x \in Objects(g) <=> x \in live
  <2>1. \A x : x \in live => x \in Addr /\ x < h.top
    BY DEF Objects, InUse
  <2> QED BY <2>1, <1>4, <1>5 DEF LiveKept, Objects, InUse, IsObject
<1>8. IsBefore(live, h.top, a) /\ (IF a = NULL THEN b = NULL ELSE IsBefore(F, a, b))
  BY <1>2, <1>4 DEF SweepLocals
<1>9. a # NULL => /\ a \in live /\ a \in Blocks(g) /\ a \in Int /\ a \in Addr
                  /\ \A x \in live : x <= a
  <2>1. SUFFICES ASSUME a # NULL PROVE a \in live /\ a \in Blocks(g) /\ a \in Int /\ a \in Addr /\ \A x \in live : x <= a
    OBVIOUS
  <2>2. a \in live /\ \A x \in live : x < h.top => x <= a
    BY <1>8, <2>1 DEF IsBefore
  <2>3. a \in Blocks(g)
    BY <1>5, <1>7, <2>2, BlocksAre
  <2>4. \A x \in live : x < h.top
    BY DEF Objects, InUse
  <2>5. a \in Addr /\ a \in Int
    BY <2>3, AddrNumbers DEF Blocks
  <2> QED BY <2>2, <2>3, <2>4, <2>5
<1>10. a = NULL => live = {}
  <2>1. ASSUME a = NULL, NEW x \in live PROVE FALSE
    <3>1. x \in Addr /\ x < h.top
      BY DEF Objects, InUse
    <3>2. x <= NULL
      BY <2>1, <3>1, <1>8 DEF IsBefore
    <3> QED BY <3>1, <3>2, AddrNumbers
  <2> QED BY <2>1
<1>11. top \in Bounds(g) /\ top \in Addr /\ top \in Int /\ (top = 0 <=> a = NULL) /\ (a # NULL => a < top /\ 0 <= a)
  <2>1. CASE a = NULL
    <3>1. 0 \in Bounds(g)
      BY <1>5, Tiles
    <3> QED BY <2>1, <3>1, AddrNumbers
  <2>2. CASE a # NULL
    <3>1. After(g, a) \in Bounds(g) /\ a < After(g, a)
      BY <2>2, <1>5, <1>9, Tiles
    <3>2. After(g, a) \in Addr /\ After(g, a) \in Int
      BY <3>1, <1>5, Tiles
    <3>3. 0 <= a /\ a \in Int
      BY <2>2, <1>9, AddrNumbers
    <3>4. After(g, a) # 0
      BY <3>1, <3>2, <3>3
    <3>5. top = After(g, a)
      BY <2>2
    <3> QED BY <2>2, <3>1, <3>2, <3>3, <3>4, <3>5
  <2> QED BY <2>1, <2>2
<1>12. a # NULL => After(g, a) = top
  OBVIOUS
<1> HIDE DEF top, a, b
<1>13. HeapType(h1) /\ h1.mem = g.mem /\ h1.top = top /\ h1.free = f /\ h1.largest = g.largest
  <2>1. g \in [mem : [Addr -> Block], top : Addr, free : Ref, largest : 0 .. HeapSize]
    BY <1>5 DEF HeapType
  <2>2. f \in Ref
    BY <2>1 DEF Ref
  <2> HIDE DEF f
  <2>3. /\ h1 \in [mem : [Addr -> Block], top : Addr, free : Ref, largest : 0 .. HeapSize]
        /\ h1.mem = g.mem /\ h1.top = top /\ h1.free = f /\ h1.largest = g.largest
    BY <1>11, <2>1, <2>2
  <2> HIDE DEF h1
  <2> QED BY <1>5, <2>3 DEF HeapType
<1>14. CutList(g, F, top, b, h1)
  <2>1. F \subseteq Addr /\ Linked(g.mem, F) /\ \A x \in F : g.mem[x].kind = "free"
    BY <1>4 DEF NewList, Passed, FreeBlocks
  <2>2. F = {} => h1.free = NULL
    <3>1. SUFFICES ASSUME F = {} PROVE h1.free = NULL
      OBVIOUS
    <3>2. g.free = h.free /\ g.mem = h.mem
      BY <1>4, <3>1 DEF NewList
    <3>3. FreeBlocks(h) = {}
      BY <1>5, <1>6, <3>1, <3>2 DEF FreeBlocks
    <3>4. h.free = NULL
      BY <1>1, <3>3 DEF OnList, IsAfter
    <3>5. f = NULL
      BY <3>2, <3>4
    <3> QED BY <3>5, <1>13
  <2>3. F # {} => IsAfter(F, NULL, g.free) /\ h1.free = IF g.free >= top THEN NULL ELSE g.free
    BY <1>4, <1>13 DEF NewList
  <2>4. IF top = 0 THEN b = NULL ELSE \E x \in Int : IsBefore(F, x, b) /\ x < top /\ 0 <= x /\ \A y \in F : y < top => y < x
    <3>1. CASE a = NULL
      BY <3>1, <1>8, <1>11
    <3>2. CASE a # NULL
      <4>1. IsBefore(F, a, b) /\ a \in Int /\ a < top /\ 0 <= a /\ top # 0
        BY <3>2, <1>8, <1>9, <1>11
      <4>2. ASSUME NEW y \in F, y < top PROVE y < a
        <5>1. y \in Blocks(g) /\ y \in FreeBlocks(g)
          BY <1>5, <1>6, BlocksAre
        <5>2. y \in Int
          BY <5>1, AddrNumbers DEF Blocks
        <5>3. a \in Objects(g)
          BY <3>2, <1>7, <1>9
        <5>4. y # a
          BY <5>1, <5>3, <1>5, BlocksAre
        <5>5. ~(a < y)
          <6>1. SUFFICES ASSUME a < y PROVE FALSE
            OBVIOUS
          <6>2. y \in Bounds(g)
            BY <5>1 DEF Bounds
          <6>3. top <= y
            BY <3>2, <6>1, <6>2, <1>5, <1>9, <1>12, Tiles
          <6> QED BY <6>3, <4>2, <5>2, <1>11
        <5> QED BY <5>2, <5>4, <5>5, <4>1
      <4> QED BY <4>1, <4>2
    <3> QED BY <3>1, <3>2
  <2> HIDE DEF F, h1, f, g
  <2> QED BY <2>1, <2>2, <2>3, <2>4, <1>13 DEF CutList
<1> DEFINE G == {x \in F : x < top}
<1>15. /\ HeapType(g2) /\ g2.top = top /\ g2.largest = g.largest
       /\ \A x \in Addr : SameButLinks(g2.mem[x], g.mem[x])
       /\ \A x \in Addr : g.mem[x].kind # "free" => g2.mem[x] = g.mem[x]
       /\ OnList(g2, G)
  <2>2. HeapType(h1) /\ top \in Addr
    BY <1>11, <1>13
  <2> HIDE DEF h1, F, g
  <2>3. IsCut(h1, F, top, g2)
    BY <2>2, <1>14, CutLinks
  <2> HIDE DEF g2
  <2> QED BY <2>3, <1>13 DEF IsCut
<1> HIDE DEF g2, h1
<1>16. /\ Tiled(g2)
       /\ \A x : x \in FreeBlocks(g2) <=> x \in FreeBlocks(g) /\ x < top
       /\ \A x : x \in Objects(g2) <=> x \in Objects(g) /\ x < top
       /\ \A x \in Addr : After(g2, x) = After(g, x) /\ g2.mem[x].len = g.mem[x].len
  <2>1. /\ Tiled(h1)
        /\ \A x : x \in FreeBlocks(h1) <=> x \in FreeBlocks(g) /\ x < top
        /\ \A x : x \in Objects(h1) <=> x \in Objects(g) /\ x < top
        /\ \A x : After(h1, x) = After(g, x)
    BY <1>5, <1>11, <1>13, TruncatedTiles
  <2>2. g2.top = h1.top /\ \A x \in Addr : g2.mem[x].kind = h1.mem[x].kind /\ g2.mem[x].len = h1.mem[x].len
    BY <1>13, <1>15 DEF SameButLinks
  <2>3. Tiled(g2) /\ FreeBlocks(g2) = FreeBlocks(h1) /\ Objects(g2) = Objects(h1)
        /\ \A x \in Addr : After(g2, x) = After(h1, x)
    BY <1>13, <1>15, <2>1, <2>2, SameBlocks
  <2> QED BY <2>1, <2>2, <2>3, <1>13
<1>17. FreeBlocks(g2) = G
  BY <1>6, <1>16
<1>18. Objects(g2) = live
  <2>1. \A x \in live : x < top
    <3>1. ASSUME NEW x \in live PROVE x < top
      <4>1. a # NULL
        BY <1>10
      <4>2. x <= a /\ a < top /\ a \in Int
        BY <4>1, <1>9, <1>11
      <4>3. x \in Int
        BY AddrNumbers DEF Objects
      <4> QED BY <4>2, <4>3, <1>11
    <3> QED BY <3>1
  <2> QED BY <2>1, <1>7, <1>16
<1>19. Sound(g2)
  BY <1>15, <1>16, <1>17 DEF Sound
<1>20. Merged(g2) /\ Hinted(g2)
  <2>1. \A x \in F : After(g, x) \notin F /\ g.mem[x].len <= g.largest
    BY <1>4 DEF NewList
  <2>2. \A x \in G : x \in F /\ x \in Addr
    BY DEF Passed, FreeBlocks
  <2> HIDE DEF F, g
  <2> QED BY <2>1, <2>2, <1>15, <1>16, <1>17 DEF Merged, Hinted
<1>21. TopEnds(g2)
  <2>1. CASE a = NULL
    BY <2>1, <1>11, <1>15 DEF TopEnds
  <2>2. CASE a # NULL
    BY <2>2, <1>9, <1>12, <1>15, <1>16, <1>18 DEF TopEnds
  <2> QED BY <2>1, <2>2
<1>22. \A x \in live : g2.mem[x] = h.mem[x]
  <2>1. ASSUME NEW x \in live PROVE g2.mem[x] = h.mem[x]
    <3>1. x \in Addr /\ x < h.top
      BY DEF Objects, InUse
    <3>2. g.mem[x] = h.mem[x] /\ g.mem[x].kind = "object"
      BY <3>1, <1>4 DEF LiveKept
    <3> QED BY <3>1, <3>2, <1>15
  <2> QED BY <2>1
<1>23. PinsKept(h, g2)
  BY <1>4, <1>15 DEF PinsKept, SameButLinks
<1> QED BY <1>3, <1>18, <1>19, <1>20, <1>21, <1>22, <1>23 DEF SweptTo, Settled, Rested
=============================================================================
