---------------------------- MODULE WeakListProofs ----------------------------
(***************************************************************************)
(* Proofs about WeakList, for heaps of every size and all sets of roots.   *)
(***************************************************************************)
EXTENDS WeakList, FiniteSetTheorems, TLAPS

-----------------------------------------------------------------------------
(* Numbers, functions applied again and again, and what links lead to *)

\* A set of naturals that is not empty has a least element.
LEMMA LeastExists ==
    ASSUME NEW T \in SUBSET Nat, T # {}
    PROVE  \E x \in T : \A y \in T : x <= y
<1> DEFINE U == {0 .. x : x \in T}
<1>1. IsWellFoundedOn(StrictSubsetOrdering(Nat), FiniteSubsetsOf(Nat))
  BY FS_StrictSubsetOrderingWellFounded
<1>2. U \subseteq FiniteSubsetsOf(Nat) /\ U # {}
  <2>1. ASSUME NEW x \in T PROVE 0 .. x \in SUBSET Nat /\ IsFiniteSet(0 .. x)
    BY FS_Interval
  <2> QED BY <2>1 DEF FiniteSubsetsOf
<1>3. PICK m \in U : \A u \in U : <<u, m>> \notin StrictSubsetOrdering(Nat)
  <2> HIDE DEF U
  <2> QED BY <1>1, <1>2, WFMin
<1>4. PICK x \in T : m = 0 .. x
  OBVIOUS
<1>5. ASSUME NEW y \in T, y < x PROVE FALSE
  <2>1. 0 .. y \in U /\ 0 .. y \subseteq m /\ x \in m /\ x \notin 0 .. y
    BY <1>4, <1>5
  <2>2. <<0 .. y, m>> \in StrictSubsetOrdering(Nat)
    BY <2>1, <1>4 DEF StrictSubsetOrdering
  <2> QED BY <1>3, <2>1, <2>2
<1> QED BY <1>5

\* What holds of 0, and of the next number after one it holds of, holds of all numbers.
LEMMA FromZero ==
    ASSUME NEW T, 0 \in T, \A n \in Nat : n \in T => n + 1 \in T
    PROVE  Nat \subseteq T
<1> DEFINE M == {n \in Nat : n \notin T}
<1> SUFFICES ASSUME M # {} PROVE FALSE
  OBVIOUS
<1>1. M \in SUBSET Nat
  OBVIOUS
<1>2. PICK m \in M : \A n \in M : m <= n
  <2> HIDE DEF M
  <2> QED BY <1>1, LeastExists
<1>3. m \in Nat /\ m # 0 /\ m - 1 \in Nat /\ (m - 1) + 1 = m
  BY <1>2
<1>4. m - 1 \notin M
  <2> HIDE DEF M
  <2>1. ASSUME m - 1 \in M PROVE FALSE
    <3>1. m <= m - 1
      BY <2>1, <1>2
    <3> QED BY <3>1, <1>3
  <2> QED BY <2>1
<1> QED BY <1>2, <1>3, <1>4

\* The sequence f starts with x and goes on with the function nxt.
Iterates(f, x, nxt) == f = [n \in Nat |-> IF n = 0 THEN x ELSE nxt[f[n - 1]]]

\* Of a function applied again and again, from x on, there is a sequence.
LEMMA Iteration ==
    ASSUME NEW S, NEW nxt \in [S -> S], NEW x \in S
    PROVE  \E f \in [Nat -> S] : Iterates(f, x, nxt)
<1> DEFINE IsRun(g, n) == /\ g \in [0 .. n -> S] /\ g[0] = x
                          /\ \A k \in 1 .. n : g[k] = nxt[g[k - 1]]
           HasRun == {n \in Nat : \E g : IsRun(g, n)}
           run(n) == CHOOSE g : IsRun(g, n)
           f == [n \in Nat |-> run(n)[n]]
<1>1. 0 \in HasRun
  <2>1. IsRun([k \in 0 .. 0 |-> x], 0)
    OBVIOUS
  <2> QED BY <2>1
<1>2. ASSUME NEW n \in Nat, NEW g, IsRun(g, n)
      PROVE  IsRun([k \in 0 .. n + 1 |-> IF k <= n THEN g[k] ELSE nxt[g[n]]], n + 1)
  <2> DEFINE e == [k \in 0 .. n + 1 |-> IF k <= n THEN g[k] ELSE nxt[g[n]]]
  <2>1. g[n] \in S /\ nxt[g[n]] \in S
    BY <1>2
  <2>2. e \in [0 .. n + 1 -> S] /\ e[0] = x
    BY <2>1, <1>2
  <2>3. ASSUME NEW k \in 1 .. n + 1 PROVE e[k] = nxt[e[k - 1]]
    <3>1. CASE k <= n
      BY <3>1, <1>2
    <3>2. CASE k = n + 1
      BY <3>2
    <3> QED BY <3>1, <3>2
  <2> QED BY <2>2, <2>3
<1>3. ASSUME NEW n \in Nat, n \in HasRun PROVE n + 1 \in HasRun
  <2>1. PICK g : IsRun(g, n)
    BY <1>3
  <2>2. \E e : IsRun(e, n + 1)
    <3> HIDE DEF IsRun
    <3> QED BY <2>1, <1>2
  <2>3. n + 1 \in Nat
    OBVIOUS
  <2> HIDE DEF IsRun
  <2> QED BY <2>2, <2>3
<1>4. ASSUME NEW n \in Nat PROVE IsRun(run(n), n)
  <2>1. Nat \subseteq HasRun
    <3> HIDE DEF HasRun
    <3> QED BY <1>1, <1>3, FromZero
  <2> HIDE DEF IsRun
  <2> QED BY <2>1
<1>5. ASSUME NEW n \in Nat PROVE run(n + 1)[n] = run(n)[n]
  <2> DEFINE Same == {k \in Nat : k <= n => run(n + 1)[k] = run(n)[k]}
             a == run(n + 1)
             b == run(n)
  <2>1. IsRun(a, n + 1) /\ IsRun(b, n)
    <3> HIDE DEF IsRun, run
    <3>1. n + 1 \in Nat
      OBVIOUS
    <3> QED BY <1>4, <3>1 DEF a, b
  <2> HIDE DEF a, b, run
  <2>2. a[0] = b[0] /\ \A k \in Nat : k + 1 <= n /\ a[k] = b[k] => a[k + 1] = b[k + 1]
    <3>1. a[0] = b[0]
      BY <2>1
    <3>2. ASSUME NEW k \in Nat, k + 1 <= n, a[k] = b[k] PROVE a[k + 1] = b[k + 1]
      <4>1. k + 1 \in 1 .. n /\ k + 1 \in 1 .. n + 1 /\ (k + 1) - 1 = k
        BY <3>2
      <4>2. a[k + 1] = nxt[a[k]] /\ b[k + 1] = nxt[b[k]]
        BY <4>1, <2>1
      <4> QED BY <4>2, <3>2
    <3> QED BY <3>1, <3>2
  <2>3. 0 \in Same
    BY <2>2 DEF a, b
  <2>4. ASSUME NEW k \in Nat, k \in Same PROVE k + 1 \in Same
    BY <2>2, <2>4 DEF a, b
  <2>5. Nat \subseteq Same
    <3> HIDE DEF Same
    <3> QED BY <2>3, <2>4, FromZero
  <2> QED BY <2>5
<1>6. f \in [Nat -> S] /\ f[0] = x
  <2> HIDE DEF run
  <2>1. ASSUME NEW n \in Nat PROVE run(n)[n] \in S
    BY <1>4
  <2>2. run(0)[0] = x
    BY <1>4
  <2> QED BY <2>1, <2>2
<1>7. ASSUME NEW n \in Nat, n # 0 PROVE f[n] = nxt[f[n - 1]]
  <2> HIDE DEF run
  <2>1. n - 1 \in Nat /\ (n - 1) + 1 = n /\ n \in 1 .. n
    BY <1>7
  <2>2. run(n)[n] = nxt[run(n)[n - 1]]
    BY <1>4, <2>1
  <2>3. run(n)[n - 1] = run(n - 1)[n - 1]
    BY <1>5, <2>1
  <2> QED BY <2>1, <2>2, <2>3
<1>8. f = [n \in Nat |-> IF n = 0 THEN x ELSE nxt[f[n - 1]]]
  <2> HIDE DEF f
  <2>1. f = [n \in Nat |-> f[n]]
    BY <1>6
  <2> QED BY <2>1, <1>6, <1>7
<1> HIDE DEF f
<1>9. Iterates(f, x, nxt)
  BY <1>8 DEF Iterates
<1> QED BY <1>6, <1>9

\* What the references to lead to from the elements of A on, and A itself; none is no element.
Leads(to, none, A) == UNION {{a, to[a]} \ {none} : a \in A}

\* A is what to leads to from start on: the least set that holds start and, with an
\* element, what it leads to.
LeastFrom(O, start, to, none, A) ==
    /\ A \subseteq O /\ start \subseteq A /\ \A a \in A : to[a] \in A \cup {none}
    /\ \A B \in SUBSET O : start \subseteq B /\ (\A a \in B : to[a] \in B \cup {none}) => A \subseteq B

\* Ways of as many steps as there are elements lead wherever any do.
LEMMA WaysEnd ==
    ASSUME NEW O, IsFiniteSet(O), NEW none, none \notin O, NEW to \in [O -> O \cup {none}],
           NEW start \in SUBSET O, NEW f, f[0] = start,
           \A n \in Nat : f[n] \in SUBSET O => f[n + 1] = Leads(to, none, f[n])
    PROVE  LeastFrom(O, start, to, none, f[Cardinality(O)])
<1> DEFINE N == Cardinality(O)
           Stable(A) == Leads(to, none, A) = A
           T == {n \in Nat : f[n] \in SUBSET O /\ start \subseteq f[n]
                             /\ (Stable(f[n]) \/ n <= Cardinality(f[n]))}
<1>1. N \in Nat
  BY FS_CardinalityType
<1>2. ASSUME NEW A \in SUBSET O PROVE Leads(to, none, A) \in SUBSET O /\ A \subseteq Leads(to, none, A)
  BY DEF Leads
<1>3. \A A \in SUBSET O : IsFiniteSet(A) /\ Cardinality(A) \in Nat
  BY FS_Subset, FS_CardinalityType
<1>4. 0 \in T
  BY <1>3
<1>5. ASSUME NEW n \in Nat, n \in T PROVE n + 1 \in T
  <2> DEFINE A == f[n]
             B == f[n + 1]
  <2>1. A \in SUBSET O /\ start \subseteq A /\ (Stable(A) \/ n <= Cardinality(A)) /\ B = Leads(to, none, A)
    BY <1>5
  <2> HIDE DEF A, B
  <2>2. B \in SUBSET O /\ A \subseteq B
    BY <2>1, <1>2
  <2>3. Stable(B) \/ n + 1 <= Cardinality(B)
    <3>1. CASE Stable(A)
      BY <3>1, <2>1
    <3>2. CASE ~Stable(A)
      <4>1. A # B
        BY <3>2, <2>1
      <4>2. Cardinality(A) <= Cardinality(B) /\ Cardinality(A) # Cardinality(B)
        BY <4>1, <2>2, <1>3, FS_Subset
      <4>3. Cardinality(A) \in Nat /\ Cardinality(B) \in Nat
        BY <2>1, <2>2, <1>3
      <4>4. n <= Cardinality(A)
        BY <3>2, <2>1
      <4> QED BY <4>2, <4>3, <4>4
    <3> QED BY <3>1, <3>2
  <2>4. start \subseteq B /\ n + 1 \in Nat
    BY <2>1, <2>2
  <2> QED BY <2>2, <2>3, <2>4 DEF B
<1>6. Nat \subseteq T
  <2> HIDE DEF T
  <2> QED BY <1>4, <1>5, FromZero
<1> DEFINE M == f[N]
<1>7. M \in SUBSET O /\ start \subseteq M /\ (Stable(M) \/ N <= Cardinality(M))
  BY <1>1, <1>6
<1>8. Stable(M)
  <2> HIDE DEF M
  <2>1. CASE N <= Cardinality(M)
    <3>1. Cardinality(M) <= N /\ (N = Cardinality(M) => O = M)
      BY <1>7, FS_Subset
    <3>2. Cardinality(M) \in Nat
      BY <1>3, <1>7
    <3>3. O = M
      <4> HIDE DEF N
      <4> QED BY <2>1, <3>1, <3>2, <1>1
    <3>4. Leads(to, none, O) = O
      BY <1>2
    <3> QED BY <3>3, <3>4
  <2> QED BY <2>1, <1>7
<1>9. \A a \in M : to[a] \in M \cup {none}
  <2> HIDE DEF M
  <2> QED BY <1>8 DEF Leads
<1>10. ASSUME NEW B \in SUBSET O, start \subseteq B, \A a \in B : to[a] \in B \cup {none}
       PROVE  M \subseteq B
  <2> DEFINE Below == {n \in Nat : f[n] \subseteq B}
  <2>1. 0 \in Below
    BY <1>10
  <2>2. ASSUME NEW n \in Nat, n \in Below PROVE n + 1 \in Below
    <3>1. f[n] \subseteq B /\ f[n] \in SUBSET O /\ n + 1 \in Nat
      BY <2>2, <1>10
    <3>2. f[n + 1] = Leads(to, none, f[n])
      BY <3>1
    <3>3. Leads(to, none, f[n]) \subseteq B
      BY <3>1, <1>10 DEF Leads
    <3> QED BY <3>1, <3>2, <3>3
  <2>3. Nat \subseteq Below
    <3> HIDE DEF Below
    <3> QED BY <2>1, <2>2, FromZero
  <2> QED BY <2>3, <1>1
<1> HIDE DEF M
<1> QED BY <1>7, <1>9, <1>10 DEF LeastFrom, M

-----------------------------------------------------------------------------
(* The list of weak references *)

\* The type of a cell.
Cell == [kind : {"free", "object", "weak"}, id : Ids \cup {NoId}, target : Ref, next : Ref]

\* What is linked to what.
Links == [a \in Cells |-> cell[a].next]

\* The references of the list are those that the links lead to from the head.
IsList(A) == LeastFrom(Cells, {weak} \ {NULL}, Links, NULL, A)

LEMMA CellTypes ==
    ASSUME TypeOK
    PROVE  /\ \A a \in Cells : cell[a].next \in Ref /\ cell[a].target \in Ref
           /\ DOMAIN cell = Cells /\ weak \in Ref /\ root \in [Roots -> Ref]
           /\ Links \in [Cells -> Cells \cup {NULL}]
<1>1. cell \in [Cells -> Cell] /\ weak \in Ref /\ root \in [Roots -> Ref]
  BY DEF TypeOK, Cell
<1>2. \A a \in Cells : cell[a] \in Cell
  BY <1>1
<1>3. \A c \in Cell : c.next \in Ref /\ c.target \in Ref
  BY DEF Cell
<1>4. \A a \in Cells : cell[a].next \in Ref /\ cell[a].target \in Ref
  BY <1>2, <1>3
<1>5. Links \in [Cells -> Cells \cup {NULL}]
  BY <1>4 DEF Links, Ref
<1> QED BY <1>1, <1>4, <1>5

LEMMA CellsAre == /\ IsFiniteSet(Cells) /\ Cardinality(Cells) = Size /\ Size \in Nat
                  /\ NULL \notin Cells /\ \A a \in Cells : a \in Int
<1>1. Cells = 1 .. Size /\ Size \in Nat
  BY WeakListAssumption DEF Cells
<1>2. IsFiniteSet(1 .. Size) /\ Cardinality(1 .. Size) = IF 1 > Size THEN 0 ELSE Size - 1 + 1
  BY <1>1, FS_Interval
<1> QED BY <1>1, <1>2 DEF NULL

\* The walk along the list.
LEMMA Walk ==
    ASSUME TypeOK
    PROVE  /\ Listed(0) = weak /\ \A n \in Nat : Listed(n) \in Ref
           /\ \A n \in Nat : Listed(n + 1) = IF Listed(n) = NULL THEN NULL ELSE cell[Listed(n)].next
<1> DEFINE nxt == [a \in Ref |-> IF a = NULL THEN NULL ELSE cell[a].next]
           at == CHOOSE f : f = [n \in Nat |-> IF n = 0 THEN weak ELSE nxt[f[n - 1]]]
<1>1. nxt \in [Ref -> Ref] /\ weak \in Ref /\ \A a \in Ref : nxt[a] = IF a = NULL THEN NULL ELSE cell[a].next
  <2>1. \A a \in Ref : (IF a = NULL THEN NULL ELSE cell[a].next) \in Ref
    BY CellTypes DEF Ref
  <2> QED BY <2>1, CellTypes
<1>2. \A k : Listed(k) = at[k]
  BY DEF Listed
<1> HIDE DEF nxt
<1>3. at \in [Nat -> Ref] /\ at = [n \in Nat |-> IF n = 0 THEN weak ELSE nxt[at[n - 1]]]
  <2>1. PICK f \in [Nat -> Ref] : Iterates(f, weak, nxt)
    BY <1>1, Iteration
  <2>2. f = [n \in Nat |-> IF n = 0 THEN weak ELSE nxt[f[n - 1]]]
    BY <2>1 DEF Iterates
  <2>3. at = [n \in Nat |-> IF n = 0 THEN weak ELSE nxt[at[n - 1]]]
    BY <2>2
  <2>4. at = f
    <3> DEFINE T == {n \in Nat : at[n] = f[n]}
    <3>1. 0 \in T
      BY <2>2, <2>3
    <3>2. ASSUME NEW n \in Nat, n \in T PROVE n + 1 \in T
      <4>1. n + 1 \in Nat /\ n + 1 # 0 /\ (n + 1) - 1 = n
        OBVIOUS
      <4>2. at[n + 1] = nxt[at[n]] /\ f[n + 1] = nxt[f[n]]
        BY <4>1, <2>2, <2>3
      <4> QED BY <4>1, <4>2, <3>2
    <3>3. Nat \subseteq T
      <4> HIDE DEF T
      <4> QED BY <3>1, <3>2, FromZero
    <3> HIDE DEF at
    <3>4. \A n \in Nat : at[n] = f[n]
      BY <3>3
    <3>5. at = [n \in Nat |-> at[n]] /\ f = [n \in Nat |-> f[n]]
      BY <2>2, <2>3
    <3> QED BY <3>4, <3>5
  <2> HIDE DEF at
  <2> QED BY <2>1, <2>3, <2>4
<1> HIDE DEF at
<1>4. ASSUME NEW n \in Nat PROVE at[n + 1] = nxt[at[n]]
  <2>1. n + 1 \in Nat /\ n + 1 # 0 /\ (n + 1) - 1 = n
    OBVIOUS
  <2> QED BY <2>1, <1>3
<1>5. at[0] = weak /\ \A n \in Nat : at[n] \in Ref
  BY <1>3
<1> QED BY <1>1, <1>2, <1>4, <1>5

\* As many steps as there are cells meet every reference of the list.
LEMMA ListIs == TypeOK => IsList(List)
<1> SUFFICES ASSUME TypeOK PROVE IsList(List)
  OBVIOUS
<1> DEFINE start == {weak} \ {NULL}
           f == [n \in Nat |-> {Listed(k) : k \in 0 .. n} \ {NULL}]
<1>1. weak \in Ref /\ Links \in [Cells -> Cells \cup {NULL}] /\ start \in SUBSET Cells
  BY CellTypes DEF Ref
<1>2. f[0] = start
  <2>1. 0 .. 0 = {0} /\ Listed(0) = weak
    BY Walk
  <2> QED BY <2>1
<1>3. ASSUME NEW n \in Nat PROVE f[n + 1] = Leads(Links, NULL, f[n])
  <2>1. n + 1 \in Nat /\ 0 .. n + 1 = (0 .. n) \cup {n + 1} /\ \A k \in 0 .. n : k \in Nat /\ k + 1 \in 0 .. n + 1
    OBVIOUS
  <2>2. 0 .. n + 1 = {0} \cup {k + 1 : k \in 0 .. n}
    <3>1. \A j \in 0 .. n + 1 : j = 0 \/ (j - 1 \in 0 .. n /\ (j - 1) + 1 = j)
      OBVIOUS
    <3> QED BY <3>1, <2>1
  <2>3. f[n] = {Listed(k) : k \in 0 .. n} \ {NULL} /\ f[n + 1] = {Listed(k) : k \in 0 .. n + 1} \ {NULL}
    BY <2>1
  <2> HIDE DEF f
  <2>4. \A k \in 0 .. n : Listed(k) \in f[n] => Links[Listed(k)] = Listed(k + 1)
    <3>1. \A k \in 0 .. n : Listed(k) \in f[n] => Listed(k) \in Cells
      BY <2>1, <2>3, Walk DEF Ref
    <3> QED BY <3>1, <2>1, Walk, CellsAre DEF Links
  <2>5. ASSUME NEW x \in f[n + 1] PROVE x \in Leads(Links, NULL, f[n])
    <3>1. PICK j \in 0 .. n + 1 : x = Listed(j) /\ x # NULL
      BY <2>3
    <3>2. CASE j \in 0 .. n
      BY <3>1, <3>2, <2>3 DEF Leads
    <3>3. CASE j = n + 1
      <4>1. n \in 0 .. n /\ Listed(n) # NULL
        BY <3>1, <3>3, Walk
      <4>2. Listed(n) \in f[n]
        BY <4>1, <2>3
      <4>3. Links[Listed(n)] = x
        BY <4>1, <4>2, <2>4, <3>1, <3>3
      <4> QED BY <4>2, <4>3, <3>1 DEF Leads
    <3> QED BY <3>2, <3>3, <2>1
  <2>6. ASSUME NEW x \in Leads(Links, NULL, f[n]) PROVE x \in f[n + 1]
    <3>1. PICK a \in f[n] : x \in {a, Links[a]} \ {NULL}
      BY <2>6 DEF Leads
    <3>2. PICK k \in 0 .. n : a = Listed(k)
      BY <2>3
    <3>3. x = Listed(k) \/ x = Listed(k + 1)
      BY <3>1, <3>2, <2>4
    <3> QED BY <3>1, <3>3, <2>1, <2>3
  <2> QED BY <2>5, <2>6
<1>4. List = f[Size]
  BY CellsAre DEF List
<1> HIDE DEF f
<1>5. LeastFrom(Cells, start, Links, NULL, f[Cardinality(Cells)])
  BY <1>1, <1>2, <1>3, CellsAre, WaysEnd
<1> QED BY <1>4, <1>5, CellsAre DEF IsList

-----------------------------------------------------------------------------
(* The inductive invariant *)

Named(c) == /\ \A a \in Cells : c[a].kind # "free" => c[a].id \in Ids
            /\ \A a, b \in Cells : c[a].id = c[b].id /\ c[a].kind # "free" => a = b

\* Cells that are not allocated are blank, those that are have names of their own, and the
\* roots refer to allocated cells.
WInv ==
    /\ TypeOK
    /\ \A a \in Cells : cell[a].kind = "free" => cell[a] = Free
    /\ Named(cell)
    /\ \A r \in Roots : root[r] \in Allocated \cup {NULL}

LEMMA MarkedIs ==
    ASSUME WInv
    PROVE  /\ Marked \subseteq Cells /\ Marked \subseteq Allocated /\ NULL \notin Marked
           /\ \A r \in Roots : root[r] \in Marked \cup {NULL}
<1>1. \A r \in Roots : root[r] \in Allocated \cup {NULL}
  BY DEF WInv
<1>2. Marked \subseteq Allocated /\ NULL \notin Marked /\ \A r \in Roots : root[r] \in Marked \cup {NULL}
  BY <1>1 DEF Marked
<1> QED BY <1>2 DEF Allocated

\* What is nameless is free, and no two cells share a name.
LEMMA NamedOnce ==
    ASSUME NEW c, Named(c), \A a \in Cells : c[a].kind = "free" => c[a] = Free,
           NEW a \in Cells, NEW b \in Cells, c[a].id \in Ids, c[a].id = c[b].id
    PROVE  a = b
<1>1. Free.id = NoId /\ NoId \notin Ids
  BY WeakListAssumption DEF Free
<1>2. c[a].kind # "free"
  BY <1>1
<1> QED BY <1>2 DEF Named

-----------------------------------------------------------------------------
(* The steps of the program *)

\* A list from which the old one can be walked holds the old one.
LEMMA ListGrows ==
    ASSUME TypeOK, TypeOK', {weak} \ {NULL} \subseteq List', \A a \in List' : cell[a].next \in List' \cup {NULL}
    PROVE  List \subseteq List'
<1>1. IsList(List)
  BY ListIs
<1>2. IsList(List)'
  BY ListIs, PTL
<1>3. List' \in SUBSET Cells
  BY <1>2 DEF IsList, LeastFrom
<1>4. \A a \in List' : Links[a] \in List' \cup {NULL}
  BY <1>3 DEF Links
<1> QED BY <1>1, <1>3, <1>4 DEF IsList, LeastFrom

LEMMA ListAfter ==
    ASSUME TypeOK'
    PROVE  List' \subseteq Cells /\ {weak'} \ {NULL} \subseteq List' /\ \A a \in List' : cell'[a].next \in List' \cup {NULL}
<1>1. IsList(List)'
  BY ListIs, PTL
<1>2. List' \subseteq Cells /\ {weak'} \ {NULL} \subseteq List' /\ \A a \in List' : Links'[a] \in List' \cup {NULL}
  BY <1>1 DEF IsList, LeastFrom
<1> QED BY <1>2 DEF Links

\* The cells keep their links and the head is where it was.
LEMMA SameLinks ==
    ASSUME TypeOK, TypeOK', weak' = weak, \A a \in Cells : cell'[a].next = cell[a].next
    PROVE  List \subseteq List'
BY ListAfter, ListGrows

\* What every step of the program does: the cells the program holds keep their places and
\* their names, and the list keeps its members.
Kept == /\ \A a \in Marked : cell'[a].id = cell[a].id
        /\ List \subseteq List'

LEMMA NewKeeps ==
    ASSUME WInv, NEW r \in Roots, NEW id \in Ids, NEW head \in BOOLEAN, NEW block \in Cell,
           block.kind # "free", block.next = IF head THEN weak ELSE NULL,
           New(r, id, block, head)
    PROVE  WInv' /\ Kept
<1>1. PICK a \in Cells \ Allocated :
         /\ \A b \in Allocated : cell[b].id # id
         /\ cell' = [cell EXCEPT ![a] = [block EXCEPT !.id = id]]
         /\ root' = [root EXCEPT ![r] = a]
         /\ weak' = IF head THEN a ELSE weak
  BY DEF New
<1> DEFINE new == [block EXCEPT !.id = id]
<1>2. new \in Cell /\ new.kind # "free" /\ new.id = id /\ new.next = IF head THEN weak ELSE NULL
  BY DEF Cell
<1> HIDE DEF new
<1>3. /\ TypeOK /\ (\A b \in Cells : cell[b].kind = "free" => cell[b] = Free) /\ Named(cell)
      /\ \A q \in Roots : root[q] \in Allocated \cup {NULL}
  BY DEF WInv
<1>4. weak \in Ref /\ root \in [Roots -> Ref] /\ DOMAIN cell = Cells
  BY <1>3, CellTypes
<1>5. cell' = [cell EXCEPT ![a] = new] /\ a \in Cells /\ cell[a].kind = "free"
  BY <1>1 DEF Allocated, new
<1>6. cell'[a] = new /\ \A b \in Cells : b # a => cell'[b] = cell[b]
  BY <1>4, <1>5
<1>8. TypeOK'
  <2>2. cell' \in [Cells -> Cell]
    BY <1>2, <1>3, <1>5 DEF TypeOK, Cell
  <2>3. root' \in [Roots -> Ref] /\ weak' \in Ref
    BY <1>1, <1>4 DEF Ref
  <2> QED BY <2>2, <2>3 DEF TypeOK, Cell
<1>9. Named(cell')
  <2>1. \A b \in Cells : b # a /\ cell[b].kind # "free" => cell[b].id # id /\ cell[b].id \in Ids
    BY <1>1, <1>3 DEF Allocated, Named
  <2>2. \A b \in Cells : cell[b].kind = "free" => cell[b].id # id
    BY <1>3, WeakListAssumption DEF Free
  <2>3. \A b, c \in Cells : cell[b].id = cell[c].id /\ cell[b].kind # "free" => b = c
    BY <1>3 DEF Named
  <2> QED BY <2>1, <2>2, <2>3, <1>2, <1>6 DEF Named
<1>10. Allocated' = Allocated \cup {a}
  BY <1>2, <1>5, <1>6 DEF Allocated
<1>11. \A q \in Roots : root'[q] \in Allocated' \cup {NULL}
  BY <1>1, <1>3, <1>4, <1>10
<1>12. \A b \in Cells : cell'[b].kind = "free" => cell'[b] = Free
  BY <1>2, <1>3, <1>6
<1>13. WInv'
  BY <1>8, <1>9, <1>11, <1>12 DEF WInv
<1>14. \A b \in Marked : cell'[b].id = cell[b].id
  BY <1>5, <1>6, MarkedIs DEF Allocated
<1>15. List \subseteq List'
  <2>1. cell[a].next = NULL
    BY <1>3, <1>5 DEF Free
  <2>2. CASE head
    <3>1. weak' = a /\ cell'[a].next = weak /\ \A b \in Cells : b # a => cell'[b].next = cell[b].next
      BY <2>2, <1>1, <1>2, <1>6
    <3>2. a \in List' /\ List' \subseteq Cells /\ \A b \in List' : cell'[b].next \in List' \cup {NULL}
      BY <3>1, <1>5, <1>8, ListAfter, CellsAre
    <3>3. {weak} \ {NULL} \subseteq List'
      BY <3>1, <3>2
    <3>4. \A b \in List' : cell[b].next \in List' \cup {NULL}
      BY <3>1, <3>2, <2>1
    <3> QED BY <3>3, <3>4, <1>3, <1>8, ListGrows
  <2>3. CASE ~head
    BY <2>1, <2>3, <1>1, <1>2, <1>3, <1>6, <1>8, SameLinks
  <2> QED BY <2>2, <2>3
<1> QED BY <1>13, <1>14, <1>15 DEF Kept

LEMMA ProgramKeeps ==
    ASSUME WInv, TargetsLive, Program
    PROVE  WInv' /\ Kept
<1>1. PICK r \in Roots :
        \/ Drop(r)
        \/ \E id \in Ids : AllocObject(r, id) \/ \E t \in Marked \cup {NULL} : AllocWeak(r, id, t)
        \/ \E q \in Roots : SetTarget(r, root[q]) \/ GetTarget(r, q)
  BY DEF Program
<1>2. /\ TypeOK /\ (\A b \in Cells : cell[b].kind = "free" => cell[b] = Free) /\ Named(cell)
      /\ \A q \in Roots : root[q] \in Allocated \cup {NULL}
  BY DEF WInv
<1>3. weak \in Ref /\ root \in [Roots -> Ref] /\ DOMAIN cell = Cells /\ Allocated \subseteq Cells
  BY <1>2, CellTypes DEF Allocated
<1>4. ASSUME NEW t \in Allocated \cup {NULL}, NEW q \in Roots, root' = [root EXCEPT ![q] = t], UNCHANGED <<cell, weak>>
      PROVE  WInv' /\ Kept
  <2>1. cell' = cell /\ weak' = weak /\ root' \in [Roots -> Ref]
    BY <1>3, <1>4 DEF Ref
  <2>2. TypeOK'
    BY <2>1, <1>2 DEF TypeOK
  <2>3. Allocated' = Allocated
    BY <2>1 DEF Allocated
  <2>4. \A p \in Roots : root'[p] \in Allocated' \cup {NULL}
    BY <2>3, <1>2, <1>3, <1>4
  <2> QED BY <2>1, <2>2, <2>4, <1>2, SameLinks DEF WInv, Kept
<1>5. CASE Drop(r)
  BY <1>4, <1>5 DEF Drop
<1>6. ASSUME NEW q \in Roots, GetTarget(r, q) PROVE WInv' /\ Kept
  <2>1. cell[root[r]].target \in Allocated \cup {NULL}
    BY <1>6 DEF GetTarget, TargetsLive
  <2> QED BY <2>1, <1>4, <1>6 DEF GetTarget
<1>7. ASSUME NEW id \in Ids, AllocObject(r, id) PROVE WInv' /\ Kept
  <2> DEFINE block == [Free EXCEPT !.kind = "object"]
  <2>1. block \in Cell /\ block.kind = "object" /\ block.next = NULL
    BY <1>3 DEF Free, Cell, Ref
  <2>2. New(r, id, block, FALSE)
    BY <1>7 DEF AllocObject
  <2> HIDE DEF block
  <2> QED BY <2>1, <2>2, NewKeeps
<1>8. ASSUME NEW id \in Ids, NEW t \in Marked \cup {NULL}, AllocWeak(r, id, t) PROVE WInv' /\ Kept
  <2> DEFINE block == [Free EXCEPT !.kind = "weak", !.target = t, !.next = weak]
  <2>1. block \in Cell /\ block.kind = "weak" /\ block.next = weak
    BY <1>3, MarkedIs DEF Free, Cell, Ref
  <2>2. New(r, id, block, TRUE)
    BY <1>8 DEF AllocWeak
  <2> HIDE DEF block
  <2> QED BY <2>1, <2>2, NewKeeps
<1>9. ASSUME NEW q \in Roots, SetTarget(r, root[q]) PROVE WInv' /\ Kept
  <2> DEFINE w == root[r]
             new == [cell[w] EXCEPT !.target = root[q]]
  <2>1. /\ w \in Cells /\ cell[w].kind = "weak" /\ root[q] \in Ref
        /\ cell' = [cell EXCEPT ![w] = new] /\ root' = root /\ weak' = weak
    BY <1>3, <1>9 DEF SetTarget, IsWeak
  <2>2. /\ new \in Cell
        /\ new.kind = cell[w].kind /\ new.id = cell[w].id /\ new.next = cell[w].next
    <3>1. cell[w] \in Cell
      BY <2>1, <1>2 DEF TypeOK, Cell
    <3> HIDE DEF w
    <3> QED BY <3>1, <2>1 DEF Cell
  <2> HIDE DEF w, new
  <2>3. cell'[w] = new /\ \A b \in Cells : b # w => cell'[b] = cell[b]
    BY <2>1, <1>3
  <2>4. TypeOK'
    BY <2>1, <2>2, <1>2 DEF TypeOK, Cell
  <2>5. \A b \in Cells : /\ cell'[b].kind = cell[b].kind /\ cell'[b].id = cell[b].id
                         /\ cell'[b].next = cell[b].next
    BY <2>2, <2>3
  <2>6. Allocated' = Allocated /\ Named(cell')
    BY <2>5, <1>2 DEF Allocated, Named
  <2>7. \A b \in Cells : cell'[b].kind = "free" => cell'[b] = Free
    BY <2>1, <2>3, <2>5, <1>2
  <2>8. \A b \in Marked : cell'[b].id = cell[b].id
    BY <2>5, MarkedIs
  <2>9. WInv'
    BY <2>1, <2>4, <2>6, <2>7, <1>2 DEF WInv
  <2> QED BY <2>1, <2>4, <2>5, <2>8, <2>9, <1>2, SameLinks DEF Kept
<1> QED BY <1>1, <1>5, <1>6, <1>7, <1>8, <1>9

-----------------------------------------------------------------------------
(* A collection *)

\* Compaction moves the marked cells to places of their own.
LEMMA Places ==
    ASSUME WInv, NEW compact \in BOOLEAN
    PROVE  /\ \A a \in Marked : Place(a, compact) \in Cells
           /\ \A a, b \in Marked : Place(a, compact) = Place(b, compact) => a = b
           /\ \A x \in Ref : Place(x, compact) \in Ref
           /\ Place(NULL, compact) = NULL
<1> DEFINE upto(a) == {b \in Marked : b <= a}
           rank(a) == Cardinality(upto(a))
<1>1. Marked \subseteq Cells /\ NULL \notin Marked
  BY MarkedIs
<1>2. \A a \in Marked : IsFiniteSet(upto(a)) /\ rank(a) \in Nat /\ rank(a) <= Size
  <2>1. \A a \in Marked : upto(a) \subseteq Cells
    BY <1>1
  <2> QED BY <2>1, CellsAre, FS_Subset, FS_CardinalityType
<1>3. ASSUME NEW a \in Marked PROVE rank(a) # 0
  <2>1. a \in upto(a)
    BY <1>1, CellsAre
  <2> QED BY <2>1, <1>2, FS_EmptySet
<1>4. ASSUME NEW a \in Marked, NEW b \in Marked, a < b PROVE rank(a) # rank(b)
  <2>1. upto(a) \subseteq upto(b) /\ b \in upto(b) /\ b \notin upto(a)
    <3>1. a \in Int /\ b \in Int /\ \A c \in Marked : c \in Int
      BY <1>1, CellsAre
    <3>2. (\A c \in Marked : c <= a => c <= b) /\ b <= b /\ ~(b <= a)
      BY <3>1, <1>4
    <3> QED BY <3>2
  <2>2. upto(a) # upto(b)
    BY <2>1
  <2> QED BY <2>1, <2>2, <1>2, FS_Subset
<1>5. \A a, b \in Marked : rank(a) = rank(b) => a = b
  <2>1. \A a, b \in Marked : a < b \/ b < a \/ a = b
    BY <1>1, CellsAre
  <2> HIDE DEF rank
  <2> QED BY <2>1, <1>4
<1>6. \A a \in Marked : Place(a, compact) = IF compact THEN rank(a) ELSE a
  BY DEF Place
<1>7. \A x : x \notin Marked => Place(x, compact) = x
  BY DEF Place
<1>8. \A a \in Marked : rank(a) \in Cells
  <2> HIDE DEF upto
  <2> QED BY <1>2, <1>3, CellsAre DEF Cells
<1> HIDE DEF rank, upto
<1>9. \A a \in Marked : Place(a, compact) \in Cells
  BY <1>1, <1>6, <1>8
<1>10. \A a, b \in Marked : Place(a, compact) = Place(b, compact) => a = b
  BY <1>5, <1>6
<1> QED BY <1>1, <1>7, <1>9, <1>10 DEF Ref

\* Clearing keeps what a cell is, and its name. Of a member of the list it keeps the target if
\* that is marked.
LEMMA ClearedIs ==
    ASSUME WInv, NEW a \in Marked
    PROVE  /\ ClearWeak(a) \in Cell /\ ClearWeak(a).kind = cell[a].kind /\ ClearWeak(a).id = cell[a].id
           /\ a \in List => ClearWeak(a).target = IF cell[a].target \in Marked THEN cell[a].target ELSE NULL
<1>1. a \in Cells /\ cell[a] \in Cell /\ TypeOK
  BY MarkedIs DEF WInv, TypeOK, Cell
<1> DEFINE on == \E k \in MarkedList : Listed(k) = a
           k == CHOOSE k \in MarkedList : Listed(k) = a
           new == [cell[a] EXCEPT !.target = Cleared(@), !.next = NextMarked(k)]
<1>2. CASE ~on
  <2>1. ClearWeak(a) = cell[a]
    BY <1>2 DEF ClearWeak
  <2>2. a \notin List
    <3> SUFFICES ASSUME a \in List PROVE FALSE
      OBVIOUS
    <3>1. PICK j \in 0 .. Size : Listed(j) = a
      BY DEF List
    <3> QED BY <3>1, <1>2 DEF MarkedList, MarkedAt
  <2> QED BY <2>1, <2>2, <1>1
<1>3. CASE on
  <2>1. ClearWeak(a) = new
    BY <1>3 DEF ClearWeak
  <2>2. NextMarked(k) \in Ref
    <3> DEFINE after == {j \in MarkedList : j > k}
    <3>1. CASE after = {}
      BY <3>1 DEF NextMarked, Ref
    <3>2. CASE after # {}
      <4>1. after \in SUBSET Nat
        BY WeakListAssumption DEF MarkedList
      <4>2. \E j \in after : \A i \in after : j <= i
        <5> HIDE DEF after
        <5> QED BY <4>1, <3>2, LeastExists
      <4>3. PICK n \in after : NextMarked(k) = Listed(n)
        <5> DEFINE n == CHOOSE j \in after : \A i \in after : j <= i
        <5>1. n \in after
          <6> HIDE DEF after
          <6> QED BY <4>2
        <5>2. NextMarked(k) = Listed(n)
          BY <3>2 DEF NextMarked
        <5> QED BY <5>1, <5>2
      <4> QED BY <4>1, <4>3, <1>1, Walk
    <3> QED BY <3>1, <3>2
  <2> HIDE DEF k
  <2>3. Cleared(cell[a].target) = IF cell[a].target \in Marked THEN cell[a].target ELSE NULL
    BY DEF Cleared
  <2>4. Cleared(cell[a].target) \in Ref
    BY <2>3, <1>1, CellTypes DEF Ref
  <2>5. /\ new \in Cell /\ new.kind = cell[a].kind /\ new.id = cell[a].id
        /\ new.target = Cleared(cell[a].target)
    BY <2>2, <2>4, <1>1 DEF Cell
  <2> QED BY <2>1, <2>3, <2>5
<1> QED BY <1>2, <1>3

\* If something of the list survives, the head a collection leaves is the last of it.
LEMMA LastMarked ==
    ASSUME MarkedList # {}
    PROVE  \E last \in MarkedList : Head = Listed(last) /\ \A j \in MarkedList : j <= last
<1> DEFINE T == {Size - k : k \in MarkedList}
           last == CHOOSE k \in MarkedList : \A j \in MarkedList : j <= k
<1>1. Size \in Nat /\ MarkedList \subseteq 0 .. Size
  BY CellsAre DEF MarkedList
<1>2. T \in SUBSET Nat /\ T # {}
  <2>1. \A k \in MarkedList : Size - k \in Nat
    BY <1>1
  <2> QED BY <2>1
<1>3. PICK m \in T : \A n \in T : m <= n
  <2> HIDE DEF T
  <2> QED BY <1>2, LeastExists
<1>4. PICK k \in MarkedList : m = Size - k
  BY <1>3
<1>5. \A j \in MarkedList : j <= k
  <2> SUFFICES ASSUME NEW j \in MarkedList PROVE j <= k
    OBVIOUS
  <2>1. Size - j \in T
    OBVIOUS
  <2>2. m <= Size - j
    <3> HIDE DEF T
    <3> QED BY <2>1, <1>3
  <2>3. j \in Int /\ k \in Int
    BY <1>1
  <2> QED BY <2>2, <2>3, <1>1, <1>4
<1>6. last \in MarkedList /\ \A j \in MarkedList : j <= last
  BY <1>5
<1>7. Head = Listed(last)
  BY DEF Head
<1> HIDE DEF last
<1> QED BY <1>6, <1>7

LEMMA HeadIs ==
    ASSUME WInv
    PROVE  Head \in Ref
<1>1. TypeOK
  BY DEF WInv
<1>2. CASE MarkedList = {}
  BY <1>1, <1>2, CellTypes DEF Head
<1>3. CASE MarkedList # {}
  <2>1. PICK last \in MarkedList : Head = Listed(last)
    BY <1>3, LastMarked
  <2>2. last \in 0 .. Size /\ Size \in Nat
    BY CellsAre DEF MarkedList
  <2>3. last \in Nat
    BY <2>2
  <2> QED BY <2>1, <2>3, <1>1, Walk
<1> QED BY <1>2, <1>3

\* The cells after a collection: those marked, cleared and at their places, and blank ones.
LEMMA CollectedIs ==
    ASSUME WInv, NEW compact \in BOOLEAN, Collect(compact)
    PROVE  /\ \A a \in Marked : cell'[Place(a, compact)] = Relocated(ClearWeak(a), compact)
           /\ \A b \in Cells : cell'[b] = Free \/ \E a \in Marked : b = Place(a, compact)
           /\ cell' = [b \in Cells |-> cell'[b]]
           /\ root' = [r \in Roots |-> Place(root[r], compact)] /\ weak' = Place(Head, compact)
<1> DEFINE from(b) == {a \in Marked : Place(a, compact) = b}
           swept(b) == IF from(b) = {} THEN Free
                       ELSE Relocated(ClearWeak(CHOOSE a \in from(b) : TRUE), compact)
<1>1. /\ cell' = [b \in Cells |-> swept(b)]
      /\ root' = [r \in Roots |-> Place(root[r], compact)] /\ weak' = Place(Head, compact)
  BY DEF Collect
<1>2. ASSUME NEW a \in Marked PROVE cell'[Place(a, compact)] = Relocated(ClearWeak(a), compact)
  <2> DEFINE b == Place(a, compact)
  <2>1. b \in Cells /\ from(b) = {a}
    BY Places
  <2> HIDE DEF b
  <2>2. swept(b) = Relocated(ClearWeak(a), compact)
    <3>1. (CHOOSE x \in from(b) : TRUE) = a
      BY <2>1
    <3> HIDE DEF from
    <3> QED BY <2>1, <3>1
  <2>3. cell'[b] = swept(b)
    BY <2>1, <1>1
  <2> QED BY <2>2, <2>3 DEF b
<1>3. ASSUME NEW b \in Cells PROVE cell'[b] = Free \/ \E a \in Marked : b = Place(a, compact)
  <2>1. cell'[b] = swept(b)
    BY <1>1
  <2> QED BY <2>1
<1> HIDE DEF swept
<1>4. cell' = [b \in Cells |-> cell'[b]]
  BY <1>1
<1> QED BY <1>1, <1>2, <1>3, <1>4

\* A marked cell keeps its kind and its name, a member of the list also its target, at its place.
LEMMA SurvivorIs ==
    ASSUME WInv, NEW compact \in BOOLEAN, Collect(compact), NEW a \in Marked
    PROVE  LET b == Place(a, compact)
           IN  /\ b \in Cells /\ cell'[b] \in Cell
               /\ cell'[b].kind = cell[a].kind /\ cell'[b].id = cell[a].id
               /\ a \in List => cell'[b].target = IF cell[a].target \in Marked
                                                  THEN Place(cell[a].target, compact) ELSE NULL
<1> DEFINE b == Place(a, compact)
           c == ClearWeak(a)
<1>1. b \in Cells /\ cell'[b] = Relocated(c, compact)
  BY CollectedIs, Places
<1>2. /\ c \in Cell /\ c.kind = cell[a].kind /\ c.id = cell[a].id
      /\ a \in List => c.target = IF cell[a].target \in Marked THEN cell[a].target ELSE NULL
  BY ClearedIs
<1> HIDE DEF c, b
<1>3. Place(c.target, compact) \in Ref /\ Place(c.next, compact) \in Ref /\ Place(NULL, compact) = NULL
  BY <1>2, Places DEF Cell
<1>4. /\ cell'[b] \in Cell /\ cell'[b].kind = c.kind /\ cell'[b].id = c.id
      /\ cell'[b].target = Place(c.target, compact)
  BY <1>1, <1>2, <1>3 DEF Relocated, Cell
<1> QED BY <1>1, <1>2, <1>3, <1>4 DEF b

LEMMA CollectKeeps ==
    ASSUME WInv, NEW compact \in BOOLEAN, Collect(compact)
    PROVE  WInv'
<1> DEFINE p(a) == Place(a, compact)
<1>1. \A a \in Marked : /\ p(a) \in Cells /\ cell'[p(a)] \in Cell
                        /\ cell'[p(a)].kind = cell[a].kind /\ cell'[p(a)].id = cell[a].id
  BY SurvivorIs
<1>2. /\ \A b \in Cells : cell'[b] = Free \/ \E a \in Marked : b = p(a)
      /\ cell' = [b \in Cells |-> cell'[b]]
      /\ root' = [r \in Roots |-> p(root[r])] /\ weak' = p(Head)
  BY CollectedIs
<1>3. /\ \A a, b \in Marked : p(a) = p(b) => a = b
      /\ \A x \in Ref : p(x) \in Ref
      /\ p(NULL) = NULL
  BY Places
<1> HIDE DEF p
<1>4. \A a \in Marked : a \in Cells /\ cell[a].kind # "free" /\ cell[a].id \in Ids
  BY MarkedIs DEF Allocated, WInv, Named
<1>5. Free \in Cell /\ Free.kind = "free" /\ Free.id = NoId /\ NoId \notin Ids
  BY WeakListAssumption DEF Free, Cell, Ref
<1>6. \A b \in Cells : cell'[b] \in Cell
  BY <1>1, <1>2, <1>5
<1>7. cell' \in [Cells -> Cell]
  BY <1>2, <1>6
<1>8. root' \in [Roots -> Ref] /\ weak' \in Ref
  <2>1. root \in [Roots -> Ref] /\ Head \in Ref
    BY HeadIs, CellTypes DEF WInv
  <2> QED BY <2>1, <1>2, <1>3
<1>9. \A b \in Cells : cell'[b].kind # "free" => \E a \in Marked : b = p(a)
  BY <1>2, <1>5
<1>10. \A b \in Cells : cell'[b].kind = "free" => cell'[b] = Free
  BY <1>1, <1>2, <1>4
<1>11. Named(cell')
  <2>1. \A b \in Cells : cell'[b].kind # "free" => cell'[b].id \in Ids
    BY <1>1, <1>4, <1>9
  <2>2. ASSUME NEW b \in Cells, NEW c \in Cells, cell'[b].id = cell'[c].id, cell'[b].kind # "free" PROVE b = c
    <3>1. cell'[c].kind # "free"
      BY <2>1, <2>2, <1>5, <1>10
    <3>2. PICK x \in Marked, y \in Marked : b = p(x) /\ c = p(y)
      BY <2>2, <3>1, <1>9
    <3>3. cell[x].id = cell[y].id /\ cell[x].kind # "free" /\ x \in Cells /\ y \in Cells
      BY <2>2, <3>2, <1>1, <1>4
    <3>4. x = y
      BY <3>3 DEF WInv, Named
    <3> QED BY <3>2, <3>4
  <2> QED BY <2>1, <2>2 DEF Named
<1>12. \A r \in Roots : root'[r] \in Allocated' \cup {NULL}
  <2>1. \A r \in Roots : root[r] \in Marked \cup {NULL} /\ root'[r] = p(root[r])
    BY <1>2, MarkedIs
  <2>2. \A a \in Marked : p(a) \in Allocated'
    BY <1>1, <1>4 DEF Allocated
  <2> QED BY <2>1, <2>2, <1>3
<1>13. TypeOK'
  BY <1>7, <1>8 DEF TypeOK, Cell
<1> QED BY <1>10, <1>11, <1>12, <1>13 DEF WInv

\* The walk along a list that has an end meets no reference twice.
LEMMA WalkOnce ==
    ASSUME TypeOK, ListEnds, NEW i \in Nat, NEW j \in Nat, Listed(i) = Listed(j), i < j
    PROVE  Listed(i) = NULL
<1> SUFFICES ASSUME Listed(j) # NULL PROVE FALSE
  OBVIOUS
<1> DEFINE Same == {n \in Nat : Listed(i + n) = Listed(j + n)}
           Ended(m) == {n \in Nat : Listed(m + n) = NULL}
           Further == {n \in Nat : Listed(j + n) # NULL}
<1>1. \A m, n \in Nat : m + n \in Nat /\ (m + n) + 1 = m + (n + 1) /\ m + 0 = m
  OBVIOUS
<1>2. Nat \subseteq Same
  <2>1. 0 \in Same
    BY <1>1
  <2>2. ASSUME NEW n \in Nat, n \in Same PROVE n + 1 \in Same
    <3>1. /\ i + n \in Nat /\ j + n \in Nat /\ n + 1 \in Nat
          /\ (i + n) + 1 = i + (n + 1) /\ (j + n) + 1 = j + (n + 1)
      BY <1>1
    <3>2. Listed(i + n) = Listed(j + n)
      BY <2>2
    <3>3. Listed((i + n) + 1) = Listed((j + n) + 1)
      BY <3>1, <3>2, Walk
    <3> QED BY <3>1, <3>3
  <2> HIDE DEF Same
  <2> QED BY <2>1, <2>2, FromZero
<1>3. ASSUME NEW m \in Nat, Listed(m) = NULL PROVE Nat \subseteq Ended(m)
  <2>1. 0 \in Ended(m)
    BY <1>1, <1>3
  <2>2. ASSUME NEW n \in Nat, n \in Ended(m) PROVE n + 1 \in Ended(m)
    <3>1. m + n \in Nat /\ n + 1 \in Nat /\ (m + n) + 1 = m + (n + 1) /\ Listed(m + n) = NULL
      BY <1>1, <2>2
    <3>2. Listed((m + n) + 1) = NULL
      BY <3>1, Walk
    <3> QED BY <3>1, <3>2
  <2> HIDE DEF Ended
  <2> QED BY <2>1, <2>2, FromZero
<1>4. \A m, n \in Nat : m <= n /\ Listed(m) = NULL => Listed(n) = NULL
  <2> SUFFICES ASSUME NEW m \in Nat, NEW n \in Nat, m <= n, Listed(m) = NULL PROVE Listed(n) = NULL
    OBVIOUS
  <2>1. n - m \in Nat /\ m + (n - m) = n
    OBVIOUS
  <2>2. Listed(m + (n - m)) = NULL
    BY <1>3, <2>1
  <2> QED BY <2>1, <2>2
<1>5. Nat \subseteq Further
  <2>1. 0 \in Further
    BY <1>1
  <2>2. ASSUME NEW n \in Nat, n \in Further PROVE n + 1 \in Further
    <3>1. /\ n + 1 \in Nat /\ i + (n + 1) \in Nat /\ j + n \in Nat /\ i + (n + 1) <= j + n
          /\ Listed(j + n) # NULL
      BY <2>2
    <3>2. Listed(i + (n + 1)) # NULL
      BY <3>1, <1>4
    <3>3. Listed(i + (n + 1)) = Listed(j + (n + 1))
      BY <3>1, <1>2
    <3> QED BY <3>1, <3>2, <3>3
  <2> HIDE DEF Further
  <2> QED BY <2>1, <2>2, FromZero
<1>6. Size \in Nat /\ Listed(Size) = NULL
  BY CellsAre DEF ListEnds
<1>7. j + Size \in Nat /\ Size <= j + Size /\ Listed(j + Size) # NULL
  BY <1>5, <1>6
<1> QED BY <1>4, <1>6, <1>7

\* Of a list that has an end and of which something survives, the head a collection leaves
\* is the last of those, and links to nothing.
LEMMA HeadIsLast ==
    ASSUME WInv, ListEnds, MarkedList # {}
    PROVE  Head \in Marked /\ ClearWeak(Head).next = NULL
<1>1. TypeOK
  BY DEF WInv
<1>2. PICK last \in MarkedList : Head = Listed(last) /\ \A j \in MarkedList : j <= last
  BY LastMarked
<1>3. \A k \in MarkedList : k \in Nat
  BY CellsAre DEF MarkedList
<1>4. Head \in Marked /\ Head # NULL
  <2>1. Listed(last) \in Marked
    BY <1>2 DEF MarkedList, MarkedAt
  <2> QED BY <2>1, <1>2, MarkedIs
<1>5. \A k \in MarkedList : Listed(k) = Head => k = last
  <2> SUFFICES ASSUME NEW k \in MarkedList, Listed(k) = Head, k < last PROVE FALSE
    <3>1. \A k \in MarkedList : k <= last /\ k \in Nat /\ last \in Nat
      BY <1>2, <1>3
    <3> QED BY <3>1
  <2>1. k \in Nat /\ last \in Nat
    BY <1>3
  <2>2. Listed(k) = NULL
    BY <2>1, <1>1, <1>2, WalkOnce
  <2> QED BY <2>2, <1>4
<1>6. NextMarked(last) = NULL
  <2>1. {j \in MarkedList : j > last} = {}
    BY <1>2, <1>3
  <2> QED BY <2>1 DEF NextMarked
<1>7. ClearWeak(Head) = [cell[Head] EXCEPT !.target = Cleared(@), !.next = NULL]
  <2> DEFINE k == CHOOSE k \in MarkedList : Listed(k) = Head
  <2>1. k = last
    BY <1>2, <1>5
  <2>2. ClearWeak(Head) = [cell[Head] EXCEPT !.target = Cleared(@), !.next = NextMarked(k)]
    BY <1>2 DEF ClearWeak
  <2> QED BY <2>1, <2>2, <1>6
<1>8. cell[Head] \in Cell
  BY <1>4, MarkedIs DEF WInv, TypeOK, Cell
<1>9. [cell[Head] EXCEPT !.target = Cleared(@), !.next = NULL].next = NULL
  BY <1>8 DEF Cell
<1> QED BY <1>4, <1>7, <1>9

\* A collection that something of such a list survives leaves a list of one.
LEMMA OneIsListed ==
    ASSUME WInv, WInv', ListEnds, MarkedList # {}, NEW compact \in BOOLEAN, Collect(compact)
    PROVE  List' \subseteq {Place(Head, compact)}
<1> DEFINE h == Place(Head, compact)
<1>1. Head \in Marked /\ ClearWeak(Head).next = NULL
  BY HeadIsLast
<1>2. /\ h \in Cells /\ h # NULL /\ weak' = h
      /\ cell'[h] = Relocated(ClearWeak(Head), compact) /\ Place(NULL, compact) = NULL
  BY <1>1, Places, CollectedIs, CellsAre
<1>3. ClearWeak(Head) \in Cell
  BY <1>1, ClearedIs
<1> HIDE DEF h
<1>4. cell'[h].next = NULL
  BY <1>1, <1>2, <1>3 DEF Relocated, Cell
<1>5. IsList(List)'
  BY ListIs, PTL DEF WInv
<1>6. {h} \in SUBSET Cells /\ {weak'} \ {NULL} \subseteq {h} /\ \A a \in {h} : Links'[a] \in {h} \cup {NULL}
  BY <1>2, <1>4 DEF Links
<1>7. List' \subseteq {h}
  BY <1>5, <1>6 DEF IsList, LeastFrom
<1> QED BY <1>7 DEF h

-----------------------------------------------------------------------------
(* What holds as long as the list and the targets were sound when a step began *)

\* The behaviours of the run weak_list: where a step ends unsound, no further one is taken.
UnbrokenSpec == Init /\ [][NotYetBroken /\ Next]_vars

LEMMA WInvInit == Init => WInv
<1> SUFFICES ASSUME Init PROVE WInv
  OBVIOUS
<1>1. Free \in Cell /\ Free.kind = "free" /\ NULL \in Ref
  BY DEF Free, Cell, Ref
<1>2. \A a \in Cells : cell[a] = Free
  BY DEF Init
<1>3. TypeOK
  BY <1>1 DEF Init, TypeOK, Cell
<1>4. Named(cell)
  BY <1>1, <1>2 DEF Named
<1> QED BY <1>2, <1>3, <1>4 DEF WInv, Init

LEMMA WInvStep == WInv /\ [NotYetBroken /\ Next]_vars => WInv'
<1> SUFFICES ASSUME WInv, [NotYetBroken /\ Next]_vars PROVE WInv'
  OBVIOUS
<1>1. CASE UNCHANGED vars
  BY <1>1 DEF vars, WInv, TypeOK, Named, Allocated
<1>2. CASE TargetsLive /\ Program
  BY <1>2, ProgramKeeps
<1>3. ASSUME NEW compact \in BOOLEAN, Collect(compact) PROVE WInv'
  BY <1>3, CollectKeeps
<1> QED BY <1>1, <1>2, <1>3 DEF Next, NotYetBroken

LEMMA WInvAlways == UnbrokenSpec => []WInv
<1> QED BY WInvInit, WInvStep, PTL DEF UnbrokenSpec

\* Type correctness, for heaps of every size.
THEOREM UnbrokenWeakTypes == UnbrokenSpec => []TypeOK
<1>1. WInv => TypeOK
  BY DEF WInv
<1> QED BY <1>1, WInvAlways, PTL

\* Whichever cells are swept and wherever compaction moves the others, a weak reference of the
\* list does not name what was swept (pinta_gc_clear_weak), and still names what it named if
\* that survives.
THEOREM UnbrokenListedAreServed == UnbrokenSpec => ListedAreServed
<1> DEFINE Served(compact) ==
             \A a \in List \cap Marked :
               LET b == CHOOSE b \in Cells : cell'[b].id = cell[a].id
               IN  /\ cell'[b].target \in Allocated' \cup {NULL}
                   /\ cell[a].target \in Marked => cell'[cell'[b].target].id = cell[cell[a].target].id
<1>1. ASSUME WInv, WInv', NEW compact \in BOOLEAN, Collect(compact), NEW a \in List \cap Marked
      PROVE  LET b == CHOOSE b \in Cells : cell'[b].id = cell[a].id
             IN  /\ cell'[b].target \in Allocated' \cup {NULL}
                 /\ cell[a].target \in Marked => cell'[cell'[b].target].id = cell[cell[a].target].id
  <2> DEFINE b == CHOOSE b \in Cells : cell'[b].id = cell[a].id
             t == cell[a].target
  <2>1. \A x \in Marked : /\ Place(x, compact) \in Cells /\ cell'[Place(x, compact)].id = cell[x].id
                          /\ Place(x, compact) \in Allocated'
    <3>1. \A x \in Marked : cell[x].kind # "free"
      BY <1>1, MarkedIs DEF Allocated
    <3> QED BY <3>1, <1>1, SurvivorIs DEF Allocated
  <2>2. b = Place(a, compact)
    <3>1. cell[a].id \in Ids
      BY <1>1, MarkedIs DEF WInv, Named, Allocated
    <3>2. \A x \in Cells : cell'[x].id = cell[a].id => x = Place(a, compact)
      BY <2>1, <3>1, <1>1, NamedOnce DEF WInv
    <3>3. Place(a, compact) \in Cells /\ cell'[Place(a, compact)].id = cell[a].id
      BY <2>1
    <3>4. b \in Cells /\ cell'[b].id = cell[a].id
      BY <3>3
    <3> HIDE DEF b
    <3> QED BY <3>2, <3>4
  <2>3. cell'[b].target = IF t \in Marked THEN Place(t, compact) ELSE NULL
    BY <1>1, <2>2, SurvivorIs
  <2> HIDE DEF b
  <2>4. cell'[b].target \in Allocated' \cup {NULL}
    BY <2>1, <2>3
  <2>5. t \in Marked => cell'[cell'[b].target].id = cell[t].id
    BY <2>1, <2>3
  <2> QED BY <2>4, <2>5 DEF b
<1>2. ASSUME WInv, [NotYetBroken /\ Next]_vars
      PROVE  [\A compact \in BOOLEAN : Collect(compact) => Served(compact)]_vars
  <2>1. WInv'
    BY <1>2, WInvStep
  <2> QED BY <2>1, <1>1, <1>2
<1> QED BY <1>2, WInvAlways, PTL DEF UnbrokenSpec, ListedAreServed

\* Of the weak references the program holds on the list, a collection drops every one but
\* the last that survives (gc.c:303), and no other step drops any.
THEOREM UnbrokenOthersFallOff == UnbrokenSpec => OthersFallOff
<1> DEFINE Falls(a, b) ==
             cell'[b].id = cell[a].id =>
               (b \notin List' <=> a # Head /\ \E compact \in BOOLEAN : Collect(compact))
<1>1. ASSUME WInv, WInv', NEW a \in List \cap Marked, NEW b \in Cells, cell'[b].id = cell[a].id,
             NEW c \in Cells, cell'[c].id = cell[a].id
      PROVE  b = c
  <2>1. cell[a].id \in Ids
    BY <1>1, MarkedIs DEF WInv, Named, Allocated
  <2> QED BY <2>1, <1>1, NamedOnce DEF WInv
<1>2. ASSUME WInv, WInv', ListEnds, NEW compact \in BOOLEAN, Collect(compact), NEW a \in List \cap Marked,
             NEW b \in Cells, cell'[b].id = cell[a].id
      PROVE  b \in List' <=> a = Head
  <2>1. Place(a, compact) \in Cells /\ cell'[Place(a, compact)].id = cell[a].id
    BY <1>2, SurvivorIs
  <2>2. b = Place(a, compact)
    BY <2>1, <1>1, <1>2
  <2>3. MarkedList # {}
    <3>1. PICK k \in 0 .. Size : Listed(k) = a
      BY <1>2 DEF List
    <3> QED BY <3>1, <1>2 DEF MarkedList, MarkedAt
  <2>4. ASSUME a = Head PROVE b \in List'
    <3>1. weak' = Place(a, compact) /\ Place(a, compact) # NULL
      BY <1>2, <2>1, <2>4, CollectedIs, CellsAre
    <3>2. {weak'} \ {NULL} \subseteq List'
      BY <1>2, ListAfter DEF WInv
    <3> QED BY <2>2, <3>1, <3>2
  <2>5. ASSUME b \in List' PROVE a = Head
    <3>1. List' \subseteq {Place(Head, compact)} /\ Head \in Marked
      BY <1>2, <2>3, OneIsListed, HeadIsLast
    <3>2. Place(a, compact) = Place(Head, compact)
      BY <2>2, <2>5, <3>1
    <3> QED BY <1>2, <3>1, <3>2, Places
  <2> QED BY <2>4, <2>5
<1>3. ASSUME WInv, WInv', ListEnds, Kept \/ \E compact \in BOOLEAN : Collect(compact),
             NEW a \in List \cap Marked, NEW b \in Cells
      PROVE  Falls(a, b)
  <2> SUFFICES ASSUME cell'[b].id = cell[a].id
               PROVE  b \notin List' <=> a # Head /\ \E compact \in BOOLEAN : Collect(compact)
    OBVIOUS
  <2>1. CASE \E compact \in BOOLEAN : Collect(compact)
    BY <2>1, <1>2, <1>3
  <2>2. CASE Kept /\ ~\E compact \in BOOLEAN : Collect(compact)
    <3>1. a \in Cells /\ cell'[a].id = cell[a].id /\ a \in List'
      BY <2>2, <1>3, MarkedIs DEF Kept
    <3>2. b = a
      BY <3>1, <1>1, <1>3
    <3> QED BY <2>2, <3>1, <3>2
  <2> QED BY <2>1, <2>2, <1>3
<1>4. ASSUME WInv, [NotYetBroken /\ Next]_vars
      PROVE  [\A a \in List \cap Marked, b \in Cells : Falls(a, b)]_vars
  <2>1. WInv'
    BY <1>4, WInvStep
  <2>2. CASE UNCHANGED vars
    BY <2>2
  <2>3. CASE NotYetBroken /\ Next
    <3>1. ListEnds /\ TargetsLive
      BY <2>3 DEF NotYetBroken
    <3>2. Kept \/ \E compact \in BOOLEAN : Collect(compact)
      <4>1. ASSUME Program PROVE Kept
        BY <4>1, <3>1, <1>4, ProgramKeeps
      <4> QED BY <4>1, <2>3 DEF Next
    <3> QED BY <3>1, <3>2, <2>1, <1>3, <1>4
  <2> QED BY <2>2, <2>3, <1>4
<1> QED BY <1>4, WInvAlways, PTL DEF UnbrokenSpec, OthersFallOff
=============================================================================
