---------------------------- MODULE ModuleFileProofs ----------------------------
(***************************************************************************)
(* Proofs about ModuleFile, for modules of any lines and any blobs.        *)
(*                                                                         *)
(* The code: CodeInv says that each line begins where its lengths, summed, *)
(* put it, and that what is written there is the line.  A jump is read     *)
(* back from groups of its offset and lands on its mark, as the padding    *)
(* makes up for what the length of the jump was overestimated by.          *)
(*                                                                         *)
(* The blobs: BlobInv says that the output can be read as a text, each of  *)
(* whose bytes is nested in fewer references than the decoder's stack has  *)
(* places, and that the blobs are in it.  A decoder is at all times in     *)
(* order: what its stack is to yield is the text from where it is on.      *)
(***************************************************************************)
EXTENDS ModuleFile, SequenceTheorems, FiniteSetTheorems, TLAPS

-----------------------------------------------------------------------------
(* Numbers and functions applied again and again *)

\* A set of naturals that is not empty has a least element.
LEMMA LeastExists ==
    ASSUME NEW T \in SUBSET Nat, T # {}
    PROVE  \E x \in T : \A y \in T : x <= y
<1> DEFINE U == {0 .. x : x \in T}
<1>1. IsWellFoundedOn(StrictSubsetOrdering(Nat), FiniteSubsetsOf(Nat))
  BY FS_StrictSubsetOrderingWellFounded
<1>2. U \subseteq FiniteSubsetsOf(Nat) /\ U # {}
  <2>1. ASSUME NEW x \in T PROVE 0 .. x \in SUBSET Nat /\ IsFiniteSet(0 .. x)
    BY FS_Interval
  <2> QED BY <2>1 DEF FiniteSubsetsOf
<1>3. PICK m \in U : \A u \in U : <<u, m>> \notin StrictSubsetOrdering(Nat)
  <2> HIDE DEF U
  <2> QED BY <1>1, <1>2, WFMin
<1>4. PICK x \in T : m = 0 .. x
  OBVIOUS
<1>5. ASSUME NEW y \in T, y < x PROVE FALSE
  <2>1. 0 .. y \in U /\ 0 .. y \subseteq m /\ x \in m /\ x \notin 0 .. y
    BY <1>4, <1>5
  <2>2. <<0 .. y, m>> \in StrictSubsetOrdering(Nat)
    BY <2>1, <1>4 DEF StrictSubsetOrdering
  <2> QED BY <1>3, <2>1, <2>2
<1> QED BY <1>5

\* What holds of 0, and of the next number after one it holds of, holds of all numbers.
LEMMA FromZero ==
    ASSUME NEW T, 0 \in T, \A n \in Nat : n \in T => n + 1 \in T
    PROVE  Nat \subseteq T
<1> DEFINE M == {n \in Nat : n \notin T}
<1> SUFFICES ASSUME M # {} PROVE FALSE
  OBVIOUS
<1>1. M \in SUBSET Nat
  OBVIOUS
<1>2. PICK m \in M : \A n \in M : m <= n
  <2> HIDE DEF M
  <2> QED BY <1>1, LeastExists
<1>3. m \in Nat /\ m # 0 /\ m - 1 \in Nat /\ (m - 1) + 1 = m
  BY <1>2
<1>4. m - 1 \notin M
  <2> HIDE DEF M
  <2>1. ASSUME m - 1 \in M PROVE FALSE
    <3>1. m <= m - 1
      BY <2>1, <1>2
    <3> QED BY <3>1, <1>3
  <2> QED BY <2>1
<1> QED BY <1>2, <1>3, <1>4

\* The sequence f starts with x and goes on with the function nxt.
Iterates(f, x, nxt) == f = [n \in Nat |-> IF n = 0 THEN x ELSE nxt[f[n - 1]]]

\* Of a function applied again and again, from x on, there is a sequence.
LEMMA Iteration ==
    ASSUME NEW S, NEW nxt \in [S -> S], NEW x \in S
    PROVE  \E f \in [Nat -> S] : Iterates(f, x, nxt)
<1> DEFINE IsRun(g, n) == /\ g \in [0 .. n -> S] /\ g[0] = x
                          /\ \A k \in 1 .. n : g[k] = nxt[g[k - 1]]
           HasRun == {n \in Nat : \E g : IsRun(g, n)}
           run(n) == CHOOSE g : IsRun(g, n)
           f == [n \in Nat |-> run(n)[n]]
<1>1. 0 \in HasRun
  <2>1. IsRun([k \in 0 .. 0 |-> x], 0)
    OBVIOUS
  <2> QED BY <2>1
<1>2. ASSUME NEW n \in Nat, NEW g, IsRun(g, n)
      PROVE  IsRun([k \in 0 .. n + 1 |-> IF k <= n THEN g[k] ELSE nxt[g[n]]], n + 1)
  <2> DEFINE e == [k \in 0 .. n + 1 |-> IF k <= n THEN g[k] ELSE nxt[g[n]]]
  <2>1. g[n] \in S /\ nxt[g[n]] \in S
    BY <1>2
  <2>2. e \in [0 .. n + 1 -> S] /\ e[0] = x
    BY <2>1, <1>2
  <2>3. ASSUME NEW k \in 1 .. n + 1 PROVE e[k] = nxt[e[k - 1]]
    <3>1. CASE k <= n
      BY <3>1, <1>2
    <3>2. CASE k = n + 1
      BY <3>2
    <3> QED BY <3>1, <3>2
  <2> QED BY <2>2, <2>3
<1>3. ASSUME NEW n \in Nat, n \in HasRun PROVE n + 1 \in HasRun
  <2>1. PICK g : IsRun(g, n)
    BY <1>3
  <2>2. \E e : IsRun(e, n + 1)
    <3> HIDE DEF IsRun
    <3> QED BY <2>1, <1>2
  <2>3. n + 1 \in Nat
    OBVIOUS
  <2> HIDE DEF IsRun
  <2> QED BY <2>2, <2>3
<1>4. ASSUME NEW n \in Nat PROVE IsRun(run(n), n)
  <2>1. Nat \subseteq HasRun
    <3> HIDE DEF HasRun
    <3> QED BY <1>1, <1>3, FromZero
  <2> HIDE DEF IsRun
  <2> QED BY <2>1
<1>5. ASSUME NEW n \in Nat PROVE run(n + 1)[n] = run(n)[n]
  <2> DEFINE Same == {k \in Nat : k <= n => run(n + 1)[k] = run(n)[k]}
             a == run(n + 1)
             b == run(n)
  <2>1. IsRun(a, n + 1) /\ IsRun(b, n)
    <3> HIDE DEF IsRun, run
    <3>1. n + 1 \in Nat
      OBVIOUS
    <3> QED BY <1>4, <3>1 DEF a, b
  <2> HIDE DEF a, b, run
  <2>2. a[0] = b[0] /\ \A k \in Nat : k + 1 <= n /\ a[k] = b[k] => a[k + 1] = b[k + 1]
    <3>1. a[0] = b[0]
      BY <2>1
    <3>2. ASSUME NEW k \in Nat, k + 1 <= n, a[k] = b[k] PROVE a[k + 1] = b[k + 1]
      <4>1. k + 1 \in 1 .. n /\ k + 1 \in 1 .. n + 1 /\ (k + 1) - 1 = k
        BY <3>2
      <4>2. a[k + 1] = nxt[a[k]] /\ b[k + 1] = nxt[b[k]]
        BY <4>1, <2>1
      <4> QED BY <4>2, <3>2
    <3> QED BY <3>1, <3>2
  <2>3. 0 \in Same
    BY <2>2 DEF a, b
  <2>4. ASSUME NEW k \in Nat, k \in Same PROVE k + 1 \in Same
    BY <2>2, <2>4 DEF a, b
  <2>5. Nat \subseteq Same
    <3> HIDE DEF Same
    <3> QED BY <2>3, <2>4, FromZero
  <2> QED BY <2>5
<1>6. f \in [Nat -> S] /\ f[0] = x
  <2> HIDE DEF run
  <2>1. ASSUME NEW n \in Nat PROVE run(n)[n] \in S
    BY <1>4
  <2>2. run(0)[0] = x
    BY <1>4
  <2> QED BY <2>1, <2>2
<1>7. ASSUME NEW n \in Nat, n # 0 PROVE f[n] = nxt[f[n - 1]]
  <2> HIDE DEF run
  <2>1. n - 1 \in Nat /\ (n - 1) + 1 = n /\ n \in 1 .. n
    BY <1>7
  <2>2. run(n)[n] = nxt[run(n)[n - 1]]
    BY <1>4, <2>1
  <2>3. run(n)[n - 1] = run(n - 1)[n - 1]
    BY <1>5, <2>1
  <2> QED BY <2>1, <2>2, <2>3
<1>8. f = [n \in Nat |-> IF n = 0 THEN x ELSE nxt[f[n - 1]]]
  <2> HIDE DEF f
  <2>1. f = [n \in Nat |-> f[n]]
    BY <1>6
  <2> QED BY <2>1, <1>6, <1>7
<1> HIDE DEF f
<1>9. Iterates(f, x, nxt)
  BY <1>8 DEF Iterates
<1> QED BY <1>6, <1>9

-----------------------------------------------------------------------------
(* Functions defined by recursion. *)

\* The sequence f starts with x and goes on with step, of the place and of the value there.
Recurs(f, x, step) == f[0] = x /\ \A n \in Nat : f[n + 1] = step[<<n, f[n]>>]

\* Of a step that depends on the place as well, there is a sequence too.
LEMMA Recursion ==
    ASSUME NEW S, NEW x \in S, NEW step \in [Nat \X S -> S]
    PROVE  \E f \in [Nat -> S] : Recurs(f, x, step)
<1> DEFINE P == Nat \X S
           nxt == [p \in P |-> <<p[1] + 1, step[p]>>]
<1>1. nxt \in [P -> P]
  <2>1. ASSUME NEW p \in P PROVE <<p[1] + 1, step[p]>> \in P
    OBVIOUS
  <2> QED BY <2>1
<1>2. \A n \in Nat, s \in S : nxt[<<n, s>>] = <<n + 1, step[<<n, s>>]>>
  OBVIOUS
<1> HIDE DEF nxt
<1>3. PICK g \in [Nat -> P] : Iterates(g, <<0, x>>, nxt)
  <2>1. <<0, x>> \in P
    OBVIOUS
  <2> HIDE DEF P
  <2> QED BY <1>1, <2>1, Iteration
<1>4. g = [n \in Nat |-> IF n = 0 THEN <<0, x>> ELSE nxt[g[n - 1]]]
  BY <1>3 DEF Iterates
<1> DEFINE T == {n \in Nat : g[n][1] = n}
<1>5. 0 \in T
  BY <1>4
<1>6. ASSUME NEW n \in Nat, n \in T PROVE n + 1 \in T
  <2>1. g[n + 1] = nxt[g[n]]
    BY <1>4
  <2>2. g[n] = <<n, g[n][2]>> /\ g[n][2] \in S
    BY <1>6
  <2> QED BY <2>1, <2>2, <1>2
<1>7. Nat \subseteq T
  <2> HIDE DEF T
  <2> QED BY <1>5, <1>6, FromZero
<1> DEFINE f == [n \in Nat |-> g[n][2]]
<1>8. f \in [Nat -> S] /\ f[0] = x
  BY <1>4
<1>9. ASSUME NEW n \in Nat PROVE f[n + 1] = step[<<n, f[n]>>]
  <2>1. n + 1 \in Nat /\ g[n + 1] = nxt[g[n]]
    BY <1>4
  <2>2. g[n] = <<n, f[n]>> /\ f[n] \in S
    BY <1>7
  <2>3. nxt[<<n, f[n]>>] = <<n + 1, step[<<n, f[n]>>]>>
    BY <2>2, <1>2
  <2> QED BY <2>1, <2>2, <2>3
<1> HIDE DEF f
<1> QED BY <1>8, <1>9 DEF Recurs

-----------------------------------------------------------------------------
(* Offsets and integers (JumpOffsets). *)

LEMMA PowerDef ==
    /\ Power[0] = 1
    /\ \A k \in Nat : Power[k] \in Nat /\ Power[k] > 0 /\ Power[k + 1] = Base * Power[k]
<1> DEFINE step == [p \in Nat \X Nat |-> Base * p[2]]
           P(g) == g = [k \in Nat |-> IF k = 0 THEN 1 ELSE Base * g[k - 1]]
<1>1. step \in [Nat \X Nat -> Nat]
  BY JumpOffsetsAssumption
<1>2. \A k \in Nat, n \in Nat : step[<<k, n>>] = Base * n
  OBVIOUS
<1> HIDE DEF step
<1>3. PICK f \in [Nat -> Nat] : f[0] = 1 /\ \A n \in Nat : f[n + 1] = step[<<n, f[n]>>]
  <2> DEFINE S == Nat
  <2>1. 1 \in S /\ step \in [Nat \X S -> S]
    BY <1>1
  <2> HIDE DEF S
  <2>2. \E f \in [Nat -> S] : Recurs(f, 1, step)
    BY <2>1, Recursion
  <2> QED BY <2>2 DEF S, Recurs
<1>4. \A n \in Nat : f[n + 1] = Base * f[n]
  BY <1>2, <1>3
<1>5. P(f)
  <2>1. ASSUME NEW n \in Nat PROVE f[n] = IF n = 0 THEN 1 ELSE Base * f[n - 1]
    <3>1. CASE n # 0
      <4>1. n - 1 \in Nat /\ (n - 1) + 1 = n
        BY <3>1
      <4> QED BY <4>1, <1>4
    <3> QED BY <3>1, <1>3
  <2>2. f = [n \in Nat |-> f[n]]
    OBVIOUS
  <2> QED BY <2>1, <2>2
<1>6. P(Power)
  <2> HIDE DEF P
  <2>1. Power = CHOOSE g : P(g)
    BY DEF Power, P
  <2> QED BY <2>1, <1>5
<1>7. Power[0] = 1 /\ \A k \in Nat : Power[k + 1] = Base * Power[k]
  <2>1. \A k \in Nat : Power[k] = IF k = 0 THEN 1 ELSE Base * Power[k - 1]
    BY <1>6
  <2> HIDE DEF P
  <2>2. ASSUME NEW k \in Nat PROVE Power[k + 1] = Base * Power[k]
    <3>1. k + 1 \in Nat /\ k + 1 # 0 /\ (k + 1) - 1 = k
      OBVIOUS
    <3> QED BY <3>1, <2>1
  <2> QED BY <2>1, <2>2
<1> DEFINE T == {k \in Nat : Power[k] \in Nat /\ Power[k] > 0}
<1>8. 0 \in T
  BY <1>7
<1>9. ASSUME NEW k \in Nat, k \in T PROVE k + 1 \in T
  BY <1>9, <1>7, JumpOffsetsAssumption
<1>10. Nat \subseteq T
  <2> HIDE DEF T
  <2> QED BY <1>8, <1>9, FromZero
<1> QED BY <1>7, <1>10

LEMMA FunctionIsSeq ==
    ASSUME NEW S, NEW n \in Nat, NEW f \in [1 .. n -> S]
    PROVE  f \in Seq(S) /\ Len(f) = n
OBVIOUS

LEMMA PowerGrows ==
    ASSUME NEW j \in Nat, NEW k \in Nat, j <= k
    PROVE  Power[j] <= Power[k]
<1> DEFINE T == {d \in Nat : Power[j] <= Power[j + d]}
<1>1. 0 \in T
  BY PowerDef
<1>2. ASSUME NEW d \in Nat, d \in T PROVE d + 1 \in T
  <2>1. j + d \in Nat /\ j + (d + 1) = (j + d) + 1
    OBVIOUS
  <2>2. Power[j + (d + 1)] = Base * Power[j + d] /\ Power[j + d] \in Nat
    BY <2>1, PowerDef
  <2>3. Base * Power[j + d] >= Power[j + d]
    <3>1. \A p \in Nat : Base * p >= p
      BY JumpOffsetsAssumption
    <3> QED BY <3>1, <2>2
  <2>4. Power[j] \in Nat
    BY PowerDef
  <2>5. Base * Power[j + d] \in Nat
    BY <2>2, JumpOffsetsAssumption
  <2> QED BY <1>2, <2>2, <2>3, <2>4, <2>5
<1>3. k - j \in T
  <2>1. Nat \subseteq T
    <3> HIDE DEF T
    <3> QED BY <1>1, <1>2, FromZero
  <2> QED BY <2>1
<1> QED BY <1>3

\* What Ziggy does: no integer is lost, and distances in a direction keep their order.
LEMMA ZiggyFacts ==
    /\ \A n \in Int : Ziggy(n) \in Nat /\ Unziggy(Ziggy(n)) = n
    /\ \A n \in Int, m \in Int : (0 <= n /\ n <= m) \/ (m <= n /\ n <= 0) => Ziggy(n) <= Ziggy(m)
    /\ \A n \in Int, m \in Nat : -m <= n /\ n <= m => Ziggy(n) <= 2 * m
<1>1. ASSUME NEW n \in Int PROVE Ziggy(n) \in Nat /\ Unziggy(Ziggy(n)) = n
  <2>1. CASE n >= 0
    BY <2>1 DEF Ziggy, Unziggy
  <2>2. CASE n < 0
    <3>1. Ziggy(n) = -2 * n - 1 /\ Ziggy(n) \in Nat
      BY <2>2 DEF Ziggy
    <3>2. (-2 * n - 1) % 2 = 1 /\ ((-2 * n - 1) + 1) \div 2 = -n
      BY <2>2
    <3> QED BY <3>1, <3>2 DEF Unziggy
  <2> QED BY <2>1, <2>2
<1> QED BY <1>1 DEF Ziggy

\* The length of an integer written: the least that holds it, if any does.
LEMMA LengthFacts ==
    ASSUME NEW n \in Int
    PROVE  /\ GetLengthSleb128(n) \in 1 .. MaxGroups
           /\ \/ Ziggy(n) < Power[MaxGroups]
              \/ GetLengthSleb128(n) # MaxGroups
              => Ziggy(n) < Power[GetLengthSleb128(n)]
           /\ \A k \in 1 .. MaxGroups - 1 : Ziggy(n) < Power[k] => GetLengthSleb128(n) <= k
<1> DEFINE enough == {k \in 1 .. MaxGroups - 1 : Ziggy(n) < Power[k]}
           c == CHOOSE k \in enough : \A j \in enough : k <= j
<1>1. GetLengthSleb128(n) = IF enough = {} THEN MaxGroups ELSE c
  BY DEF GetLengthSleb128
<1>2. enough \in SUBSET Nat /\ \A k \in enough : k \in 1 .. MaxGroups - 1 /\ Ziggy(n) < Power[k]
  BY JumpOffsetsAssumption
<1>3. \A k \in 1 .. MaxGroups - 1 : Ziggy(n) < Power[k] => k \in enough
  OBVIOUS
<1>4. enough # {} => c \in enough /\ \A j \in enough : c <= j
  <2> HIDE DEF enough
  <2> QED BY <1>2, LeastExists
<1> HIDE DEF enough, c
<1>5. CASE enough = {}
  <2>1. GetLengthSleb128(n) = MaxGroups
    BY <1>1, <1>5
  <2>2. MaxGroups \in 1 .. MaxGroups
    BY JumpOffsetsAssumption
  <2> QED BY <2>1, <2>2, <1>3, <1>5
<1>6. CASE enough # {}
  <2>1. GetLengthSleb128(n) = c /\ c \in 1 .. MaxGroups - 1 /\ Ziggy(n) < Power[c]
    BY <1>1, <1>2, <1>4, <1>6
  <2>2. \A k \in 1 .. MaxGroups - 1 : Ziggy(n) < Power[k] => c <= k
    BY <1>3, <1>4, <1>6
  <2>3. c \in 1 .. MaxGroups
    BY <2>1, JumpOffsetsAssumption
  <2> QED BY <2>1, <2>2, <2>3
<1> QED BY <1>5, <1>6

LEMMA LengthGrows ==
    ASSUME NEW n \in Int, NEW m \in Int, Ziggy(n) <= Ziggy(m)
    PROVE  GetLengthSleb128(n) <= GetLengthSleb128(m)
<1>1. /\ GetLengthSleb128(n) \in 1 .. MaxGroups /\ GetLengthSleb128(m) \in 1 .. MaxGroups
      /\ Ziggy(n) \in Nat /\ Ziggy(m) \in Nat
  BY LengthFacts, ZiggyFacts
<1>2. CASE Ziggy(m) < Power[GetLengthSleb128(m)] /\ GetLengthSleb128(m) # MaxGroups
  <2>1. GetLengthSleb128(m) \in 1 .. MaxGroups - 1
    BY <1>1, <1>2, JumpOffsetsAssumption
  <2>2. Power[GetLengthSleb128(m)] \in Nat
    BY <1>1, PowerDef
  <2>3. Ziggy(n) < Power[GetLengthSleb128(m)]
    BY <1>1, <1>2, <2>2
  <2> QED BY <2>1, <2>3, LengthFacts
<1>3. CASE GetLengthSleb128(m) = MaxGroups
  BY <1>3, <1>1
<1>4. GetLengthSleb128(m) # MaxGroups => Ziggy(m) < Power[GetLengthSleb128(m)]
  BY LengthFacts
<1> QED BY <1>2, <1>3, <1>4

LEMMA OffsetsDef ==
    ASSUME NEW N \in Nat, NEW L \in [1 .. N -> Int]
    PROVE  /\ Offsets(L) \in [1 .. N + 1 -> Int] /\ Offsets(L)[1] = 0
           /\ \A i \in 1 .. N : Offsets(L)[i + 1] = Offsets(L)[i] + L[i]
<1> DEFINE P(g) == g = [i \in 1 .. Len(L) + 1 |-> IF i = 1 THEN 0 ELSE g[i - 1] + L[i - 1]]
           step == [p \in Nat \X Int |-> IF p[1] + 1 \in 1 .. N THEN p[2] + L[p[1] + 1] ELSE p[2]]
           S == Int
<1>1. Len(L) = N
  BY FunctionIsSeq
<1>2. step \in [Nat \X S -> S] /\ 0 \in S
  OBVIOUS
<1>3. \A k \in Nat, n \in Int : k + 1 \in 1 .. N => step[<<k, n>>] = n + L[k + 1]
  OBVIOUS
<1> HIDE DEF step
<1>4. PICK f \in [Nat -> Int] : Recurs(f, 0, step)
  <2> HIDE DEF S
  <2>1. \E f \in [Nat -> S] : Recurs(f, 0, step)
    BY <1>2, Recursion
  <2> QED BY <2>1 DEF S
<1> DEFINE g == [i \in 1 .. N + 1 |-> f[i - 1]]
<1>5. P(g)
  <2>1. ASSUME NEW i \in 1 .. N + 1 PROVE g[i] = IF i = 1 THEN 0 ELSE g[i - 1] + L[i - 1]
    <3>1. CASE i = 1
      BY <3>1, <1>4 DEF Recurs
    <3>2. CASE i # 1
      <4>1. i - 2 \in Nat /\ (i - 2) + 1 = i - 1 /\ i - 1 \in 1 .. N
        BY <3>2
      <4>2. f[i - 1] = step[<<i - 2, f[i - 2]>>]
        BY <4>1, <1>4 DEF Recurs
      <4>3. f[i - 2] \in Int /\ g[i - 1] = f[(i - 1) - 1] /\ (i - 1) - 1 = i - 2 /\ g[i] = f[i - 1]
        BY <4>1
      <4>4. step[<<i - 2, f[i - 2]>>] = f[i - 2] + L[i - 1]
        BY <4>1, <4>3, <1>3
      <4> QED BY <3>2, <4>2, <4>3, <4>4
    <3> QED BY <3>1, <3>2
  <2> QED BY <2>1, <1>1
<1>6. P(Offsets(L))
  <2> HIDE DEF P
  <2>1. Offsets(L) = CHOOSE h : P(h)
    BY DEF Offsets, P
  <2> QED BY <2>1, <1>5
<1> DEFINE O == Offsets(L)
<1>7. \A i \in 1 .. N + 1 : O[i] = IF i = 1 THEN 0 ELSE O[i - 1] + L[i - 1]
  BY <1>6, <1>1
<1>8. O = [i \in 1 .. N + 1 |-> O[i]]
  <2>1. O = [i \in 1 .. N + 1 |-> IF i = 1 THEN 0 ELSE O[i - 1] + L[i - 1]]
    BY <1>6, <1>1
  <2> HIDE DEF O
  <2> QED BY <2>1
<1> HIDE DEF O, P
<1>9. ASSUME NEW i \in 1 .. N PROVE O[i + 1] = O[i] + L[i]
  <2>1. i + 1 \in 1 .. N + 1 /\ i + 1 # 1 /\ (i + 1) - 1 = i
    OBVIOUS
  <2> QED BY <2>1, <1>7
<1> DEFINE T == {n \in Nat : n + 1 \in 1 .. N + 1 => O[n + 1] \in Int}
<1>10. O[1] = 0 /\ 0 \in T
  <2>1. O[1] = 0
    BY <1>7
  <2> QED BY <2>1
<1>11. ASSUME NEW n \in Nat, n \in T PROVE n + 1 \in T
  <2>1. ASSUME (n + 1) + 1 \in 1 .. N + 1 PROVE O[(n + 1) + 1] \in Int
    <3>1. n + 1 \in 1 .. N /\ n + 1 \in 1 .. N + 1
      BY <2>1
    <3>2. O[n + 1] \in Int /\ L[n + 1] \in Int
      BY <3>1, <1>11
    <3> QED BY <3>1, <3>2, <1>9
  <2> QED BY <2>1
<1>12. Nat \subseteq T
  <2> HIDE DEF T
  <2> QED BY <1>10, <1>11, FromZero
<1>13. \A i \in 1 .. N + 1 : O[i] \in Int
  <2>1. \A i \in 1 .. N + 1 : i - 1 \in T /\ (i - 1) + 1 = i
    <3> HIDE DEF T
    <3> QED BY <1>12
  <2> QED BY <2>1
<1> QED BY <1>8, <1>9, <1>10, <1>13 DEF O

\* Lines that are longer lie further apart.
LEMMA OffsetsApart ==
    ASSUME NEW N \in Nat, NEW a \in [1 .. N -> Nat], NEW b \in [1 .. N -> Nat],
           \A k \in 1 .. N : a[k] <= b[k], NEW i \in 1 .. N + 1, NEW j \in 1 .. N + 1, i <= j
    PROVE  /\ Offsets(a)[j] - Offsets(a)[i] <= Offsets(b)[j] - Offsets(b)[i]
           /\ Offsets(a)[i] <= Offsets(a)[j]
<1> DEFINE A == Offsets(a)
           B == Offsets(b)
           T == {d \in Nat : i + d <= N + 1 => A[i + d] - A[i] <= B[i + d] - B[i] /\ A[i] <= A[i + d]}
<1>1. A \in [1 .. N + 1 -> Int] /\ \A k \in 1 .. N : A[k + 1] = A[k] + a[k]
  <2>1. a \in [1 .. N -> Int]
    OBVIOUS
  <2> QED BY <2>1, OffsetsDef
<1>2. B \in [1 .. N + 1 -> Int] /\ \A k \in 1 .. N : B[k + 1] = B[k] + b[k]
  <2>1. b \in [1 .. N -> Int]
    OBVIOUS
  <2> QED BY <2>1, OffsetsDef
<1> HIDE DEF A, B
<1>3. 0 \in T
  BY <1>1, <1>2
<1>4. ASSUME NEW d \in Nat, d \in T PROVE d + 1 \in T
  <2>1. ASSUME i + (d + 1) <= N + 1 
        PROVE  A[i + (d + 1)] - A[i] <= B[i + (d + 1)] - B[i] /\ A[i] <= A[i + (d + 1)]
    <3>1. i + d \in 1 .. N /\ i + d \in 1 .. N + 1 /\ i + (d + 1) = (i + d) + 1
      BY <2>1
    <3>2. A[(i + d) + 1] = A[i + d] + a[i + d] /\ B[(i + d) + 1] = B[i + d] + b[i + d]
      BY <3>1, <1>1, <1>2
    <3>3. A[i + d] \in Int /\ B[i + d] \in Int /\ A[i] \in Int /\ B[i] \in Int
      BY <3>1, <1>1, <1>2
    <3>4. a[i + d] \in Nat /\ b[i + d] \in Nat /\ a[i + d] <= b[i + d]
      BY <3>1
    <3>5. A[i + d] - A[i] <= B[i + d] - B[i] /\ A[i] <= A[i + d]
      BY <3>1, <1>4
    <3>6. A[(i + d) + 1] - A[i] <= B[(i + d) + 1] - B[i] /\ A[i] <= A[(i + d) + 1]
      <4> DEFINE x == A[i + d]
                 y == A[i]
                 z == B[i + d]
                 w == B[i]
                 m == a[i + d]
                 n == b[i + d]
      <4>1. x \in Int /\ y \in Int /\ z \in Int /\ w \in Int /\ m \in Nat /\ n \in Nat
        BY <3>3, <3>4
      <4>2. x - y <= z - w /\ m <= n /\ y <= x
        BY <3>4, <3>5
      <4>3. A[(i + d) + 1] = x + m /\ B[(i + d) + 1] = z + n
        BY <3>2
      <4> HIDE DEF x, y, z, w, m, n
      <4>4. (x + m) - y <= (z + n) - w /\ y <= x + m
        BY <4>1, <4>2
      <4> QED BY <4>3, <4>4 DEF y, w
    <3> QED BY <3>1, <3>6
  <2> QED BY <2>1
<1>5. j - i \in T /\ i + (j - i) = j
  <2>1. Nat \subseteq T
    <3> HIDE DEF T
    <3> QED BY <1>3, <1>4, FromZero
  <2>2. j - i \in Nat /\ i + (j - i) = j
    OBVIOUS
  <2> HIDE DEF T
  <2> QED BY <2>1, <2>2
<1>6. A[j] - A[i] <= B[j] - B[i] /\ A[i] <= A[j]
  BY <1>5
<1> QED BY <1>6 DEF A, B

\* What is assumed of a body, without the bound of its offsets.
IsBody(body) ==
    /\ DOMAIN body = 1 .. Len(body) /\ Len(body) \in Nat
    /\ \A i \in DOMAIN body :
          \/ body[i].kind = "code" /\ body[i].length \in Nat
          \/ body[i].kind = "jump" /\ \E j \in DOMAIN body : /\ body[j].kind = "mark"
                                                           /\ body[j].label = body[i].label
          \/ body[i].kind = "mark"

\* A label jumped to is marked by a line of its own.
LEMMA MarkFacts ==
    ASSUME NEW body, IsBody(body), NEW i \in 1 .. Len(body), body[i].kind = "jump"
    PROVE  /\ LineOf(body, body[i].label) \in 1 .. Len(body)
           /\ body[LineOf(body, body[i].label)].kind = "mark"
           /\ LineOf(body, body[i].label) # i
<1>1. \E j \in DOMAIN body : body[j].kind = "mark" /\ body[j].label = body[i].label
  BY DEF IsBody
<1>2. /\ LineOf(body, body[i].label) \in DOMAIN body
      /\ body[LineOf(body, body[i].label)].kind = "mark"
  BY <1>1 DEF LineOf
<1> QED BY <1>2 DEF IsBody

\* The lengths of lines are numbers, and those written lie between the bounds of each.
LEMMA LengthsFacts ==
    ASSUME NEW body, IsBody(body)
    PROVE  /\ LeastLengths(body) \in [1 .. Len(body) -> Nat]
           /\ MostLengths(body) \in [1 .. Len(body) -> Nat]
           /\ Lengths(body) \in [1 .. Len(body) -> Nat]
           /\ \A i \in 1 .. Len(body) : /\ LeastLengths(body)[i] <= Lengths(body)[i]
                                        /\ Lengths(body)[i] <= MostLengths(body)[i]
<1> DEFINE N == Len(body)
           low == Offsets(LeastLengths(body))
           high == Offsets(MostLengths(body))
<1>1. N \in Nat /\ DOMAIN body = 1 .. N
  BY DEF IsBody
<1>2. ASSUME NEW i \in 1 .. N
      PROVE  /\ LeastLength(body[i]) \in Nat /\ MostLength(body[i]) \in Nat
             /\ body[i].kind = "jump" => LeastLength(body[i]) = 2 /\ MostLength(body[i]) = 1 + MaxGroups
             /\ body[i].kind # "jump" => MostLength(body[i]) = LeastLength(body[i])
  <2>1. \/ body[i].kind = "code" /\ body[i].length \in Nat
        \/ body[i].kind = "jump"
        \/ body[i].kind = "mark"
    BY <1>1 DEF IsBody
  <2> QED BY <2>1, JumpOffsetsAssumption DEF LeastLength, MostLength
<1>3. LeastLengths(body) \in [1 .. N -> Nat] /\ MostLengths(body) \in [1 .. N -> Nat]
  BY <1>1, <1>2 DEF LeastLengths, MostLengths
<1>4. low \in [1 .. N + 1 -> Int] /\ high \in [1 .. N + 1 -> Int]
  <2>1. LeastLengths(body) \in [1 .. N -> Int] /\ MostLengths(body) \in [1 .. N -> Int]
    BY <1>3
  <2> QED BY <2>1, <1>1, OffsetsDef
<1>5. ASSUME NEW i \in 1 .. N, body[i].kind = "jump"
      PROVE  Predicted(body, low, high, i) \in 2 .. 1 + MaxGroups
  <2> DEFINE mark == LineOf(body, body[i].label)
  <2>1. mark \in 1 .. N
    BY <1>5, MarkFacts
  <2> HIDE DEF low, high, mark
  <2>2. ASSUME NEW n \in Int PROVE 1 + GetLengthSleb128(n) \in 2 .. 1 + MaxGroups
    <3>1. GetLengthSleb128(n) \in 1 .. MaxGroups
      BY LengthFacts
    <3> QED BY <3>1, JumpOffsetsAssumption
  <2>3. low[mark] - high[i] \in Int /\ high[mark] - low[i] \in Int
    BY <2>1, <1>1, <1>4
  <2> QED BY <2>2, <2>3 DEF Predicted, mark
<1>6. Lengths(body) = [i \in 1 .. N |-> IF body[i].kind = "jump" THEN Predicted(body, low, high, i)
                                                                 ELSE LeastLength(body[i])]
  BY <1>1 DEF Lengths
<1> HIDE DEF low, high
<1>7. ASSUME NEW i \in 1 .. N
      PROVE  /\ Lengths(body)[i] \in Nat
             /\ LeastLengths(body)[i] <= Lengths(body)[i] /\ Lengths(body)[i] <= MostLengths(body)[i]
  <2>1. LeastLengths(body)[i] = LeastLength(body[i]) /\ MostLengths(body)[i] = MostLength(body[i])
    BY <1>1 DEF LeastLengths, MostLengths
  <2>2. CASE body[i].kind = "jump"
    <3>1. Lengths(body)[i] = Predicted(body, low, high, i)
      BY <2>2, <1>6
    <3> QED BY <3>1, <2>1, <2>2, <1>2, <1>5, JumpOffsetsAssumption
  <2>3. CASE body[i].kind # "jump"
    <3>1. Lengths(body)[i] = LeastLength(body[i])
      BY <2>3, <1>6
    <3> QED BY <3>1, <2>1, <2>3, <1>2
  <2> QED BY <2>2, <2>3
<1>8. Lengths(body) \in [1 .. N -> Nat]
  <2>1. Lengths(body) = [i \in 1 .. N |-> Lengths(body)[i]]
    BY <1>6
  <2> QED BY <2>1, <1>7
<1> QED BY <1>3, <1>7, <1>8

\* Where a line begins, once its body is written.
At(body, i) == Offsets(Lengths(body))[i]

\* How far a jump jumps.
JumpOffset(body, i) == At(body, LineOf(body, body[i].label)) - At(body, i)

\* The offset of a jump is held by what is predicted for it, wherever the lengths of the
\* jumps between are overestimated, and by the groups of an integer.
LEMMA JumpFits ==
    ASSUME NEW body, IsBody(body), NEW i \in 1 .. Len(body), body[i].kind = "jump",
           2 * Offsets(MostLengths(body))[Len(body) + 1] < Power[MaxGroups]
    PROVE  /\ JumpOffset(body, i) \in Int /\ Ziggy(JumpOffset(body, i)) < Power[MaxGroups]
           /\ Lengths(body)[i] \in Nat /\ GetLengthSleb128(JumpOffset(body, i)) \in Nat
           /\ Lengths(body)[i] - 1 - GetLengthSleb128(JumpOffset(body, i)) \in Nat
           /\ Resolve(body)[i] = [offset |-> JumpOffset(body, i),
                                  padding |-> Lengths(body)[i] - 1 - GetLengthSleb128(JumpOffset(body, i))]
           /\ Resolve(body)[i].offset = JumpOffset(body, i)
<1> DEFINE offset == JumpOffset(body, i)
           N == Len(body)
           low == Offsets(LeastLengths(body))
           high == Offsets(MostLengths(body))
           at == Offsets(Lengths(body))
           mark == LineOf(body, body[i].label)
<1>1. N \in Nat /\ DOMAIN body = 1 .. N
  BY DEF IsBody
<1>2. /\ LeastLengths(body) \in [1 .. N -> Nat] /\ MostLengths(body) \in [1 .. N -> Nat]
      /\ Lengths(body) \in [1 .. N -> Nat]
      /\ \A k \in 1 .. N : /\ LeastLengths(body)[k] <= Lengths(body)[k]
                           /\ Lengths(body)[k] <= MostLengths(body)[k]
  BY LengthsFacts
<1>3. mark \in 1 .. N /\ body[mark].kind = "mark" /\ mark # i
  BY MarkFacts
<1>4. low \in [1 .. N + 1 -> Int] /\ high \in [1 .. N + 1 -> Int] /\ at \in [1 .. N + 1 -> Int]
  <2>1. /\ LeastLengths(body) \in [1 .. N -> Int] /\ MostLengths(body) \in [1 .. N -> Int]
        /\ Lengths(body) \in [1 .. N -> Int]
    BY <1>2
  <2> QED BY <2>1, <1>1, OffsetsDef
<1>5. low[1] = 0 /\ high[1] = 0 /\ at[1] = 0
  <2>1. /\ LeastLengths(body) \in [1 .. N -> Int] /\ MostLengths(body) \in [1 .. N -> Int]
        /\ Lengths(body) \in [1 .. N -> Int]
    BY <1>2
  <2> QED BY <2>1, <1>1, OffsetsDef
<1>6. ASSUME NEW j \in 1 .. N + 1, NEW k \in 1 .. N + 1, j <= k
      PROVE  /\ low[k] - low[j] <= at[k] - at[j] /\ low[j] <= low[k]
             /\ at[k] - at[j] <= high[k] - high[j] /\ at[j] <= at[k] /\ high[j] <= high[k]
  <2>1. low[k] - low[j] <= at[k] - at[j] /\ low[j] <= low[k]
    BY <1>1, <1>2, <1>6, OffsetsApart
  <2>2. at[k] - at[j] <= high[k] - high[j] /\ at[j] <= at[k]
    BY <1>1, <1>2, <1>6, OffsetsApart
  <2>3. high[j] <= high[k]
    <3>1. ASSUME NEW m \in 1 .. N PROVE MostLengths(body)[m] <= MostLengths(body)[m]
      <4>1. MostLengths(body)[m] \in Nat
        BY <1>2
      <4> QED BY <4>1
    <3> QED BY <3>1, <1>1, <1>2, <1>6, OffsetsApart
  <2> QED BY <2>1, <2>2, <2>3
<1>7. low[i + 1] = low[i] + 2
  <2>1. LeastLengths(body) \in [1 .. N -> Int]
    BY <1>2
  <2>2. LeastLengths(body)[i] = 2
    BY <1>1 DEF LeastLengths, LeastLength
  <2> QED BY <2>1, <2>2, <1>1, OffsetsDef
<1>8. /\ Lengths(body)[i] = Predicted(body, low, high, i)
      /\ Resolve(body)[i] = [offset |-> at[mark] - at[i],
                             padding |-> Lengths(body)[i] - 1 - GetLengthSleb128(at[mark] - at[i])]
  BY <1>1 DEF Lengths, Resolve
<1>9. Predicted(body, low, high, i)
      = 1 + GetLengthSleb128(IF low[mark] <= low[i] THEN low[mark] - high[i] ELSE high[mark] - low[i])
  BY DEF Predicted
<1>10. offset = at[mark] - at[i]
  BY DEF JumpOffset, At
<1> HIDE DEF low, high, at, mark, offset
<1>11. \A k \in 1 .. N + 1 : /\ low[k] \in Int /\ at[k] \in Int /\ high[k] \in Int
                             /\ low[k] <= at[k] /\ at[k] <= high[k] /\ 0 <= at[k]
                             /\ high[k] <= high[N + 1] /\ 0 <= low[k]
  <2> TAKE k \in 1 .. N + 1
  <2>1. 1 \in 1 .. N + 1 /\ N + 1 \in 1 .. N + 1 /\ 1 <= k /\ k <= N + 1
    BY <1>1
  <2>2. /\ low[k] - low[1] <= at[k] - at[1] /\ low[1] <= low[k]
        /\ at[k] - at[1] <= high[k] - high[1] /\ at[1] <= at[k]
    BY <2>1, <1>6
  <2>3. high[k] <= high[N + 1]
    BY <2>1, <1>6
  <2>4. low[k] \in Int /\ at[k] \in Int /\ high[k] \in Int
    BY <1>4
  <2> QED BY <2>2, <2>3, <2>4, <1>5
<1>12. i \in 1 .. N + 1 /\ i + 1 \in 1 .. N + 1 /\ mark \in 1 .. N + 1
  BY <1>1, <1>3
<1>13. high[N + 1] \in Nat
  <2>1. N + 1 \in 1 .. N + 1
    BY <1>1
  <2>2. high[N + 1] \in Int /\ 0 <= low[N + 1] /\ low[N + 1] <= at[N + 1] /\ at[N + 1] <= high[N + 1]
        /\ low[N + 1] \in Int /\ at[N + 1] \in Int
    BY <2>1, <1>11
  <2> QED BY <2>2
<1>14. offset \in Int /\ -high[N + 1] <= offset /\ offset <= high[N + 1]
  <2>1. /\ at[i] \in Int /\ at[mark] \in Int /\ 0 <= at[i] /\ 0 <= at[mark]
        /\ at[i] <= high[i] /\ high[i] <= high[N + 1] /\ at[mark] <= high[mark]
        /\ high[mark] <= high[N + 1] /\ high[i] \in Int /\ high[mark] \in Int
    BY <1>11, <1>12
  <2> QED BY <2>1, <1>10, <1>13
<1>15. Ziggy(offset) < Power[MaxGroups]
  <2>1. Ziggy(offset) <= 2 * high[N + 1] /\ Ziggy(offset) \in Nat
    BY <1>13, <1>14, ZiggyFacts
  <2>2. 2 * high[N + 1] < Power[MaxGroups]
    BY DEF high
  <2>3. Power[MaxGroups] \in Nat
    BY PowerDef, JumpOffsetsAssumption
  <2> QED BY <2>1, <2>2, <2>3, <1>13
<1>16. \E n \in Int : /\ Lengths(body)[i] = 1 + GetLengthSleb128(n)
                      /\ (0 <= offset /\ offset <= n) \/ (n <= offset /\ offset <= 0)
  <2>1. CASE mark < i
    <3>1. low[mark] <= low[i] /\ at[mark] <= at[i]
      BY <2>1, <1>6, <1>12
    <3>2. /\ low[mark] \in Int /\ high[i] \in Int /\ at[mark] \in Int /\ at[i] \in Int
          /\ low[mark] <= at[mark] /\ at[i] <= high[i]
      BY <1>11, <1>12
    <3>3. low[mark] - high[i] \in Int /\ low[mark] - high[i] <= offset /\ offset <= 0
      <4>1. at[mark] <= at[i] /\ offset = at[mark] - at[i]
        BY <3>1, <1>10
      <4>2. low[mark] - high[i] <= at[mark] - at[i] /\ at[mark] - at[i] <= 0
        BY <4>1, <3>2
      <4> QED BY <4>1, <4>2, <3>2
    <3>4. Lengths(body)[i] = 1 + GetLengthSleb128(low[mark] - high[i])
      BY <3>1, <1>8, <1>9
    <3> QED BY <3>3, <3>4
  <2>2. CASE mark > i
    <3>1. i + 1 <= mark /\ i <= mark
      BY <2>2, <1>3
    <3>2. low[i + 1] <= low[mark] /\ at[i] <= at[mark]
      BY <3>1, <1>6, <1>12
    <3>3. /\ low[mark] \in Int /\ low[i] \in Int /\ high[mark] \in Int /\ at[mark] \in Int /\ at[i] \in Int
          /\ at[mark] <= high[mark] /\ low[i] <= at[i]
      BY <1>11, <1>12
    <3>4. ~(low[mark] <= low[i])
      BY <3>2, <3>3, <1>7
    <3>5. high[mark] - low[i] \in Int /\ 0 <= offset /\ offset <= high[mark] - low[i]
      <4>1. at[i] <= at[mark] /\ offset = at[mark] - at[i]
        BY <3>2, <1>10
      <4>2. at[mark] - at[i] <= high[mark] - low[i] /\ 0 <= at[mark] - at[i]
        BY <4>1, <3>3
      <4>3. high[mark] - low[i] \in Int
        BY <3>3
      <4> QED BY <4>1, <4>2, <4>3
    <3>6. Lengths(body)[i] = 1 + GetLengthSleb128(high[mark] - low[i])
      BY <3>4, <1>8, <1>9
    <3> QED BY <3>5, <3>6
  <2> QED BY <2>1, <2>2, <1>1, <1>3
<1>17. Lengths(body)[i] - 1 - GetLengthSleb128(offset) \in Nat
  <2>1. PICK n \in Int : /\ Lengths(body)[i] = 1 + GetLengthSleb128(n)
                         /\ (0 <= offset /\ offset <= n) \/ (n <= offset /\ offset <= 0)
    BY <1>16
  <2>2. Ziggy(offset) <= Ziggy(n)
    BY <2>1, <1>14, ZiggyFacts
  <2>3. GetLengthSleb128(offset) <= GetLengthSleb128(n)
    BY <2>2, <1>14, LengthGrows
  <2>4. GetLengthSleb128(offset) \in 1 .. MaxGroups /\ GetLengthSleb128(n) \in 1 .. MaxGroups
    BY <1>14, LengthFacts
  <2> QED BY <2>1, <2>3, <2>4
<1>18. Lengths(body)[i] \in Nat /\ GetLengthSleb128(offset) \in Nat
  <2>1. GetLengthSleb128(offset) \in 1 .. MaxGroups
    BY <1>14, LengthFacts
  <2> QED BY <2>1, <1>2, JumpOffsetsAssumption
<1>19. Resolve(body)[i].offset = offset
  BY <1>8, <1>10
<1> QED BY <1>8, <1>10, <1>14, <1>15, <1>17, <1>18, <1>19 DEF offset

\* Division of a number by powers of the base, one after the other.
LEMMA DigitFacts ==
    ASSUME NEW z \in Nat, NEW m \in Nat
    PROVE  /\ (z \div Power[m]) \in Nat /\ (z \div Power[m]) % Base \in Nat
           /\ ((z \div Power[m]) % Base) * Power[m] + (z \div Power[m + 1]) * Power[m + 1]
              = (z \div Power[m]) * Power[m]
           /\ z < Power[m + 1] => ((z \div Power[m]) % Base) = z \div Power[m]
<1> DEFINE p == Power[m]
           q == z \div p
<1>1. p \in Nat /\ p > 0 /\ Power[m + 1] = Base * p
  BY PowerDef
<1> HIDE DEF p
<1>2. q \in Nat /\ q * p <= z /\ z < (q + 1) * p
  BY <1>1
<1>3. z \div (Base * p) = q \div Base
  BY <1>1, JumpOffsetsAssumption
<1> HIDE DEF q
<1>4. q % Base \in 0 .. Base - 1 /\ q \div Base \in Nat /\ q = (q \div Base) * Base + (q % Base)
  BY <1>2, JumpOffsetsAssumption
<1>5. (q % Base) * p + (q \div Base) * (Base * p) = q * p
  <2> DEFINE r == q % Base
             s == q \div Base
  <2>1. r \in Nat /\ s \in Nat /\ q = s * Base + r /\ Base \in Nat
    BY <1>4, JumpOffsetsAssumption
  <2> HIDE DEF r, s
  <2>2. s * (Base * p) = (s * Base) * p
    BY <2>1, <1>1
  <2>3. (s * Base + r) * p = (s * Base) * p + r * p
    BY <2>1, <1>1
  <2>4. s * Base \in Nat /\ (s * Base) * p \in Nat /\ r * p \in Nat
    BY <2>1, <1>1
  <2>5. r * p + s * (Base * p) = q * p
    BY <2>1, <2>2, <2>3, <2>4
  <2> QED BY <2>5 DEF r, s
<1>6. ASSUME z < Base * p PROVE q % Base = q
  <2>1. q < Base
    <3>1. ASSUME q >= Base PROVE FALSE
      <4>1. Base * p <= q * p
        BY <3>1, <1>1, <1>2, JumpOffsetsAssumption
      <4>2. Base * p \in Nat /\ q * p \in Nat
        BY <1>1, <1>2, JumpOffsetsAssumption
      <4> QED BY <4>1, <4>2, <1>2, <1>6
    <3> QED BY <3>1, <1>2, JumpOffsetsAssumption
  <2> QED BY <2>1, <1>2, JumpOffsetsAssumption
<1>7. q % Base \in Nat
  BY <1>4
<1> QED BY <1>1, <1>2, <1>3, <1>5, <1>6, <1>7 DEF q, p

\* The bytes of the code of a function.
CodeByte == [value : Nat, more : BOOLEAN]

LEMMA GroupSumsDef ==
    ASSUME NEW c \in Seq(CodeByte), NEW i \in 1 .. Len(c), NEW last \in i .. Len(c), NEW k \in i .. last
    PROVE  GroupSums(c, i, last)[k] = c[k].value * Power[k - i]
                                      + (IF k = last THEN 0 ELSE GroupSums(c, i, last)[k + 1])
<1> DEFINE w(j) == c[j].value * Power[j - i]
           S == Nat
           step == [p \in Nat \X Nat |-> IF last - p[1] - 1 \in i .. last
                                         THEN w(last - p[1] - 1) + p[2] ELSE p[2]]
           P(g) == g = [j \in i .. last |-> w(j) + (IF j = last THEN 0 ELSE g[j + 1])]
<1>1. ASSUME NEW j \in i .. last PROVE w(j) \in Nat
  <2>1. c[j] \in CodeByte /\ j - i \in Nat
    OBVIOUS
  <2>2. c[j].value \in Nat /\ Power[j - i] \in Nat
    BY <2>1, PowerDef DEF CodeByte
  <2> QED BY <2>2
<1> HIDE DEF w
<1>2. step \in [Nat \X S -> S] /\ w(last) \in S
  BY <1>1
<1>3. \A d \in Nat, n \in Nat : last - d - 1 \in i .. last => step[<<d, n>>] = w(last - d - 1) + n
  OBVIOUS
<1> HIDE DEF step
<1>4. PICK f \in [Nat -> Nat] : Recurs(f, w(last), step)
  <2> HIDE DEF S
  <2>1. \E f \in [Nat -> S] : Recurs(f, w(last), step)
    BY <1>2, Recursion
  <2> QED BY <2>1 DEF S
<1> DEFINE g == [j \in i .. last |-> f[last - j]]
<1>5. P(g)
  <2>1. ASSUME NEW j \in i .. last PROVE g[j] = w(j) + (IF j = last THEN 0 ELSE g[j + 1])
    <3>1. CASE j = last
      <4>1. last - j = 0 /\ g[j] = f[last - j]
        BY <3>1
      <4>2. g[j] = w(last)
        BY <4>1, <1>4 DEF Recurs
      <4> QED BY <4>2, <3>1, <1>1
    <3>2. CASE j # last
      <4>1. last - j - 1 \in Nat /\ (last - j - 1) + 1 = last - j /\ last - (last - j - 1) - 1 = j
            /\ j + 1 \in i .. last /\ last - (j + 1) = last - j - 1
        BY <3>2
      <4>2. f[last - j] = step[<<last - j - 1, f[last - j - 1]>>]
        BY <4>1, <1>4 DEF Recurs
      <4>3. f[last - j - 1] \in Nat /\ g[j + 1] = f[last - j - 1] /\ g[j] = f[last - j]
        BY <4>1
      <4>4. step[<<last - j - 1, f[last - j - 1]>>] = w(j) + f[last - j - 1]
        BY <4>1, <4>3, <1>3
      <4> QED BY <3>2, <4>2, <4>3, <4>4
    <3> QED BY <3>1, <3>2
  <2> QED BY <2>1
<1>6. P(GroupSums(c, i, last))
  <2> HIDE DEF P
  <2>1. GroupSums(c, i, last) = CHOOSE h : P(h)
    BY DEF GroupSums, P, w
  <2> QED BY <2>1, <1>5
<1> DEFINE G == GroupSums(c, i, last)
<1>7. G = [j \in i .. last |-> w(j) + (IF j = last THEN 0 ELSE G[j + 1])]
  BY <1>6
<1> HIDE DEF G, P
<1>8. \A j \in i .. last : G[j] = w(j) + (IF j = last THEN 0 ELSE G[j + 1])
  BY <1>7
<1> QED BY <1>8 DEF G, w

LEMMA GroupsFacts ==
    ASSUME NEW n \in Int
    PROVE  /\ Groups(n) \in Seq(CodeByte) /\ Len(Groups(n)) = GetLengthSleb128(n)
           /\ \A j \in 1 .. GetLengthSleb128(n) :
                 Groups(n)[j] = [value |-> (Ziggy(n) \div Power[j - 1]) % Base,
                                 more |-> j < GetLengthSleb128(n)]
<1> DEFINE k == GetLengthSleb128(n)
           e(j) == [value |-> (Ziggy(n) \div Power[j - 1]) % Base, more |-> j < k]
<1>1. k \in 1 .. MaxGroups /\ Ziggy(n) \in Nat
  BY LengthFacts, ZiggyFacts
<1>2. ASSUME NEW j \in 1 .. k PROVE e(j) \in CodeByte
  <2>1. j - 1 \in Nat
    OBVIOUS
  <2>2. (Ziggy(n) \div Power[j - 1]) % Base \in Nat
    BY <2>1, <1>1, DigitFacts
  <2>3. (j < k) \in BOOLEAN
    OBVIOUS
  <2> QED BY <2>2, <2>3 DEF CodeByte
<1>3. Groups(n) = [j \in 1 .. k |-> e(j)]
  BY DEF Groups
<1> HIDE DEF e, k
<1>4. Groups(n) \in [1 .. k -> CodeByte] /\ \A j \in 1 .. k : Groups(n)[j] = e(j)
  BY <1>2, <1>3
<1>5. Groups(n) \in Seq(CodeByte) /\ Len(Groups(n)) = k
  BY <1>1, <1>4, FunctionIsSeq
<1> QED BY <1>4, <1>5 DEF e, k

\* The groups of an integer are at a place of the code.
HoldsAt(c, i, n) ==
    /\ i + GetLengthSleb128(n) - 1 <= Len(c)
    /\ \A j \in 1 .. GetLengthSleb128(n) : c[i + j - 1] = Groups(n)[j]

\* An integer that fits is read back wherever it is written.
LEMMA ReadsBack ==
    ASSUME NEW n \in Int, Ziggy(n) < Power[MaxGroups], NEW c \in Seq(CodeByte),
           NEW i \in Nat, i > 0, HoldsAt(c, i, n)
    PROVE  ReadGroups(c, i) = n
<1> DEFINE k == GetLengthSleb128(n)
           z == Ziggy(n)
           last == i + k - 1
<1>0. i + k - 1 <= Len(c) /\ \A j \in 1 .. k : c[i + j - 1] = Groups(n)[j]
  BY DEF HoldsAt
<1>1. k \in Nat /\ k >= 1 /\ z \in Nat /\ z < Power[k] /\ last \in i .. Len(c) /\ last \in Nat
      /\ last - i = k - 1 /\ i <= last
  <2>1. k \in 1 .. MaxGroups /\ z < Power[k]
    BY LengthFacts
  <2>2. k \in Nat /\ k >= 1
    BY <2>1, JumpOffsetsAssumption
  <2>3. z \in Nat
    BY ZiggyFacts
  <2>4. last \in i .. Len(c) /\ last \in Nat /\ last - i = k - 1 /\ i <= last
    <3> HIDE DEF k
    <3> QED BY <2>2, <1>0
  <2> QED BY <2>1, <2>2, <2>3, <2>4
<1>2. ASSUME NEW j \in i .. last
      PROVE  /\ c[j].value = (z \div Power[j - i]) % Base
             /\ c[j].more <=> j < last
  <2>1. j - i + 1 \in 1 .. k /\ i + (j - i + 1) - 1 = j /\ (j - i + 1) - 1 = j - i
        /\ (j - i + 1 < k <=> j < last)
    BY <1>1
  <2>2. c[j] = Groups(n)[j - i + 1]
    BY <2>1, <1>0
  <2>3. Groups(n)[j - i + 1] = [value |-> (Ziggy(n) \div Power[(j - i + 1) - 1]) % Base,
                                more |-> j - i + 1 < GetLengthSleb128(n)]
    BY <2>1, GroupsFacts
  <2>4. c[j].value = (Ziggy(n) \div Power[j - i]) % Base /\ c[j].more = (j - i + 1 < k)
    BY <2>1, <2>2, <2>3
  <2> QED BY <2>1, <2>4
<1> HIDE DEF z, last
<1>3. LastGroup(c, i) = last
  <2> DEFINE Ends(j) == ~c[j].more /\ \A m \in i .. j - 1 : c[m].more
  <2>1. last \in i .. Len(c) /\ Ends(last)
    <3>1. \A m \in i .. last - 1 : m \in i .. last /\ m < last
      BY <1>1
    <3>2. last \in i .. last /\ ~(last < last)
      BY <1>1
    <3> QED BY <3>1, <3>2, <1>1, <1>2
  <2>2. ASSUME NEW j \in i .. Len(c), Ends(j) PROVE j = last
    <3>1. j \in Int /\ last \in Int
      BY <1>1
    <3>2. ~(j < last)
      <4>1. ASSUME j < last PROVE FALSE
        <5>1. j \in i .. last
          BY <4>1, <1>1
        <5> QED BY <5>1, <4>1, <2>2, <1>2
      <4> QED BY <4>1
    <3>3. ~(last < j)
      <4>1. ASSUME last < j PROVE FALSE
        <5>1. last \in i .. j - 1 /\ last \in i .. last /\ ~(last < last)
          BY <4>1, <1>1
        <5> QED BY <5>1, <2>2, <1>2
      <4> QED BY <4>1
    <3> QED BY <3>1, <3>2, <3>3
  <2>3. LastGroup(c, i) = CHOOSE j \in i .. Len(c) : Ends(j)
    BY DEF LastGroup
  <2> HIDE DEF Ends
  <2> QED BY <2>1, <2>2, <2>3
<1> DEFINE G == GroupSums(c, i, last)
           T == {d \in Nat : last - d \in i .. last
                             => G[last - d] = (z \div Power[last - d - i]) * Power[last - d - i]}
<1>4. \A j \in i .. last : G[j] = c[j].value * Power[j - i] + (IF j = last THEN 0 ELSE G[j + 1])
  <2> TAKE j \in i .. last
  <2>1. i \in 1 .. Len(c) /\ last \in i .. Len(c)
    BY <1>1
  <2> QED BY <2>1, GroupSumsDef
<1> HIDE DEF G
<1>5. 0 \in T
  <2>1. last \in i .. last /\ last - 0 = last /\ k - 1 \in Nat /\ (k - 1) + 1 = k
    BY <1>1
  <2>2. c[last].value = z \div Power[k - 1]
    <3>1. c[last].value = (z \div Power[k - 1]) % Base
      BY <2>1, <1>1, <1>2
    <3>2. z < Power[(k - 1) + 1]
      BY <2>1, <1>1
    <3>3. (z \div Power[k - 1]) % Base = z \div Power[k - 1]
      BY <2>1, <3>2, <1>1, DigitFacts
    <3> QED BY <3>1, <3>3
  <2>3. G[last] = c[last].value * Power[k - 1] + 0
    BY <2>1, <1>1, <1>4
  <2>4. z \div Power[k - 1] \in Nat /\ Power[k - 1] \in Nat
    BY <2>1, <1>1, DigitFacts, PowerDef
  <2>5. (z \div Power[k - 1]) * Power[k - 1] \in Nat
    BY <2>4
  <2>6. G[last] = (z \div Power[k - 1]) * Power[k - 1]
    BY <2>2, <2>3, <2>5
  <2> QED BY <2>1, <2>6, <1>1
<1>6. ASSUME NEW d \in Nat, d \in T PROVE d + 1 \in T
  <2>1. ASSUME last - (d + 1) \in i .. last
        PROVE  G[last - (d + 1)] = (z \div Power[last - (d + 1) - i]) * Power[last - (d + 1) - i]
    <3> DEFINE j == last - (d + 1)
               m == j - i
    <3>1. /\ j \in i .. last /\ j # last /\ j + 1 = last - d /\ last - d \in i .. last
          /\ m \in Nat /\ last - d - i = m + 1
      BY <2>1, <1>1
    <3>2. G[last - d] = (z \div Power[m + 1]) * Power[m + 1]
      BY <3>1, <1>6
    <3>3. G[j] = c[j].value * Power[m] + G[j + 1]
      BY <3>1, <1>4
    <3>4. c[j].value = (z \div Power[m]) % Base
      BY <3>1, <1>2
    <3> HIDE DEF j, m
    <3>5. G[j] = (z \div Power[m]) * Power[m]
      <4>1. ((z \div Power[m]) % Base) * Power[m] + (z \div Power[m + 1]) * Power[m + 1]
            = (z \div Power[m]) * Power[m]
        BY <3>1, <1>1, DigitFacts
      <4>2. G[j + 1] = (z \div Power[m + 1]) * Power[m + 1]
        BY <3>1, <3>2
      <4> QED BY <4>1, <4>2, <3>3, <3>4
    <3> QED BY <3>5 DEF j, m
  <2> QED BY <2>1
<1>7. Nat \subseteq T
  <2> HIDE DEF T
  <2> QED BY <1>5, <1>6, FromZero
<1>8. G[i] = (z \div Power[0]) * Power[0]
  <2>1. k - 1 \in Nat /\ last - (k - 1) = i
    <3>1. k \in Int /\ last \in Int /\ i \in Int
      BY <1>1
    <3>2. last - i = k - 1
      BY <1>1
    <3>3. k >= 1
      BY <1>1
    <3> HIDE DEF T
    <3>4. last - (k - 1) = i
      BY <3>1, <3>2
    <3>5. k - 1 \in Nat
      BY <3>1, <3>3
    <3> QED BY <3>4, <3>5
  <2>2. i \in i .. last /\ i - i = 0
    BY <1>1
  <2>3. k - 1 \in T
    <3> HIDE DEF T
    <3> QED BY <2>1, <1>7
  <2> QED BY <2>1, <2>2, <2>3
<1>9. G[i] = z
  BY <1>1, <1>8, PowerDef
<1> QED BY <1>3, <1>9, ZiggyFacts DEF ReadGroups, G, z

LEMMA BytesFacts ==
    ASSUME NEW n \in Nat
    PROVE  Bytes(n) \in Seq(CodeByte) /\ Len(Bytes(n)) = n
<1>1. Byte \in CodeByte
  BY DEF Byte, CodeByte
<1>2. Bytes(n) \in [1 .. n -> CodeByte]
  BY <1>1 DEF Bytes
<1> QED BY <1>2, FunctionIsSeq

\* A line is written in as many bytes as it was given, and a jump's offset after its first.
LEMMA WrittenFacts ==
    ASSUME NEW body, IsBody(body), NEW i \in 1 .. Len(body),
           2 * Offsets(MostLengths(body))[Len(body) + 1] < Power[MaxGroups],
           NEW w, w = Written(body[i], Resolve(body)[i])
    PROVE  /\ w \in Seq(CodeByte) /\ Len(w) = Lengths(body)[i]
           /\ body[i].kind = "jump" =>
                 LET offset == Resolve(body)[i].offset
                     k == GetLengthSleb128(offset)
                 IN  1 + k <= Len(w) /\ \A j \in 1 .. k : w[j + 1] = Groups(offset)[j]
<1>1. DOMAIN body = 1 .. Len(body) /\ Len(body) \in Nat
  BY DEF IsBody
<1>2. body[i].kind # "jump" => Lengths(body)[i] = LeastLength(body[i])
  BY <1>1 DEF Lengths
<1>3. CASE body[i].kind = "code"
  <2>1. body[i].length \in Nat
    BY <1>1, <1>3 DEF IsBody
  <2>2. w = Bytes(body[i].length)
    BY <1>3 DEF Written
  <2>3. Lengths(body)[i] = body[i].length
    BY <1>2, <1>3 DEF LeastLength
  <2> QED BY <2>1, <2>2, <2>3, <1>3, BytesFacts
<1>4. CASE body[i].kind = "mark"
  <2>1. w = <<>> /\ Lengths(body)[i] = 0
    BY <1>2, <1>4 DEF Written, LeastLength
  <2> QED BY <2>1, <1>4
<1>5. CASE body[i].kind = "jump"
  <2> DEFINE offset == JumpOffset(body, i)
             k == GetLengthSleb128(offset)
             padding == Lengths(body)[i] - 1 - k
  <2>1. /\ offset \in Int /\ padding \in Nat
        /\ Resolve(body)[i] = [offset |-> offset, padding |-> padding]
    BY <1>5, JumpFits
  <2> HIDE DEF offset
  <2>2. w = Bytes(1) \o Groups(offset) \o Bytes(padding)
    BY <2>1, <1>5 DEF Written
  <2>3. k \in 1 .. MaxGroups /\ k \in Nat
    BY <2>1, LengthFacts, JumpOffsetsAssumption
  <2>4. /\ Groups(offset) \in Seq(CodeByte) /\ Len(Groups(offset)) = k
        /\ Bytes(1) \in Seq(CodeByte) /\ Len(Bytes(1)) = 1
        /\ Bytes(padding) \in Seq(CodeByte) /\ Len(Bytes(padding)) = padding
    BY <2>1, GroupsFacts, BytesFacts
  <2>5. Lengths(body)[i] \in Nat
    BY LengthsFacts
  <2> DEFINE a == Bytes(1)
             b == Groups(offset)
             c == Bytes(padding)
  <2>6. w \in Seq(CodeByte) /\ Len(w) = 1 + k + padding /\ \A j \in 1 .. k : w[j + 1] = b[j]
    <3> HIDE DEF a, b, c, k, padding
    <3>1. /\ a \in Seq(CodeByte) /\ b \in Seq(CodeByte) /\ c \in Seq(CodeByte)
          /\ Len(a) = 1 /\ Len(b) = k /\ Len(c) = padding
      BY <2>4 DEF a, b, c
    <3>2. w = (a \o b) \o c
      BY <2>2 DEF a, b, c
    <3>3. a \o b \in Seq(CodeByte) /\ Len(a \o b) = 1 + k
      BY <3>1, ConcatProperties
    <3>4. ASSUME NEW j \in 1 .. k PROVE j + 1 \in 1 .. Len(a \o b) /\ (a \o b)[j + 1] = b[j]
      <4>1. /\ j + 1 \in 1 .. Len(a) + Len(b) /\ ~(j + 1 <= Len(a)) /\ (j + 1) - Len(a) = j
            /\ j + 1 \in 1 .. Len(a \o b)
        BY <3>1, <3>3, <2>3
      <4> DEFINE n == j + 1
      <4> HIDE DEF n
      <4>2. (a \o b)[n] = IF n <= Len(a) THEN a[n] ELSE b[n - Len(a)]
        <5>1. n \in 1 .. Len(a) + Len(b)
          BY <4>1 DEF n
        <5> QED BY <5>1, <3>1, ConcatProperties
      <4>3. (a \o b)[n] = b[j]
        BY <4>1, <4>2 DEF n
      <4> QED BY <4>1, <4>3 DEF n
    <3> DEFINE d == a \o b
    <3> HIDE DEF d
    <3>5. d \in Seq(CodeByte) /\ Len(d) = 1 + k /\ w = d \o c
      BY <3>2, <3>3 DEF d
    <3>6. w \in Seq(CodeByte) /\ Len(w) = Len(d) + Len(c)
      BY <3>1, <3>5, ConcatProperties
    <3>7. Len(w) = 1 + k + padding
      BY <3>1, <3>5, <3>6
    <3>8. ASSUME NEW j \in 1 .. Len(d) PROVE w[j] = d[j]
      <4>1. j \in 1 .. Len(d) + Len(c) /\ j <= Len(d)
        BY <3>1, <3>5
      <4> QED BY <4>1, <3>1, <3>5, ConcatProperties
    <3>9. \A j \in 1 .. k : w[j + 1] = b[j]
      BY <3>4, <3>8 DEF d
    <3> QED BY <3>6, <3>7, <3>9
  <2>7. 1 + k + padding = Lengths(body)[i]
    BY <2>3, <2>5
  <2>8. Resolve(body)[i].offset = offset
    BY <2>1
  <2>9. 1 + k <= Len(w)
    <3> HIDE DEF k, padding
    <3> QED BY <2>6, <2>1, <2>3
  <2> HIDE DEF padding
  <2> QED BY <2>6, <2>7, <2>8, <2>9
<1>6. body[i].kind \in {"code", "jump", "mark"}
  BY <1>1 DEF IsBody
<1> QED BY <1>3, <1>4, <1>5, <1>6

-----------------------------------------------------------------------------
(* Jumps. *)

\* What is written of the body so far: each line where its offset says, each jump's
\* offset behind the jump.
CodeInv ==
    /\ module \in Modules
    /\ resolved = <<>> \/ resolved = Resolve(module.body)
    /\ code \in Seq(CodeByte) /\ starts \in Seq(Nat)
    /\ Len(starts) <= Len(module.body) /\ Len(code) = At(module.body, Len(starts) + 1)
    /\ \A i \in 1 .. Len(starts) :
          /\ starts[i] = At(module.body, i)
          /\ module.body[i].kind = "jump" =>
                LET offset == Resolve(module.body)[i].offset
                IN  \A j \in 1 .. GetLengthSleb128(offset) : code[starts[i] + 1 + j] = Groups(offset)[j]

LEMMA ModuleFacts ==
    ASSUME NEW m \in Modules
    PROVE  /\ IsBody(m.body) /\ m.blobs \in Seq(Seq(Nat)) /\ Len(m.body) \in Nat
           /\ 2 * Offsets(MostLengths(m.body))[Len(m.body) + 1] < Power[MaxGroups]
BY ModuleFileAssumption DEF IsBody

\* Where lines begin, one behind the other.
LEMMA AtFacts ==
    ASSUME NEW body, IsBody(body)
    PROVE  /\ At(body, 1) = 0
           /\ \A i \in 1 .. Len(body) + 1 : At(body, i) \in Nat
           /\ \A i \in 1 .. Len(body) : At(body, i + 1) = At(body, i) + Lengths(body)[i]
           /\ \A i, j \in 1 .. Len(body) + 1 : i <= j => At(body, i) <= At(body, j)
<1> DEFINE N == Len(body)
           L == Lengths(body)
           O == Offsets(L)
<1>1. N \in Nat /\ L \in [1 .. N -> Nat]
  BY LengthsFacts DEF IsBody
<1> HIDE DEF L, N
<1>2. L \in [1 .. N -> Int]
  BY <1>1
<1>3. O \in [1 .. N + 1 -> Int] /\ O[1] = 0 /\ \A i \in 1 .. N : O[i + 1] = O[i] + L[i]
  BY <1>1, <1>2, OffsetsDef
<1>4. ASSUME NEW i \in 1 .. N + 1, NEW j \in 1 .. N + 1, i <= j PROVE O[i] <= O[j]
  <2>1. \A k \in 1 .. N : L[k] <= L[k]
    BY <1>2
  <2> QED BY <2>1, <1>1, <1>4, OffsetsApart
<1>5. ASSUME NEW i \in 1 .. N + 1 PROVE O[i] \in Nat
  <2>1. 1 \in 1 .. N + 1 /\ 1 <= i
    BY <1>1
  <2>2. O[1] <= O[i] /\ O[i] \in Int
    BY <2>1, <1>3, <1>4
  <2> QED BY <2>2, <1>3
<1> QED BY <1>3, <1>4, <1>5 DEF At, L, N

LEMMA CodeInvInit == Init => CodeInv
<1> SUFFICES ASSUME Init PROVE CodeInv
  OBVIOUS
<1>1. module \in Modules /\ resolved = <<>> /\ code = <<>> /\ starts = <<>>
  BY DEF Init
<1>2. IsBody(module.body) /\ Len(module.body) \in Nat
  BY <1>1, ModuleFacts
<1>3. At(module.body, 1) = 0
  BY <1>2, AtFacts
<1>4. /\ code \in Seq(CodeByte) /\ starts \in Seq(Nat) /\ Len(starts) = 0 /\ Len(code) = 0
      /\ 1 .. Len(starts) = {}
  BY <1>1
<1> QED BY <1>1, <1>2, <1>3, <1>4 DEF CodeInv

\* The line written is the next: what was written before it stays where it was.
LEMMA LineWritten ==
    ASSUME CodeInv, WriteLine
    PROVE  CodeInv'
<1> DEFINE body == module.body
           n == Len(starts)
           i == n + 1
           w == Written(body[i], Resolve(body)[i])
<1>1. /\ module \in Modules /\ resolved = Resolve(body)
      /\ code \in Seq(CodeByte) /\ starts \in Seq(Nat) /\ Len(code) = At(body, n + 1)
  BY DEF CodeInv, WriteLine
<1>2. /\ IsBody(body) /\ Len(body) \in Nat
      /\ 2 * Offsets(MostLengths(body))[Len(body) + 1] < Power[MaxGroups]
  BY <1>1, ModuleFacts
<1>3. n \in Nat /\ i \in 1 .. Len(body) /\ i \in 1 .. Len(body) + 1 /\ i + 1 \in 1 .. Len(body) + 1
  BY <1>1, <1>2 DEF WriteLine
<1>4. /\ w \in Seq(CodeByte) /\ Len(w) = Lengths(body)[i]
      /\ body[i].kind = "jump" =>
            LET offset == Resolve(body)[i].offset
                k == GetLengthSleb128(offset)
            IN  1 + k <= Len(w) /\ \A j \in 1 .. k : w[j + 1] = Groups(offset)[j]
  BY <1>2, <1>3, WrittenFacts
<1>5. /\ code' = code \o w /\ starts' = Append(starts, Len(code))
      /\ module' = module /\ resolved' = resolved
  BY <1>1 DEF WriteLine
<1>0. \A j \in 1 .. n :
         /\ starts[j] = At(body, j)
         /\ body[j].kind = "jump" =>
               LET offset == Resolve(body)[j].offset
               IN  \A k \in 1 .. GetLengthSleb128(offset) : code[starts[j] + 1 + k] = Groups(offset)[k]
  BY DEF CodeInv
<1>14. i = n + 1 /\ n = i - 1 /\ i - 1 \in Nat /\ i \in Nat /\ body' = body
  BY <1>3, <1>5
<1>13. starts \in Seq(Nat) /\ n = Len(starts)
  BY <1>1
<1>15. Len(code) = At(body, i) /\ Len(code) \in Nat
  BY <1>1, <1>14
<1> HIDE DEF w, body, i, n
<1>6. /\ starts' \in Seq(Nat) /\ Len(starts') = i /\ starts'[i] = Len(code)
      /\ \A j \in 1 .. n : starts'[j] = starts[j]
  BY <1>13, <1>14, <1>15, <1>5
<1>7. code' \in Seq(CodeByte) /\ Len(code') = Len(code) + Len(w)
  BY <1>1, <1>4, <1>5, ConcatProperties
<1>8. \A j \in 1 .. Len(code) : code'[j] = code[j]
  BY <1>1, <1>4, <1>5
<1>9. ASSUME NEW j \in 1 .. Len(w) PROVE code'[Len(code) + j] = w[j]
  <2> DEFINE n1 == Len(code) + j
  <2>1. n1 \in 1 .. Len(code) + Len(w) /\ ~(n1 <= Len(code)) /\ n1 - Len(code) = j
    BY <1>15, <1>4
  <2> HIDE DEF n1
  <2>2. code'[n1] = w[n1 - Len(code)]
    BY <2>1, <1>1, <1>4, <1>5, ConcatProperties
  <2> QED BY <2>1, <2>2 DEF n1
<1>10. Len(code') = At(body, i + 1)
  BY <1>15, <1>2, <1>3, <1>4, <1>7, AtFacts
<1>11. ASSUME NEW j \in 1 .. i
       PROVE  /\ starts'[j] = At(body, j)
              /\ body[j].kind = "jump" =>
                    LET offset == Resolve(body)[j].offset
                    IN  \A k \in 1 .. GetLengthSleb128(offset) :
                           code'[starts'[j] + 1 + k] = Groups(offset)[k]
  <2>1. CASE j = i
    <3>1. starts'[j] = Len(code) /\ Len(code) = At(body, j) /\ Len(code) \in Nat
      BY <2>1, <1>15, <1>6
    <3> DEFINE offset == Resolve(body)[i].offset
    <3>2. ASSUME body[i].kind = "jump", NEW k \in 1 .. GetLengthSleb128(offset)
          PROVE  code'[Len(code) + 1 + k] = Groups(offset)[k]
      <4>0. offset \in Int
        <5> DEFINE o == JumpOffset(body, i)
        <5>1. o \in Int /\ Resolve(body)[i].offset = o
          BY <1>2, <1>3, <3>2, JumpFits
        <5> QED BY <5>1
      <4>1. GetLengthSleb128(offset) \in Nat
        BY <4>0, LengthFacts, JumpOffsetsAssumption
      <4>2. k + 1 \in 1 .. Len(w) /\ w[k + 1] = Groups(offset)[k]
        BY <4>1, <3>2, <1>4
      <4>3. Len(code) + 1 + k = Len(code) + (k + 1)
        BY <3>1, <4>1
      <4> QED BY <4>2, <4>3, <1>9
    <3> QED BY <3>1, <3>2, <2>1
  <2>2. CASE j # i
    <3>1. j \in 1 .. n /\ j \in 1 .. Len(body)
      BY <2>2, <1>3, <1>14
    <3>2. starts'[j] = starts[j] /\ starts[j] = At(body, j)
      BY <3>1, <1>6, <1>0
    <3> DEFINE offset == Resolve(body)[j].offset
    <3>3. ASSUME body[j].kind = "jump", NEW k \in 1 .. GetLengthSleb128(offset)
          PROVE  code'[starts[j] + 1 + k] = Groups(offset)[k]
      <4>0. offset \in Int /\ 1 + GetLengthSleb128(offset) <= Lengths(body)[j]
        <5> DEFINE o == JumpOffset(body, j)
        <5>1. /\ o \in Int /\ Resolve(body)[j].offset = o /\ Lengths(body)[j] - 1 - GetLengthSleb128(o) \in Nat
              /\ Lengths(body)[j] \in Nat /\ GetLengthSleb128(o) \in Nat
          BY <1>2, <3>1, <3>3, JumpFits
        <5> HIDE DEF o
        <5> QED BY <5>1
      <4>1. GetLengthSleb128(offset) \in Nat
        <5> HIDE DEF offset
        <5>1. GetLengthSleb128(offset) \in 1 .. MaxGroups
          BY <4>0, LengthFacts
        <5> QED BY <5>1, JumpOffsetsAssumption
      <4>2. code[starts[j] + 1 + k] = Groups(offset)[k]
        BY <3>1, <3>3, <1>0
      <4>3. At(body, j + 1) <= Len(code) /\ At(body, j + 1) = At(body, j) + Lengths(body)[j]
            /\ At(body, j) \in Nat /\ Lengths(body)[j] \in Nat
        <5>1. j + 1 \in 1 .. Len(body) + 1 /\ j + 1 <= i /\ j \in 1 .. Len(body) + 1
          BY <3>1, <1>2, <1>3, <1>14
        <5>2. At(body, j + 1) <= At(body, i)
          BY <5>1, <1>2, <1>3, AtFacts
        <5>3. At(body, j + 1) = At(body, j) + Lengths(body)[j] /\ At(body, j) \in Nat
          BY <5>1, <1>2, <3>1, AtFacts
        <5>4. Lengths(body)[j] \in Nat
          BY <1>2, <3>1, LengthsFacts
        <5> QED BY <5>2, <5>3, <5>4, <1>15
      <4>4. starts[j] + 1 + k \in 1 .. Len(code)
        <5>1. Len(code) \in Nat
          BY <1>1
        <5> HIDE DEF offset
        <5> QED BY <5>1, <4>0, <4>1, <4>3, <3>2
      <4> QED BY <4>2, <4>4, <1>8
    <3> QED BY <3>2, <3>3
  <2> QED BY <2>1, <2>2
<1>12. Len(starts') <= Len(body)
  BY <1>3, <1>6
<1> QED BY <1>1, <1>5, <1>6, <1>7, <1>10, <1>11, <1>12 DEF CodeInv, body

LEMMA CodeInvNext == CodeInv /\ [Next]_vars => CodeInv'
<1> SUFFICES ASSUME CodeInv, [Next]_vars PROVE CodeInv'
  OBVIOUS
<1>1. CASE ResolveLabels
  <2>1. module' = module /\ code' = code /\ starts' = starts /\ resolved' = Resolve(module.body)
    BY <1>1 DEF ResolveLabels
  <2> QED BY <2>1 DEF CodeInv
<1>2. CASE WriteLine
  BY <1>2, LineWritten
<1>3. CASE BeginBlob \/ CompressNext \/ UNCHANGED vars
  <2>1. module' = module /\ code' = code /\ starts' = starts /\ resolved' = resolved
    BY <1>3 DEF BeginBlob, CompressNext, vars
  <2> QED BY <2>1 DEF CodeInv
<1> QED BY <1>1, <1>2, <1>3 DEF Next

LEMMA CodeInvSuffices == CodeInv => JumpsLand
<1> SUFFICES ASSUME CodeInv, NEW i \in DOMAIN starts, module.body[i].kind = "jump",
                    LineOf(module.body, module.body[i].label) \in DOMAIN starts, i < Len(starts)
             PROVE  Target(code, starts[i]) = starts[LineOf(module.body, module.body[i].label)]
  BY DEF JumpsLand
<1> DEFINE body == module.body
           mark == LineOf(body, body[i].label)
           offset == JumpOffset(body, i)
           k == GetLengthSleb128(offset)
<1>1. /\ module \in Modules /\ code \in Seq(CodeByte) /\ starts \in Seq(Nat)
      /\ Len(starts) <= Len(body) /\ Len(code) = At(body, Len(starts) + 1)
  BY DEF CodeInv
<1>2. /\ IsBody(body) /\ Len(body) \in Nat
      /\ 2 * Offsets(MostLengths(body))[Len(body) + 1] < Power[MaxGroups]
  BY <1>1, ModuleFacts
<1>3. i \in 1 .. Len(starts) /\ mark \in 1 .. Len(starts) /\ i < Len(starts) /\ body[i].kind = "jump"
  BY <1>1
<1> HIDE DEF body
<1>11. i \in 1 .. Len(body) /\ mark \in 1 .. Len(body)
  <2> HIDE DEF mark
  <2> QED BY <1>1, <1>2, <1>3
<1>4. /\ offset \in Int /\ Ziggy(offset) < Power[MaxGroups] /\ Resolve(body)[i].offset = offset
      /\ Lengths(body)[i] - 1 - k \in Nat /\ k \in Nat /\ Lengths(body)[i] \in Nat
  BY <1>2, <1>3, <1>11, JumpFits
<1>5. \A j \in 1 .. k : code[starts[i] + 1 + j] = Groups(offset)[j]
  BY <1>3, <1>4 DEF CodeInv, body
<1>6. starts[i] = At(body, i) /\ starts[mark] = At(body, mark)
  BY <1>3 DEF CodeInv, body
<1>7. offset = At(body, mark) - At(body, i)
  BY DEF JumpOffset
<1>8. At(body, i) \in Nat /\ At(body, mark) \in Nat /\ At(body, i + 1) = At(body, i) + Lengths(body)[i]
      /\ At(body, i + 1) <= Len(code)
  <2>1. /\ i \in 1 .. Len(body) + 1 /\ mark \in 1 .. Len(body) + 1 /\ i + 1 \in 1 .. Len(body) + 1
        /\ Len(starts) + 1 \in 1 .. Len(body) + 1 /\ i + 1 <= Len(starts) + 1
    <3> HIDE DEF mark
    <3>1. Len(starts) \in Nat /\ Len(starts) <= Len(body) /\ i < Len(starts)
      BY <1>1, <1>3
    <3> QED BY <3>1, <1>2, <1>11
  <2> HIDE DEF mark
  <2> QED BY <2>1, <1>1, <1>2, <1>11, AtFacts
<1>9. k \in Nat /\ Lengths(body)[i] \in Nat
  BY <1>4
<1>12. k = GetLengthSleb128(offset)
  OBVIOUS
<1> HIDE DEF mark, offset, k
<1>10. ReadGroups(code, starts[i] + 2) = offset
  <2> DEFINE p == starts[i] + 2
  <2>1. p \in Nat /\ p > 0 /\ p + k - 1 <= Len(code)
    <3>1. starts[i] \in Nat /\ Len(code) \in Nat
      BY <1>1, <1>6, <1>8
    <3>2. starts[i] + Lengths(body)[i] <= Len(code)
      BY <1>6, <1>8
    <3>3. k + 1 <= Lengths(body)[i]
      BY <1>4, <1>9
    <3> QED BY <3>1, <3>2, <3>3, <1>9
  <2>2. ASSUME NEW j \in 1 .. k PROVE code[p + j - 1] = Groups(offset)[j]
    <3>1. p + j - 1 = starts[i] + 1 + j
      BY <1>6, <1>8, <1>9
    <3> QED BY <3>1, <1>5
  <2> HIDE DEF p
  <2>3. ReadGroups(code, p) = offset
    <3>1. HoldsAt(code, p, offset)
      BY <2>1, <2>2, <1>12 DEF HoldsAt
    <3> QED BY <3>1, <2>1, <1>1, <1>4, ReadsBack
  <2> QED BY <2>3 DEF p
<1> QED BY <1>6, <1>7, <1>8, <1>10 DEF Target, mark, body

\* A jump, read back from the code written, goes to where its label was passed, for every
\* body, whatever its jumps were predicted to take (JumpOffsets).
THEOREM JumpsAlwaysLand == Spec => []JumpsLand
<1>1. Init => CodeInv
  BY CodeInvInit
<1>2. CodeInv /\ [Next]_vars => CodeInv'
  BY CodeInvNext
<1>3. CodeInv => JumpsLand
  BY CodeInvSuffices
<1> QED BY <1>1, <1>2, <1>3, PTL DEF Spec

-----------------------------------------------------------------------------
(* Decoding (BlobCompression). *)

\* The bytes of a compressed blob, each tagged with what it means.
Token == [tag : {"low", "escape", "reference", "raw"}, n : Int]

\* What the output is to be read as.  T is the text compressed so far.  A place where
\* something of the output begins is in the domain of pos, which counts the bytes of the
\* text written before it; dep counts the references a byte of the text is nested in.
IsLow(o, T, pos, dep, p) ==
    /\ o[p + 1].tag = "low" /\ p + 1 \in DOMAIN pos /\ pos[p + 1] = pos[p] + 1
    /\ T[pos[p] + 1] = o[p + 1].n /\ dep[pos[p] + 1] = 0
IsEscape(o, T, pos, dep, p) ==
    /\ o[p + 1].tag = "escape" /\ p + 2 \in DOMAIN pos /\ pos[p + 2] = pos[p] + 1
    /\ T[pos[p] + 1] = HighBit + o[p + 2].n /\ dep[pos[p] + 1] = 0
RepeatsDeeper(T, dep, x, y, n) == \A j \in 1 .. n : T[x + j] = T[y + j] /\ dep[x + j] = dep[y + j] + 1
IsReference(o, T, pos, dep, p) ==
    LET n == o[p + 1].n + 3
        w == p - o[p + 2].n
    IN  /\ o[p + 1].tag = "reference" /\ p + 2 \in DOMAIN pos /\ w \in DOMAIN pos
        /\ n \in Nat /\ n > 0 /\ pos[p + 2] = pos[p] + n /\ pos[w] + n <= pos[p]
        /\ RepeatsDeeper(T, dep, pos[p], pos[w], n)
ReadsAs(o, T, pos, dep) ==
    /\ o \in Seq(Token) /\ T \in Seq(Nat) /\ dep \in [1 .. Len(T) -> Nat]
    /\ DOMAIN pos \subseteq 0 .. Len(o) /\ pos \in [DOMAIN pos -> 0 .. Len(T)]
    /\ Len(o) \in DOMAIN pos /\ pos[Len(o)] = Len(T)
    /\ \A p \in DOMAIN pos : p # Len(o) => \/ IsLow(o, T, pos, dep, p)
                                           \/ IsEscape(o, T, pos, dep, p)
                                           \/ IsReference(o, T, pos, dep, p)

\* A decoder's stack, when t bytes of the text are before the next.  The place k of the
\* stack is about to yield, by the places above it, the bytes sg[k] + 1 .. sg[k] + rm[k],
\* and then what follows its own place; what is above the first repeats the text at t.
Place(pos) == [at : DOMAIN pos, left : Int]
EndsAt(pos, place, s, r) == s + r <= pos[place.at] /\ (place.left # 0 => s + r = pos[place.at])
RepeatsAt(T, dep, t, k, place, s, r, below) ==
    /\ place.left \in Nat /\ below = r + place.left /\ s + below <= Len(T)
    /\ \A j \in 1 .. below : T[t + j] = T[s + j] /\ dep[t + j] = dep[s + j] + (k - 1)
YieldsInAll(T, place, r, t, rest) ==
    \/ place.left = WITHOUT_END
    \/ place.left \in Nat /\ r + place.left = rest /\ t + rest <= Len(T)
Stands(T, pos, dep, st, sg, rm, t, rest) ==
    /\ st \in Seq(Place(pos)) /\ Len(st) > 0
    /\ sg \in [1 .. Len(st) -> Nat] /\ rm \in [1 .. Len(st) -> Nat]
    /\ sg[1] = t /\ rm[Len(st)] = 0
    /\ \A k \in 1 .. Len(st) : EndsAt(pos, st[k], sg[k], rm[k])
    /\ \A k \in 2 .. Len(st) : RepeatsAt(T, dep, t, k, st[k], sg[k], rm[k], rm[k - 1])
    /\ YieldsInAll(T, st[1], rm[1], t, rest)

InOrder(T, pos, dep, st, t, rest) == \E sg, rm : Stands(T, pos, dep, st, sg, rm, t, rest)

LEMMA GreatestExists ==
    ASSUME NEW n \in Nat, NEW T \in SUBSET (1 .. n), T # {}
    PROVE  \E x \in T : \A y \in T : y <= x
<1> DEFINE U == {n - x : x \in T}
<1>1. U \in SUBSET Nat /\ U # {}
  <2>1. \A x \in T : n - x \in Nat
    OBVIOUS
  <2> QED BY <2>1
<1>2. PICK u \in U : \A v \in U : u <= v
  <2> HIDE DEF U
  <2> QED BY <1>1, LeastExists
<1>3. PICK x \in T : u = n - x
  OBVIOUS
<1>4. ASSUME NEW y \in T PROVE y <= x
  <2>1. n - y \in U /\ n - x <= n - y
    BY <1>2, <1>3
  <2> QED BY <2>1
<1> QED BY <1>4

\* Places with nothing left are taken off the stack.
LEMMA PoppedFacts ==
    ASSUME NEW Q, NEW st \in Seq([at : Q, left : Int])
    PROVE  \/ Popped(st) = <<>> /\ \A k \in 1 .. Len(st) : st[k].left = 0
           \/ \E h \in 1 .. Len(st) : /\ st[h].left # 0 /\ \A k \in h + 1 .. Len(st) : st[k].left = 0
                                      /\ Popped(st) = SubSeq(st, 1, h)
<1> DEFINE live == {k \in 1 .. Len(st) : st[k].left # 0}
           h == CHOOSE k \in live : \A j \in live : j <= k
<1>1. Popped(st) = IF live = {} THEN <<>> ELSE SubSeq(st, 1, h)
  BY DEF Popped
<1>2. CASE live = {}
  BY <1>1, <1>2
<1>3. CASE live # {}
  <2>1. Len(st) \in Nat /\ live \in SUBSET (1 .. Len(st))
    OBVIOUS
  <2>2. h \in live /\ \A j \in live : j <= h
    <3> HIDE DEF live
    <3> QED BY <2>1, <1>3, GreatestExists
  <2>3. \A k \in h + 1 .. Len(st) : st[k].left = 0
    <3>1. ASSUME NEW k \in h + 1 .. Len(st), st[k].left # 0 PROVE FALSE
      <4> HIDE DEF h
      <4>1. h \in 1 .. Len(st)
        BY <2>2
      <4>2. k \in live /\ k > h
        BY <3>1, <4>1
      <4> QED BY <4>2, <4>1, <2>2
    <3> QED BY <3>1
  <2> QED BY <1>1, <1>3, <2>2, <2>3
<1> QED BY <1>2, <1>3

\* What remains to be yielded at a place is what is left at those above.
Remains(N, rm, lf) == \A k \in 2 .. N : lf[k] \in Nat /\ rm[k - 1] = rm[k] + lf[k]
NoneAbove(N, h, lf) == \A k \in h + 1 .. N : lf[k] = 0

\* Above the places with something left nothing remains to be yielded.
LEMMA NothingRemains ==
    ASSUME NEW N \in Nat, NEW rm \in [1 .. N -> Nat], NEW lf, NEW h \in 1 .. N, rm[N] = 0,
           Remains(N, rm, lf), NoneAbove(N, h, lf)
    PROVE  rm[h] = 0
<1> DEFINE U == {d \in Nat : N - d >= h => rm[N - d] = 0}
<1>1. 0 \in U
  OBVIOUS
<1>2. ASSUME NEW d \in Nat, d \in U PROVE d + 1 \in U
  <2>1. ASSUME N - (d + 1) >= h PROVE rm[N - (d + 1)] = 0
    <3>1. N - d \in 2 .. N /\ N - d \in h + 1 .. N /\ (N - d) - 1 = N - (d + 1) /\ N - d >= h
      BY <2>1
    <3>2. rm[(N - d) - 1] = rm[N - d] + lf[N - d] /\ lf[N - d] = 0 /\ rm[N - d] = 0
      BY <3>1, <1>2 DEF Remains, NoneAbove
    <3> QED BY <3>1, <3>2
  <2> QED BY <2>1
<1>3. Nat \subseteq U
  <2> HIDE DEF U
  <2> QED BY <1>1, <1>2, FromZero
<1>4. N - h \in U
  <2>1. N - h \in Nat
    OBVIOUS
  <2> HIDE DEF U
  <2> QED BY <1>3, <2>1
<1>5. N - (N - h) = h /\ h >= h
  OBVIOUS
<1>6. N - (N - h) >= h => rm[N - (N - h)] = 0
  BY <1>4
<1> QED BY <1>5, <1>6

\* The places below have as much to yield as one above.
LEMMA RemainsBelow ==
    ASSUME NEW N \in Nat, NEW rm \in [1 .. N -> Nat], NEW lf, NEW h \in 1 .. N,
           Remains(N, rm, lf), NEW k \in 1 .. h
    PROVE  rm[h] <= rm[k]
<1> DEFINE U == {d \in Nat : h - d >= 1 => rm[h] <= rm[h - d]}
<1>1. 0 \in U
  <2>1. rm[h] \in Nat /\ h - 0 = h
    OBVIOUS
  <2> QED BY <2>1
<1>2. ASSUME NEW d \in Nat, d \in U PROVE d + 1 \in U
  <2>1. ASSUME h - (d + 1) >= 1 PROVE rm[h] <= rm[h - (d + 1)]
    <3>1. h - d \in 2 .. N /\ h - d \in 1 .. N /\ (h - d) - 1 = h - (d + 1) /\ h - d >= 1
      BY <2>1
    <3>2. rm[(h - d) - 1] = rm[h - d] + lf[h - d] /\ lf[h - d] \in Nat /\ rm[h] <= rm[h - d]
          /\ rm[h - d] \in Nat /\ rm[h] \in Nat
      BY <3>1, <1>2 DEF Remains
    <3> QED BY <3>1, <3>2
  <2> QED BY <2>1
<1>3. Nat \subseteq U
  <2> HIDE DEF U
  <2> QED BY <1>1, <1>2, FromZero
<1>4. h - k \in Nat /\ h - (h - k) = k /\ k >= 1
  OBVIOUS
<1> QED BY <1>3, <1>4

\* What a place becomes when bytes of it are yielded and it goes on further.
LEMMA RestFacts ==
    ASSUME NEW top \in [at : Nat, left : Int], NEW bytes \in Nat, NEW n \in Nat
    PROVE  [Yield(top, n) EXCEPT !.at = @ + bytes]
             = [at |-> top.at + bytes, left |-> IF top.left = WITHOUT_END THEN WITHOUT_END ELSE top.left - n]
<1>1. top = [at |-> top.at, left |-> top.left]
  OBVIOUS
<1>2. CASE top.left = WITHOUT_END
  BY <1>1, <1>2 DEF Yield
<1>3. CASE top.left # WITHOUT_END
  <2>1. Yield(top, n) = [at |-> top.at, left |-> top.left - n]
    BY <1>1, <1>3 DEF Yield
  <2> QED BY <2>1, <1>3
<1> QED BY <1>2, <1>3

\* Off the stack, places with nothing left change nothing of what is to be yielded.
LEMMA PopStands ==
    ASSUME NEW o, NEW T, NEW pos, NEW dep, ReadsAs(o, T, pos, dep), NEW st, NEW sg, NEW rm,
           NEW t \in Nat, NEW rest \in Nat, Stands(T, pos, dep, st, sg, rm, t, rest)
    PROVE  \/ Popped(st) = <<>> /\ rest = 0
           \/ /\ Len(Popped(st)) > 0 /\ Len(Popped(st)) <= Len(st) /\ Popped(st)[Len(Popped(st))].left # 0
              /\ InOrder(T, pos, dep, Popped(st), t, rest)
<1> DEFINE N == Len(st)
           lf == [k \in 1 .. N |-> st[k].left]
<1>1. /\ st \in Seq(Place(pos)) /\ N \in Nat /\ N > 0 /\ sg \in [1 .. N -> Nat] /\ rm \in [1 .. N -> Nat]
      /\ sg[1] = t /\ rm[N] = 0
  BY DEF Stands
<1>2. st \in Seq([at : DOMAIN pos, left : Int])
  BY <1>1 DEF Place
<1>3. \A k \in 2 .. N : st[k].left \in Nat /\ rm[k - 1] = rm[k] + st[k].left
  BY DEF Stands, RepeatsAt
<1>4. CASE Popped(st) = <<>> /\ \A k \in 1 .. Len(st) : st[k].left = 0
  <2>1. rm[1] = 0
    <3>1. 1 \in 1 .. N /\ Remains(N, rm, lf) /\ NoneAbove(N, 1, lf)
      BY <1>1, <1>3, <1>4 DEF Remains, NoneAbove
    <3> HIDE DEF N, lf
    <3> QED BY <1>1, <3>1, NothingRemains
  <2>2. st[1].left = 0
    BY <1>1, <1>4
  <2>3. rm[1] + st[1].left = rest
    BY <2>2 DEF Stands, YieldsInAll, WITHOUT_END
  <2> QED BY <1>4, <2>1, <2>2, <2>3 DEF WITHOUT_END
<1>5. ASSUME NEW h \in 1 .. Len(st), st[h].left # 0, \A k \in h + 1 .. Len(st) : st[k].left = 0,
             Popped(st) = SubSeq(st, 1, h)
      PROVE  /\ Len(Popped(st)) > 0 /\ Len(Popped(st)) <= Len(st) /\ Popped(st)[Len(Popped(st))].left # 0
             /\ InOrder(T, pos, dep, Popped(st), t, rest)
  <2> DEFINE p == Popped(st)
             sg2 == [k \in 1 .. h |-> sg[k]]
             rm2 == [k \in 1 .. h |-> rm[k]]
  <2>1. h \in Nat /\ h > 0 /\ h <= N
    BY <1>1
  <2>2. p \in Seq(Place(pos)) /\ Len(p) = h /\ \A k \in 1 .. h : p[k] = st[k]
    <3>1. 1 \in Int /\ h \in Int /\ 1 <= h + 1 /\ h <= Len(st) /\ 1 >= 1
      BY <2>1
    <3>2. SubSeq(st, 1, h) = [k \in 1 .. h |-> st[k]]
      BY <1>1, <2>1
    <3>3. SubSeq(st, 1, h) \in Seq(Place(pos)) /\ Len(SubSeq(st, 1, h)) = h
      BY <1>1, <2>1
    <3> QED BY <3>2, <3>3, <1>5
  <2>3. rm[h] = 0
    <3>1. Remains(N, rm, lf) /\ NoneAbove(N, h, lf)
      BY <1>1, <1>3, <1>5 DEF Remains, NoneAbove
    <3>2. h \in 1 .. N
      OBVIOUS
    <3> HIDE DEF N, lf
    <3> QED BY <1>1, <3>1, <3>2, NothingRemains
  <2>4. sg2 \in [1 .. h -> Nat] /\ rm2 \in [1 .. h -> Nat] /\ sg2[1] = t /\ rm2[h] = 0
    BY <1>1, <2>1, <2>3
  <2>5. \A k \in 1 .. h : k \in 1 .. N /\ sg2[k] = sg[k] /\ rm2[k] = rm[k]
    BY <2>1
  <2>6. \A k \in 2 .. h : k \in 2 .. N /\ sg2[k] = sg[k] /\ rm2[k] = rm[k] /\ rm2[k - 1] = rm[k - 1] /\ p[k] = st[k]
    BY <2>1, <2>2
  <2> HIDE DEF p, sg2, rm2
  <2>7. \A k \in 1 .. h : EndsAt(pos, p[k], sg2[k], rm2[k])
    <3>1. \A k \in 1 .. N : EndsAt(pos, st[k], sg[k], rm[k])
      BY DEF Stands
    <3> QED BY <3>1, <2>5, <2>2
  <2>8. \A k \in 2 .. h : RepeatsAt(T, dep, t, k, p[k], sg2[k], rm2[k], rm2[k - 1])
    <3>1. \A k \in 2 .. N : RepeatsAt(T, dep, t, k, st[k], sg[k], rm[k], rm[k - 1])
      BY DEF Stands
    <3> QED BY <3>1, <2>6
  <2>9. YieldsInAll(T, p[1], rm2[1], t, rest)
    <3>1. p[1] = st[1] /\ rm2[1] = rm[1]
      BY <2>1, <2>2, <2>5
    <3> QED BY <3>1 DEF Stands
  <2>10. p[h].left # 0
    BY <2>1, <2>2, <1>5
  <2>11. Stands(T, pos, dep, p, sg2, rm2, t, rest)
    <3>1. Len(p) = h
      BY <2>2
    <3> QED BY <3>1, <2>1, <2>2, <2>4, <2>7, <2>8, <2>9 DEF Stands
  <2>12. InOrder(T, pos, dep, p, t, rest)
    BY <2>11 DEF InOrder
  <2> QED BY <2>1, <2>2, <2>10, <2>12 DEF p
<1>6. \/ Popped(st) = <<>> /\ \A k \in 1 .. Len(st) : st[k].left = 0
      \/ \E h \in 1 .. Len(st) : /\ st[h].left # 0 /\ \A k \in h + 1 .. Len(st) : st[k].left = 0
                                 /\ Popped(st) = SubSeq(st, 1, h)
  BY <1>2, PoppedFacts
<1> QED BY <1>4, <1>5, <1>6

\* A sequence without its last element.
LEMMA ButLast ==
    ASSUME NEW P, NEW st \in Seq(P), Len(st) > 0
    PROVE  /\ SubSeq(st, 1, Len(st) - 1) \in Seq(P) /\ Len(SubSeq(st, 1, Len(st) - 1)) = Len(st) - 1
           /\ \A k \in 1 .. Len(st) - 1 : SubSeq(st, 1, Len(st) - 1)[k] = st[k]
<1> DEFINE h == Len(st) - 1
<1>1. Len(st) \in Nat /\ h \in Nat /\ \A k \in 1 .. h : k \in 1 .. Len(st)
  OBVIOUS
<1>2. h \in Int /\ 1 \in Int /\ \A i \in 1 .. h : st[i] \in P
  BY <1>1
<1> HIDE DEF h
<1>3. /\ SubSeq(st, 1, h) \in Seq(P)
      /\ Len(SubSeq(st, 1, h)) = IF 1 <= h THEN h - 1 + 1 ELSE 0
      /\ \A i \in 1 .. h - 1 + 1 : SubSeq(st, 1, h)[i] = st[1 + i - 1]
  BY <1>2, SubSeqProperties
<1>4. \A i \in 1 .. h : i \in 1 .. h - 1 + 1 /\ 1 + i - 1 = i
  BY <1>1
<1>5. \A i \in 1 .. h : SubSeq(st, 1, h)[i] = st[i]
  BY <1>3, <1>4
<1>6. Len(SubSeq(st, 1, h)) = h
  BY <1>1, <1>3
<1> QED BY <1>3, <1>5, <1>6 DEF h

\* Two elements after others.
LEMMA TwoAppended ==
    ASSUME NEW P, NEW b \in Seq(P), NEW e \in P, NEW f \in P
    PROVE  /\ b \o <<e, f>> \in Seq(P) /\ Len(b \o <<e, f>>) = Len(b) + 2
           /\ \A k \in 1 .. Len(b) : (b \o <<e, f>>)[k] = b[k]
           /\ (b \o <<e, f>>)[Len(b) + 1] = e /\ (b \o <<e, f>>)[Len(b) + 2] = f
<1> DEFINE N == Len(b)
           two == <<e, f>>
<1>1. two \in Seq(P) /\ Len(two) = 2 /\ N \in Nat /\ two[1] = e /\ two[2] = f
  OBVIOUS
<1> HIDE DEF two
<1>2. /\ b \o two \in Seq(P) /\ Len(b \o two) = N + Len(two)
      /\ \A k \in 1 .. N + Len(two) : (b \o two)[k] = IF k <= N THEN b[k] ELSE two[k - N]
  BY <1>1, ConcatProperties
<1>3. \A k \in 1 .. N + 2 : (b \o two)[k] = IF k <= N THEN b[k] ELSE two[k - N]
  BY <1>1, <1>2
<1>4. (b \o two)[N + 1] = e /\ (b \o two)[N + 2] = f
  <2>1. N + 1 \in 1 .. N + 2 /\ N + 2 \in 1 .. N + 2 /\ ~(N + 1 <= N) /\ ~(N + 2 <= N)
        /\ (N + 1) - N = 1 /\ (N + 2) - N = 2
    BY <1>1
  <2> DEFINE c == b \o two
  <2>2. c[N + 1] = two[(N + 1) - N] /\ c[N + 2] = two[(N + 2) - N]
    BY <2>1, <1>3
  <2> HIDE DEF c
  <2>3. c[N + 1] = two[1] /\ c[N + 2] = two[2]
    BY <2>1, <2>2
  <2> QED BY <1>1, <2>3 DEF c
<1>5. \A k \in 1 .. N : (b \o two)[k] = b[k]
  <2>1. \A k \in 1 .. N : k \in 1 .. N + 2 /\ k <= N
    BY <1>1
  <2> QED BY <2>1, <1>3
<1> QED BY <1>2, <1>4, <1>5 DEF two

LEMMA OneAppended ==
    ASSUME NEW P, NEW b \in Seq(P), NEW e \in P
    PROVE  /\ b \o <<e>> \in Seq(P) /\ Len(b \o <<e>>) = Len(b) + 1
           /\ \A k \in 1 .. Len(b) : (b \o <<e>>)[k] = b[k]
           /\ (b \o <<e>>)[Len(b) + 1] = e
<1> DEFINE N == Len(b)
           one == <<e>>
<1>1. one \in Seq(P) /\ Len(one) = 1 /\ N \in Nat /\ one[1] = e
  OBVIOUS
<1> HIDE DEF one
<1>2. /\ b \o one \in Seq(P) /\ Len(b \o one) = N + Len(one)
      /\ \A k \in 1 .. N + Len(one) : (b \o one)[k] = IF k <= N THEN b[k] ELSE one[k - N]
  BY <1>1, ConcatProperties
<1>3. \A k \in 1 .. N + 1 : (b \o one)[k] = IF k <= N THEN b[k] ELSE one[k - N]
  BY <1>1, <1>2
<1> HIDE DEF N
<1>4. (\A k \in 1 .. N : k \in 1 .. N + 1 /\ k <= N) /\ N + 1 \in 1 .. N + 1 /\ ~(N + 1 <= N) /\ (N + 1) - N = 1
  BY <1>1
<1>5. \A k \in 1 .. N : (b \o one)[k] = b[k]
  BY <1>3, <1>4
<1>6. (b \o one)[N + 1] = e
  BY <1>1, <1>3, <1>4
<1> QED BY <1>1, <1>2, <1>5, <1>6 DEF N, one

\* What a stack in order is made of, in steps.
LEMMA StandsFacts ==
    ASSUME NEW o, NEW T, NEW pos, NEW dep, ReadsAs(o, T, pos, dep), NEW st, NEW sg, NEW rm,
           NEW t, NEW rest, Stands(T, pos, dep, st, sg, rm, t, rest)
    PROVE  /\ Len(st) \in Nat /\ st \in Seq(Place(pos)) /\ Len(st) > 0 /\ t \in Nat
           /\ sg \in [1 .. Len(st) -> Nat] /\ rm \in [1 .. Len(st) -> Nat]
           /\ sg[1] = t /\ rm[Len(st)] = 0 /\ Len(T) \in Nat
           /\ \A k \in 1 .. Len(st) : /\ st[k] \in Place(pos) /\ EndsAt(pos, st[k], sg[k], rm[k])
                                      /\ st[k].at \in DOMAIN pos /\ pos[st[k].at] \in 0 .. Len(T)
                                      /\ st[k].left \in Int /\ st[k].at \in Nat
           /\ \A k \in 2 .. Len(st) : /\ k - 1 \in 1 .. Len(st) /\ k \in 1 .. Len(st)
                                      /\ RepeatsAt(T, dep, t, k, st[k], sg[k], rm[k], rm[k - 1])
           /\ YieldsInAll(T, st[1], rm[1], t, rest)
<1>1. /\ Len(st) \in Nat /\ st \in Seq(Place(pos)) /\ Len(st) > 0
      /\ sg \in [1 .. Len(st) -> Nat] /\ rm \in [1 .. Len(st) -> Nat]
      /\ sg[1] = t /\ rm[Len(st)] = 0
      /\ \A k \in 1 .. Len(st) : EndsAt(pos, st[k], sg[k], rm[k])
      /\ \A k \in 2 .. Len(st) : RepeatsAt(T, dep, t, k, st[k], sg[k], rm[k], rm[k - 1])
      /\ YieldsInAll(T, st[1], rm[1], t, rest)
  BY DEF Stands
<1>2. T \in Seq(Nat) /\ pos \in [DOMAIN pos -> 0 .. Len(T)] /\ DOMAIN pos \subseteq 0 .. Len(o) /\ Len(o) \in Nat
  BY DEF ReadsAs
<1>3. ASSUME NEW k \in 1 .. Len(st)
      PROVE  /\ st[k] \in Place(pos) /\ st[k].at \in DOMAIN pos /\ pos[st[k].at] \in 0 .. Len(T)
             /\ st[k].left \in Int /\ st[k].at \in Nat
  <2>1. st[k] \in Place(pos)
    BY <1>1
  <2>2. st[k].at \in DOMAIN pos /\ st[k].left \in Int
    BY <2>1 DEF Place
  <2>3. pos[st[k].at] \in 0 .. Len(T) /\ st[k].at \in 0 .. Len(o)
    BY <1>2, <2>2
  <2> QED BY <2>1, <2>2, <2>3, <1>2
<1>4. \A k \in 2 .. Len(st) : k - 1 \in 1 .. Len(st) /\ k \in 1 .. Len(st)
  BY <1>1
<1>5. t \in Nat /\ Len(T) \in Nat
  <2>1. 1 \in 1 .. Len(st)
    BY <1>1
  <2> QED BY <2>1, <1>1, <1>2
<1> QED BY <1>1, <1>3, <1>4, <1>5

\* What is at the place on top is what the text goes on with, nested as deep as the
\* stack is high.
LEMMA TopFacts ==
    ASSUME NEW o, NEW T, NEW pos, NEW dep, ReadsAs(o, T, pos, dep), NEW st, NEW sg, NEW rm,
           NEW t, NEW rest, Stands(T, pos, dep, st, sg, rm, t, rest),
           st[Len(st)].left # 0
    PROVE  /\ sg[Len(st)] = pos[st[Len(st)].at]
           /\ Len(st) > 1 => st[Len(st)].left \in Nat /\ rm[Len(st) - 1] = st[Len(st)].left
                              /\ pos[st[Len(st)].at] + st[Len(st)].left <= Len(T)
           /\ \A k \in 1 .. Len(st) - 1 : rm[k] >= st[Len(st)].left
           /\ \A j \in Nat : /\ j > 0 /\ pos[st[Len(st)].at] + j <= Len(T)
                             /\ (Len(st) > 1 => j <= st[Len(st)].left)
                             => /\ T[t + j] = T[pos[st[Len(st)].at] + j] /\ t + j <= Len(T)
                                /\ dep[t + j] = dep[pos[st[Len(st)].at] + j] + (Len(st) - 1)
<1> DEFINE N == Len(st)
           top == st[N]
           here == pos[top.at]
           lf == [k \in 1 .. N |-> st[k].left]
<1>1. /\ N \in Nat /\ N > 0 /\ N \in 1 .. N /\ sg \in [1 .. N -> Nat] /\ rm \in [1 .. N -> Nat]
      /\ rm[N] = 0 /\ sg[1] = t /\ t \in Nat /\ Len(T) \in Nat
  BY StandsFacts
<1>2. here \in 0 .. Len(T) /\ top.left \in Int /\ top.left # 0 /\ EndsAt(pos, top, sg[N], rm[N])
  BY <1>1, StandsFacts
<1>3. sg[N] = here
  <2> HIDE DEF top
  <2> QED BY <1>1, <1>2 DEF EndsAt
<1>4. ASSUME N > 1
      PROVE  /\ top.left \in Nat /\ rm[N - 1] = top.left /\ here + top.left <= Len(T) /\ top.left > 0
             /\ \A j \in 1 .. top.left : T[t + j] = T[here + j] /\ dep[t + j] = dep[here + j] + (N - 1)
  <2>1. N \in 2 .. N /\ N - 1 \in 1 .. N
    BY <1>1, <1>4
  <2>2. RepeatsAt(T, dep, t, N, top, sg[N], rm[N], rm[N - 1])
    BY <2>1, StandsFacts
  <2>3. top.left \in Nat /\ rm[N - 1] = 0 + top.left /\ here + rm[N - 1] <= Len(T)
    BY <2>2, <1>1, <1>3 DEF RepeatsAt
  <2>4. rm[N - 1] = top.left
    BY <2>3
  <2>5. \A j \in 1 .. top.left : T[t + j] = T[here + j] /\ dep[t + j] = dep[here + j] + (N - 1)
    BY <2>2, <2>4, <1>3 DEF RepeatsAt
  <2> HIDE DEF top, here
  <2> QED BY <2>3, <2>4, <2>5, <1>2
<1>5. ASSUME NEW k \in 1 .. N - 1 PROVE rm[k] >= top.left
  <2>1. N > 1 /\ N - 1 \in 1 .. N
    BY <1>1
  <2>2. Remains(N, rm, lf)
    <3> SUFFICES ASSUME NEW i \in 2 .. N PROVE lf[i] \in Nat /\ rm[i - 1] = rm[i] + lf[i]
      BY DEF Remains
    <3>1. RepeatsAt(T, dep, t, i, st[i], sg[i], rm[i], rm[i - 1]) /\ i \in 1 .. N
      BY StandsFacts
    <3> QED BY <3>1 DEF RepeatsAt
  <2>3. rm[N - 1] <= rm[k]
    <3> HIDE DEF N, lf
    <3> QED BY <2>1, <2>2, <1>1, RemainsBelow
  <2>4. rm[k] \in Nat
    BY <1>1
  <2> HIDE DEF top
  <2> QED BY <2>1, <2>3, <2>4, <1>4
<1>6. ASSUME NEW j \in Nat, j > 0, here + j <= Len(T), N > 1 => j <= top.left
      PROVE  T[t + j] = T[here + j] /\ t + j <= Len(T) /\ dep[t + j] = dep[here + j] + (N - 1)
  <2>1. CASE N = 1
    <3>1. t = here
      BY <2>1, <1>1, <1>3
    <3>2. dep[here + j] \in Nat
      <4>1. dep \in [1 .. Len(T) -> Nat]
        BY DEF ReadsAs
      <4>2. here + j \in 1 .. Len(T)
        <5> HIDE DEF here
        <5> QED BY <1>1, <1>2, <1>6
      <4> QED BY <4>1, <4>2
    <3> HIDE DEF here
    <3> QED BY <3>1, <3>2, <2>1, <1>6
  <2>2. CASE N > 1
    <3>1. j \in 1 .. top.left
      <4> HIDE DEF top
      <4> QED BY <2>2, <1>4, <1>6
    <3>2. t + j <= Len(T)
      <4>1. 1 \in 1 .. N - 1 /\ 1 \in 1 .. N
        BY <2>2, <1>1
      <4>2. rm[1] >= top.left /\ rm[1] \in Nat
        BY <4>1, <1>1, <1>5
      <4>3. EndsAt(pos, st[1], sg[1], rm[1]) /\ pos[st[1].at] \in 0 .. Len(T)
        BY <4>1, StandsFacts
      <4>4. t + rm[1] <= pos[st[1].at]
        BY <4>3, <1>1 DEF EndsAt
      <4> HIDE DEF top
      <4> QED BY <4>2, <4>3, <4>4, <1>1, <1>6, <2>2, <1>2
    <3> QED BY <3>1, <3>2, <2>2, <1>4
  <2>3. N = 1 \/ N > 1
    BY <1>1
  <2> HIDE DEF N, here
  <2> QED BY <2>1, <2>2, <2>3
<1> HIDE DEF top, here, N
<1>7. N > 1 => top.left \in Nat /\ rm[N - 1] = top.left /\ here + top.left <= Len(T)
  BY <1>4
<1> QED BY <1>3, <1>5, <1>6, <1>7 DEF top, here, N

\* A byte yielded by the place on top.
LEMMA YieldStands ==
    ASSUME NEW o, NEW T, NEW pos, NEW dep, ReadsAs(o, T, pos, dep), NEW st, NEW sg, NEW rm,
           NEW t, NEW rest \in Nat, rest > 0, Stands(T, pos, dep, st, sg, rm, t, rest),
           st[Len(st)].left # 0, NEW q \in DOMAIN pos, pos[q] = pos[st[Len(st)].at] + 1,
           NEW left, left = IF st[Len(st)].left = WITHOUT_END THEN WITHOUT_END ELSE st[Len(st)].left - 1
    PROVE  InOrder(T, pos, dep, Append(SubSeq(st, 1, Len(st) - 1), [at |-> q, left |-> left]), t + 1, rest - 1)
<1> DEFINE N == Len(st)
           top == st[N]
           e == [at |-> q, left |-> left]
           st2 == Append(SubSeq(st, 1, N - 1), e)
           sg2 == [k \in 1 .. N |-> sg[k] + 1]
           rm2 == [k \in 1 .. N |-> IF k = N THEN 0 ELSE rm[k] - 1]
<1>1. /\ N \in Nat /\ N > 0 /\ N \in 1 .. N /\ sg \in [1 .. N -> Nat] /\ rm \in [1 .. N -> Nat]
      /\ rm[N] = 0 /\ sg[1] = t /\ t \in Nat /\ Len(T) \in Nat /\ st \in Seq(Place(pos))
  BY StandsFacts
<1>2. /\ top.left \in Int /\ top.left # 0 /\ top.at \in DOMAIN pos /\ pos[top.at] \in 0 .. Len(T)
      /\ pos[q] \in 0 .. Len(T) /\ pos[q] = pos[top.at] + 1
  <2>1. pos[q] \in 0 .. Len(T)
    BY DEF ReadsAs
  <2> QED BY <2>1, <1>1, StandsFacts
<1>3. /\ sg[N] = pos[top.at]
      /\ N > 1 => top.left \in Nat /\ rm[N - 1] = top.left
      /\ \A k \in 1 .. N - 1 : rm[k] >= top.left
  BY TopFacts
<1>14. /\ \A k \in 1 .. N : EndsAt(pos, st[k], sg[k], rm[k])
       /\ \A k \in 2 .. N : RepeatsAt(T, dep, t, k, st[k], sg[k], rm[k], rm[k - 1])
       /\ YieldsInAll(T, st[1], rm[1], t, rest)
  BY StandsFacts
<1>4. /\ st2 \in Seq(Place(pos)) /\ Len(st2) = N /\ st2[N] = e /\ \A k \in 1 .. N - 1 : st2[k] = st[k]
  <2>1. e \in Place(pos)
    BY <1>2 DEF Place, WITHOUT_END
  <2> DEFINE P == Place(pos)
  <2>2. e \in P /\ st \in Seq(P) /\ Len(st) > 0
    BY <2>1, <1>1
  <2> DEFINE b == SubSeq(st, 1, Len(st) - 1)
  <2> HIDE DEF e, P
  <2>3. b \in Seq(P) /\ Len(b) = Len(st) - 1 /\ \A k \in 1 .. Len(st) - 1 : b[k] = st[k]
    BY <2>2, ButLast
  <2> HIDE DEF b
  <2>4. /\ Append(b, e) \in Seq(P) /\ Len(Append(b, e)) = Len(st) /\ Append(b, e)[Len(st)] = e
        /\ \A k \in 1 .. Len(st) - 1 : Append(b, e)[k] = st[k]
    BY <2>2, <2>3
  <2> QED BY <2>4 DEF P, b
<1>5. left = IF top.left = WITHOUT_END THEN WITHOUT_END ELSE top.left - 1
  OBVIOUS
<1>6. e.at = q /\ e.left = left
  OBVIOUS
<1>7. \A k \in 1 .. N : sg2[k] = sg[k] + 1 /\ sg[k] \in Nat /\ rm2[k] = (IF k = N THEN 0 ELSE rm[k] - 1) /\ rm[k] \in Nat
  BY <1>1
<1> HIDE DEF N, st2, sg2, rm2, e
<1>15. top.left \in Int /\ top = st[N]
  BY <1>2
<1> HIDE DEF top
<1>8. ASSUME NEW k \in 1 .. N - 1 PROVE rm[k] - 1 \in Nat /\ rm[k] - 1 >= 0 /\ k \in 1 .. N /\ k # N /\ N > 1
  <2>1. rm[k] >= top.left /\ N > 1 /\ k \in 1 .. N /\ k # N
    BY <1>1, <1>3
  <2>2. rm[k] \in Nat /\ top.left \in Nat /\ top.left # 0
    BY <2>1, <1>2, <1>3, <1>7
  <2> QED BY <2>1, <2>2
<1>9. sg2 \in [1 .. N -> Nat] /\ rm2 \in [1 .. N -> Nat] /\ sg2[1] = t + 1 /\ rm2[N] = 0
  <2>1. \A k \in 1 .. N : (IF k = N THEN 0 ELSE rm[k] - 1) \in Nat
    <3>1. \A k \in 1 .. N : k # N => k \in 1 .. N - 1
      BY <1>1
    <3> QED BY <3>1, <1>8
  <2> QED BY <2>1, <1>1 DEF sg2, rm2
<1>10. ASSUME NEW k \in 1 .. N PROVE EndsAt(pos, st2[k], sg2[k], rm2[k])
  <2>1. CASE k = N
    <3>1. st2[k].at = q /\ sg2[k] = pos[top.at] + 1 /\ rm2[k] = 0
      BY <2>1, <1>1, <1>3, <1>4, <1>6, <1>7
    <3> QED BY <3>1, <1>2 DEF EndsAt
  <2>2. CASE k # N
    <3>1. k \in 1 .. N - 1
      BY <2>2, <1>1
    <3>2. EndsAt(pos, st[k], sg[k], rm[k]) /\ st2[k] = st[k]
      BY <1>4, <3>1, <1>14
    <3>3. sg2[k] + rm2[k] = sg[k] + rm[k]
      <4>1. sg2[k] = sg[k] + 1 /\ rm2[k] = rm[k] - 1 /\ sg[k] \in Int /\ rm[k] \in Int
        BY <1>7, <2>2
      <4> QED BY <4>1
    <3> QED BY <3>2, <3>3 DEF EndsAt
  <2> QED BY <2>1, <2>2
<1>11. ASSUME NEW k \in 2 .. N PROVE RepeatsAt(T, dep, t + 1, k, st2[k], sg2[k], rm2[k], rm2[k - 1])
  <2>1. /\ k \in 1 .. N /\ k - 1 \in 1 .. N - 1 /\ k - 1 \in 1 .. N /\ k - 1 # N
        /\ RepeatsAt(T, dep, t, k, st[k], sg[k], rm[k], rm[k - 1])
    BY <1>1, <1>14
  <2>2. /\ sg[k] \in Nat /\ rm[k] \in Nat /\ rm[k - 1] \in Nat /\ rm[k - 1] - 1 \in Nat
        /\ sg2[k] = sg[k] + 1 /\ rm2[k - 1] = rm[k - 1] - 1
    BY <2>1, <1>7, <1>8
  <2>3. /\ st[k].left \in Nat /\ rm[k - 1] = rm[k] + st[k].left /\ sg[k] + rm[k - 1] <= Len(T)
    BY <2>1 DEF RepeatsAt
  <2>4. st2[k].left \in Nat /\ rm2[k - 1] = rm2[k] + st2[k].left
    <3>1. CASE k = N
      <4>1. st2[k].left = left /\ rm[k] = 0 /\ rm2[k] = 0 /\ st[k].left = top.left
        BY <3>1, <1>1, <1>4, <1>6, <1>9, <1>15
      <4> DEFINE l == top.left
                 b == rm[k - 1]
      <4>2. l \in Nat /\ l # 0 /\ b = 0 + l /\ b \in Nat
        BY <4>1, <2>2, <2>3, <1>2
      <4>3. left = IF l = WITHOUT_END THEN WITHOUT_END ELSE l - 1
        BY <1>5
      <4>4. rm2[k - 1] = b - 1 /\ st2[k].left = left /\ rm2[k] = 0
        BY <4>1, <2>2
      <4> HIDE DEF l, b
      <4>5. left = l - 1
        BY <4>2, <4>3 DEF WITHOUT_END
      <4>6. left \in Nat /\ b - 1 = 0 + left
        BY <4>2, <4>5
      <4> QED BY <4>4, <4>6
    <3>2. CASE k # N
      <4>1. k \in 1 .. N - 1
        BY <3>2, <1>1
      <4>2. st2[k] = st[k] /\ rm2[k] = rm[k] - 1
        BY <4>1, <3>2, <1>4, <1>7, <2>1
      <4> DEFINE l == st[k].left
                 b == rm[k - 1]
                 r == rm[k]
      <4>3. l \in Nat /\ b \in Nat /\ r \in Nat /\ b = r + l /\ rm2[k - 1] = b - 1 /\ rm2[k] = r - 1 /\ st2[k].left = l
        BY <4>2, <2>2, <2>3
      <4> HIDE DEF l, b, r
      <4>4. b - 1 = (r - 1) + l
        BY <4>3
      <4> QED BY <4>3, <4>4
    <3> QED BY <3>1, <3>2
  <2>5. sg2[k] + rm2[k - 1] <= Len(T)
    <3> DEFINE b == rm[k - 1]
               a == sg[k]
               l == Len(T)
    <3>1. a \in Nat /\ b \in Nat /\ l \in Nat /\ a + b <= l /\ sg2[k] = a + 1 /\ rm2[k - 1] = b - 1
      BY <2>2, <2>3, <1>1
    <3> HIDE DEF a, b, l
    <3>2. (a + 1) + (b - 1) <= l
      BY <3>1
    <3> QED BY <3>1, <3>2 DEF l
  <2>6. ASSUME NEW j \in 1 .. rm2[k - 1]
        PROVE  T[(t + 1) + j] = T[sg2[k] + j] /\ dep[(t + 1) + j] = dep[sg2[k] + j] + (k - 1)
    <3>1. j + 1 \in 1 .. rm[k - 1] /\ (t + 1) + j = t + (j + 1) /\ sg2[k] + j = sg[k] + (j + 1)
      <4> DEFINE b == rm[k - 1]
                 a == sg[k]
      <4>1. a \in Nat /\ b \in Nat /\ b - 1 \in Nat /\ t \in Nat /\ sg2[k] = a + 1 /\ j \in 1 .. b - 1
        BY <2>2, <1>1
      <4> HIDE DEF a, b
      <4>2. j + 1 \in 1 .. b /\ (t + 1) + j = t + (j + 1) /\ (a + 1) + j = a + (j + 1)
        BY <4>1
      <4> QED BY <4>1, <4>2 DEF a, b
    <3> DEFINE i == j + 1
    <3> HIDE DEF i
    <3>2. T[t + i] = T[sg[k] + i] /\ dep[t + i] = dep[sg[k] + i] + (k - 1)
      <4>1. i \in 1 .. rm[k - 1]
        BY <3>1 DEF i
      <4> QED BY <4>1, <2>1 DEF RepeatsAt
    <3> QED BY <3>1, <3>2 DEF i
  <2> QED BY <2>4, <2>5, <2>6 DEF RepeatsAt
<1>12. YieldsInAll(T, st2[1], rm2[1], t + 1, rest - 1)
  <2>1. YieldsInAll(T, st[1], rm[1], t, rest)
    BY <1>14
  <2>2. CASE N = 1
    <3>1. st2[1].left = left /\ st[1].left = top.left /\ rm[1] = 0 /\ rm2[1] = 0
      BY <2>2, <1>1, <1>4, <1>6, <1>9, <1>15
    <3>2. CASE top.left = WITHOUT_END
      BY <3>1, <3>2, <1>5 DEF YieldsInAll
    <3>3. CASE top.left # WITHOUT_END
      <4>1. top.left \in Nat /\ 0 + top.left = rest /\ t + rest <= Len(T)
        BY <2>1, <3>1, <3>3 DEF YieldsInAll
      <4>2. left \in Nat /\ 0 + left = rest - 1 /\ (t + 1) + (rest - 1) <= Len(T)
        <5> DEFINE l == top.left
                   n == Len(T)
        <5>1. l \in Nat /\ l # 0 /\ 0 + l = rest /\ left = l - 1 /\ t \in Nat /\ n \in Nat /\ t + rest <= n
          BY <4>1, <3>3, <1>1, <1>2, <1>5
        <5> HIDE DEF l, n
        <5>2. left \in Nat /\ 0 + left = rest - 1 /\ (t + 1) + (rest - 1) <= n
          BY <5>1
        <5> QED BY <5>2 DEF n
      <4> QED BY <3>1, <4>2 DEF YieldsInAll
    <3> QED BY <3>2, <3>3
  <2>3. CASE N # 1
    <3>1. 1 \in 1 .. N - 1
      BY <2>3, <1>1
    <3>2. st2[1] = st[1] /\ rm2[1] = rm[1] - 1 /\ rm[1] \in Nat
      BY <3>1, <1>4, <1>7, <1>8
    <3>3. CASE st[1].left = WITHOUT_END
      BY <3>2, <3>3 DEF YieldsInAll
    <3>4. CASE st[1].left # WITHOUT_END
      <4>1. st[1].left \in Nat /\ rm[1] + st[1].left = rest /\ t + rest <= Len(T)
        BY <2>1, <3>4 DEF YieldsInAll
      <4>2. rm2[1] + st2[1].left = rest - 1 /\ (t + 1) + (rest - 1) <= Len(T)
        <5> DEFINE l == st[1].left
                   r == rm[1]
        <5>1. l \in Nat /\ r \in Nat /\ r + l = rest /\ t + rest <= Len(T)
              /\ rm2[1] = r - 1 /\ st2[1].left = l
          BY <4>1, <3>2
        <5> DEFINE n == Len(T)
        <5>2. n \in Nat /\ t \in Nat /\ t + rest <= n
          BY <5>1, <1>1
        <5> HIDE DEF l, r, n
        <5>3. (r - 1) + l = rest - 1 /\ (t + 1) + (rest - 1) <= n
          BY <5>1, <5>2
        <5> QED BY <5>1, <5>3 DEF n
      <4> QED BY <4>1, <4>2, <3>2 DEF YieldsInAll
    <3> QED BY <3>3, <3>4
  <2> QED BY <2>2, <2>3
<1>13. Stands(T, pos, dep, st2, sg2, rm2, t + 1, rest - 1)
  BY <1>1, <1>4, <1>9, <1>10, <1>11, <1>12 DEF Stands
<1>16. InOrder(T, pos, dep, st2, t + 1, rest - 1)
  BY <1>13 DEF InOrder
<1> QED BY <1>16 DEF st2, e, N

\* A reference followed by the place on top.
Pushed(st, q, left, w, clipped) ==
    SubSeq(st, 1, Len(st) - 1) \o <<[at |-> q, left |-> left], [at |-> w, left |-> clipped]>>

LEMMA PushStands ==
    ASSUME NEW o, NEW T, NEW pos, NEW dep, ReadsAs(o, T, pos, dep), NEW st, NEW sg, NEW rm,
           NEW t, NEW rest \in Nat, Stands(T, pos, dep, st, sg, rm, t, rest),
           st[Len(st)].left # 0, NEW n \in Nat, n > 0,
           NEW q \in DOMAIN pos, pos[q] = pos[st[Len(st)].at] + n,
           NEW w \in DOMAIN pos, pos[w] + n <= pos[st[Len(st)].at],
           RepeatsDeeper(T, dep, pos[st[Len(st)].at], pos[w], n),
           NEW clipped, clipped = (IF st[Len(st)].left # WITHOUT_END /\ n > st[Len(st)].left
                                   THEN st[Len(st)].left ELSE n),
           NEW left, left = IF st[Len(st)].left = WITHOUT_END THEN WITHOUT_END ELSE st[Len(st)].left - clipped
    PROVE  /\ clipped \in Nat /\ clipped > 0
           /\ InOrder(T, pos, dep, Pushed(st, q, left, w, clipped), t, rest)
<1> DEFINE N == Len(st)
           top == st[N]
           here == pos[top.at]
           e == [at |-> q, left |-> left]
           f == [at |-> w, left |-> clipped]
           st2 == SubSeq(st, 1, N - 1) \o <<e, f>>
           sg2 == [k \in 1 .. N + 1 |-> IF k = N + 1 THEN pos[w] ELSE sg[k]]
           rm2 == [k \in 1 .. N + 1 |-> IF k = N + 1 THEN 0 ELSE IF k = N THEN clipped ELSE rm[k]]
<1>1. /\ N \in Nat /\ N > 0 /\ N \in 1 .. N /\ sg \in [1 .. N -> Nat] /\ rm \in [1 .. N -> Nat]
      /\ rm[N] = 0 /\ sg[1] = t /\ t \in Nat /\ Len(T) \in Nat /\ st \in Seq(Place(pos))
  BY StandsFacts
<1>2. /\ top.left \in Int /\ top.left # 0 /\ here \in 0 .. Len(T)
      /\ pos[q] \in 0 .. Len(T) /\ pos[q] = here + n /\ pos[w] \in 0 .. Len(T) /\ pos[w] + n <= here
  <2>1. pos[q] \in 0 .. Len(T) /\ pos[w] \in 0 .. Len(T)
    BY DEF ReadsAs
  <2> QED BY <2>1, <1>1, StandsFacts
<1>3. /\ sg[N] = here
      /\ N > 1 => top.left \in Nat /\ rm[N - 1] = top.left
  BY TopFacts
<1>4. \A j \in Nat : /\ j > 0 /\ here + j <= Len(T)
                      /\ (N > 1 => j <= top.left)
                      => /\ T[t + j] = T[here + j] /\ t + j <= Len(T)
                         /\ dep[t + j] = dep[here + j] + (N - 1)
  BY TopFacts
<1>5. clipped = (IF top.left # WITHOUT_END /\ n > top.left THEN top.left ELSE n)
      /\ left = (IF top.left = WITHOUT_END THEN WITHOUT_END ELSE top.left - clipped)
  OBVIOUS
<1>6. top.left = WITHOUT_END \/ top.left \in Nat
  <2>1. N = 1 => YieldsInAll(T, top, rm[1], t, rest)
    BY StandsFacts
  <2> HIDE DEF N, top
  <2>2. N = 1 \/ N > 1
    BY <1>1
  <2> QED BY <2>1, <2>2, <1>3 DEF YieldsInAll
<1>7. \A j \in 1 .. n : T[here + j] = T[pos[w] + j] /\ dep[here + j] = dep[pos[w] + j] + 1
  BY DEF RepeatsDeeper
<1>16. /\ \A k \in 1 .. N : EndsAt(pos, st[k], sg[k], rm[k])
       /\ \A k \in 2 .. N : RepeatsAt(T, dep, t, k, st[k], sg[k], rm[k], rm[k - 1])
       /\ YieldsInAll(T, st[1], rm[1], t, rest)
  BY StandsFacts
<1>17. top = st[N]
  OBVIOUS
<1> HIDE DEF top, here
<1>8. /\ clipped \in Nat /\ clipped > 0 /\ clipped <= n /\ left \in Int
      /\ left # 0 => clipped = n
      /\ top.left # WITHOUT_END => left \in Nat /\ top.left = clipped + left
  <2> DEFINE l == top.left
  <2>1. /\ l \in Int /\ l # 0 /\ (l = WITHOUT_END \/ l \in Nat)
        /\ clipped = (IF l # WITHOUT_END /\ n > l THEN l ELSE n)
        /\ left = (IF l = WITHOUT_END THEN WITHOUT_END ELSE l - clipped)
    BY <1>2, <1>5, <1>6
  <2> HIDE DEF l
  <2>2. CASE l = WITHOUT_END
    <3>1. clipped = n /\ left = -1
      BY <2>1, <2>2 DEF WITHOUT_END
    <3> QED BY <3>1, <2>2 DEF l
  <2>3. CASE l # WITHOUT_END
    <3>1. l \in Nat /\ l > 0 /\ clipped = (IF n > l THEN l ELSE n) /\ left = l - clipped
      BY <2>1, <2>3
    <3>2. /\ clipped \in Nat /\ clipped > 0 /\ clipped <= n /\ left \in Nat
          /\ left # 0 => clipped = n
          /\ l = clipped + left
      BY <3>1
    <3> QED BY <3>2 DEF l
  <2> QED BY <2>2, <2>3
<1>9. /\ st2 \in Seq(Place(pos)) /\ Len(st2) = N + 1 /\ st2[N] = e /\ st2[N + 1] = f
      /\ \A k \in 1 .. N - 1 : st2[k] = st[k]
  <2>1. e \in Place(pos) /\ f \in Place(pos)
    BY <1>8 DEF Place
  <2> DEFINE P == Place(pos)
  <2>2. e \in P /\ f \in P /\ st \in Seq(P) /\ Len(st) > 0
    BY <2>1, <1>1
  <2> DEFINE b == SubSeq(st, 1, Len(st) - 1)
             c == b \o <<e, f>>
             M == Len(b)
  <2> HIDE DEF e, f, P
  <2>3. b \in Seq(P) /\ Len(b) = Len(st) - 1 /\ \A k \in 1 .. Len(st) - 1 : b[k] = st[k]
    BY <2>2, ButLast
  <2> HIDE DEF b
  <2>4. /\ c \in Seq(P) /\ Len(c) = M + 2 /\ \A k \in 1 .. M : c[k] = b[k]
        /\ c[M + 1] = e /\ c[M + 2] = f
    BY <2>2, <2>3, TwoAppended
  <2> HIDE DEF c
  <2>5. M + 2 = N + 1 /\ M + 1 = N /\ M = N - 1
    BY <1>1, <2>3
  <2>6. /\ c \in Seq(P) /\ Len(c) = N + 1 /\ c[N] = e /\ c[N + 1] = f
        /\ \A k \in 1 .. N - 1 : c[k] = st[k]
    <3> HIDE DEF M
    <3> QED BY <2>3, <2>4, <2>5
  <2> QED BY <2>6 DEF P, b, c
<1>10. e.at = q /\ e.left = left /\ f.at = w /\ f.left = clipped
  OBVIOUS
<1>11. /\ sg2 \in [1 .. N + 1 -> Nat] /\ rm2 \in [1 .. N + 1 -> Nat]
       /\ sg2[N + 1] = pos[w] /\ rm2[N + 1] = 0 /\ rm2[N] = clipped /\ sg2[N] = sg[N]
       /\ \A k \in 1 .. N - 1 : sg2[k] = sg[k] /\ rm2[k] = rm[k] /\ sg[k] \in Nat /\ rm[k] \in Nat /\ k \in 1 .. N
  <2>1. pos[w] \in Nat /\ \A k \in 1 .. N + 1 : k # N + 1 => k \in 1 .. N
    BY <1>1, <1>2
  <2>2. N + 1 \in 1 .. N + 1 /\ N \in 1 .. N + 1 /\ N # N + 1
        /\ \A k \in 1 .. N - 1 : k \in 1 .. N + 1 /\ k # N /\ k # N + 1 /\ k \in 1 .. N
    BY <1>1
  <2> QED BY <2>1, <2>2, <1>1, <1>8
<1> HIDE DEF st2, sg2, rm2, e, f, N
<1>12. ASSUME NEW k \in 1 .. N + 1 PROVE EndsAt(pos, st2[k], sg2[k], rm2[k])
  <2>1. CASE k = N + 1
    BY <2>1, <1>2, <1>9, <1>10, <1>11 DEF EndsAt
  <2>2. CASE k = N
    <3>1. st2[k].at = q /\ st2[k].left = left /\ sg2[k] = here /\ rm2[k] = clipped
      BY <2>2, <1>3, <1>9, <1>10, <1>11
    <3> QED BY <3>1, <1>2, <1>8 DEF EndsAt
  <2>3. CASE k \in 1 .. N - 1
    <3>1. EndsAt(pos, st[k], sg[k], rm[k])
      BY <2>3, <1>11, <1>16
    <3> QED BY <3>1, <2>3, <1>9, <1>11
  <2>4. k = N + 1 \/ k = N \/ k \in 1 .. N - 1
    BY <1>1
  <2> QED BY <2>1, <2>2, <2>3, <2>4
<1>13. ASSUME NEW k \in 2 .. N + 1 PROVE RepeatsAt(T, dep, t, k, st2[k], sg2[k], rm2[k], rm2[k - 1])
  <2>1. CASE k = N + 1
    <3>1. k - 1 = N /\ st2[k].left = clipped /\ rm2[k] = 0 /\ rm2[k - 1] = clipped /\ sg2[k] = pos[w]
      BY <2>1, <1>1, <1>9, <1>10, <1>11
    <3>2. clipped = 0 + clipped /\ pos[w] + clipped <= Len(T)
      <4> DEFINE x == pos[w]
                 l == Len(T)
      <4>1. x \in Nat /\ x + n <= here /\ here \in Nat /\ here <= l /\ l \in Nat
        BY <1>1, <1>2
      <4> HIDE DEF x, l
      <4>2. clipped \in Nat /\ clipped <= n
        BY <1>8
      <4>3. x + clipped <= l
        BY <4>1, <4>2
      <4> QED BY <4>2, <4>3 DEF x, l
    <3>3. ASSUME NEW j \in 1 .. clipped
          PROVE  T[t + j] = T[pos[w] + j] /\ dep[t + j] = dep[pos[w] + j] + N
      <4>1. j \in 1 .. n /\ j \in Nat /\ j > 0 /\ here + j <= Len(T)
        <5> DEFINE y == pos[q]
                   l == Len(T)
        <5>1. y \in 0 .. l /\ y = here + n /\ here \in 0 .. l /\ l \in Nat
          BY <1>1, <1>2
        <5>2. clipped \in Nat /\ clipped <= n
          BY <1>8
        <5> HIDE DEF y, l
        <5>3. j \in 1 .. n /\ j \in Nat /\ j > 0 /\ here + j <= l
          BY <5>1, <5>2
        <5> QED BY <5>3 DEF l
      <4>2. N > 1 => j <= top.left
        <5>1. N > 1 => top.left # WITHOUT_END
          BY <1>3 DEF WITHOUT_END
        <5> QED BY <5>1, <1>8
      <4>3. T[t + j] = T[here + j] /\ dep[t + j] = dep[here + j] + (N - 1)
        BY <4>1, <4>2, <1>4
      <4>4. T[here + j] = T[pos[w] + j] /\ dep[here + j] = dep[pos[w] + j] + 1
        BY <4>1, <1>7
      <4>5. dep[pos[w] + j] \in Nat
        <5>1. dep \in [1 .. Len(T) -> Nat]
          BY DEF ReadsAs
        <5>2. pos[w] + j \in 1 .. Len(T)
          <6> DEFINE x == pos[w]
                     l == Len(T)
          <6>1. x \in 0 .. l /\ x + n <= here /\ here \in 0 .. l /\ l \in Nat /\ j \in 1 .. n
            BY <4>1, <1>1, <1>2
          <6> HIDE DEF x, l
          <6>2. x + j \in 1 .. l
            BY <6>1
          <6> QED BY <6>2 DEF x, l
        <5> QED BY <5>1, <5>2
      <4>6. (dep[pos[w] + j] + 1) + (N - 1) = dep[pos[w] + j] + N
        BY <4>5, <1>1
      <4> QED BY <4>3, <4>4, <4>6
    <3> QED BY <3>1, <3>2, <3>3, <1>8 DEF RepeatsAt
  <2>2. CASE k = N
    <3>1. N > 1 /\ N \in 2 .. N /\ N - 1 \in 1 .. N - 1
      BY <2>2, <1>1
    <3>2. RepeatsAt(T, dep, t, N, st[N], sg[N], rm[N], rm[N - 1])
      BY <3>1, <1>16
    <3>3. /\ st2[N].left = left /\ sg2[N] = sg[N] /\ rm2[N] = clipped /\ rm2[N - 1] = rm[N - 1]
          /\ rm[N - 1] = top.left
      BY <3>1, <1>3, <1>9, <1>10, <1>11
    <3>4. left \in Nat /\ top.left = clipped + left
      BY <3>1, <1>3, <1>8 DEF WITHOUT_END
    <3>5. sg[N] + rm[N - 1] <= Len(T)
          /\ \A j \in 1 .. rm[N - 1] : T[t + j] = T[sg[N] + j] /\ dep[t + j] = dep[sg[N] + j] + (N - 1)
      BY <3>2 DEF RepeatsAt
    <3> QED BY <2>2, <3>3, <3>4, <3>5 DEF RepeatsAt
  <2>3. CASE k \in 2 .. N - 1
    <3>1. k \in 2 .. N /\ k \in 1 .. N - 1 /\ k - 1 \in 1 .. N - 1
      BY <2>3, <1>1
    <3>2. RepeatsAt(T, dep, t, k, st[k], sg[k], rm[k], rm[k - 1])
      BY <3>1, <1>16
    <3>3. st2[k] = st[k] /\ sg2[k] = sg[k] /\ rm2[k] = rm[k] /\ rm2[k - 1] = rm[k - 1]
      BY <3>1, <1>9, <1>11
    <3> QED BY <3>2, <3>3
  <2>4. k = N + 1 \/ k = N \/ k \in 2 .. N - 1
    BY <1>1
  <2> QED BY <2>1, <2>2, <2>3, <2>4
<1>14. YieldsInAll(T, st2[1], rm2[1], t, rest) /\ sg2[1] = t
  <2>1. YieldsInAll(T, st[1], rm[1], t, rest)
    BY <1>16
  <2>2. CASE N = 1
    <3>1. st2[1].left = left /\ st[1].left = top.left /\ rm[1] = 0 /\ rm2[1] = clipped /\ sg2[1] = t
      BY <2>2, <1>1, <1>9, <1>10, <1>11, <1>17
    <3>2. CASE top.left = WITHOUT_END
      BY <3>1, <3>2, <1>5 DEF YieldsInAll
    <3>3. CASE top.left # WITHOUT_END
      <4>1. top.left \in Nat /\ 0 + top.left = rest /\ t + rest <= Len(T)
        BY <2>1, <3>1, <3>3 DEF YieldsInAll
      <4>2. left \in Nat /\ clipped + left = rest
        BY <4>1, <3>3, <1>8
      <4> QED BY <3>1, <4>1, <4>2 DEF YieldsInAll
    <3> QED BY <3>2, <3>3
  <2>3. CASE N # 1
    <3>1. 1 \in 1 .. N - 1
      BY <2>3, <1>1
    <3>2. st2[1] = st[1] /\ rm2[1] = rm[1] /\ sg2[1] = sg[1]
      BY <3>1, <1>9, <1>11
    <3> QED BY <2>1, <3>2, <1>1
  <2> QED BY <2>2, <2>3
<1>15. Stands(T, pos, dep, st2, sg2, rm2, t, rest)
  <2>1. Len(st2) > 0 /\ Len(st2) = N + 1
    BY <1>1, <1>9
  <2> QED BY <2>1, <1>9, <1>11, <1>12, <1>13, <1>14 DEF Stands
<1>18. InOrder(T, pos, dep, st2, t, rest)
  BY <1>15 DEF InOrder
<1> QED BY <1>8, <1>18 DEF st2, e, f, N, Pushed

\* What a step of a decoder does.
Beyond(top, bytes, n) == [at |-> top.at + bytes,
                          left |-> IF top.left = WITHOUT_END THEN WITHOUT_END ELSE top.left - n]
Clipped(top, n) == IF top.left # WITHOUT_END /\ n > top.left THEN top.left ELSE n

Spot == [at : Nat, left : Int]
Top(d) == Popped(d.stack)[Len(Popped(d.stack))]
Below(d) == SubSeq(Popped(d.stack), 1, Len(Popped(d.stack)) - 1)
Height(d) == Len(Popped(d.stack))
Stop(d) == [d EXCEPT !.stack = <<>>]
YieldAt(d, bytes, v) == [stack |-> Append(Below(d), Beyond(Top(d), bytes, 1)), data |-> Append(d.data, v)]
Follow(d, n, back) == [d EXCEPT !.stack = Below(d) \o <<Beyond(Top(d), 2, Clipped(Top(d), n)),
                                                       [at |-> Top(d).at - back, left |-> Clipped(Top(d), n)]>>]

LEMMA StepFacts ==
    ASSUME NEW o, NEW limit, NEW d, Popped(d.stack) # <<>>, Top(d) \in Spot
    PROVE  /\ Top(d).at >= Len(o) => Step(o, limit, d) = Stop(d)
           /\ (~(Top(d).at >= Len(o)) /\ o[Top(d).at + 1].tag = "low") =>
                 Step(o, limit, d) = YieldAt(d, 1, o[Top(d).at + 1].n)
           /\ (~(Top(d).at >= Len(o)) /\ o[Top(d).at + 1].tag = "escape") =>
                 Step(o, limit, d) = YieldAt(d, 2, HighBit + o[Top(d).at + 2].n)
           /\ (~(Top(d).at >= Len(o)) /\ o[Top(d).at + 1].tag = "reference" /\ Height(d) >= limit) =>
                 Step(o, limit, d) = Stop(d)
           /\ (~(Top(d).at >= Len(o)) /\ o[Top(d).at + 1].tag = "reference" /\ ~(Height(d) >= limit)
               /\ Clipped(Top(d), o[Top(d).at + 1].n + 3) \in Nat) =>
                 Step(o, limit, d) = Follow(d, o[Top(d).at + 1].n + 3, o[Top(d).at + 2].n)
<1> DEFINE top == Top(d)
           here == o[top.at + 1]
           operand == o[top.at + 2].n
           clipped == Clipped(top, here.n + 3)
           rest(bytes, n) == [Yield(top, n) EXCEPT !.at = @ + bytes]
<1>1. ASSUME NEW bytes \in Nat, NEW n \in Nat
      PROVE  rest(bytes, n) = Beyond(top, bytes, n)
  <2> HIDE DEF top
  <2>1. top \in [at : Nat, left : Int]
    BY DEF top, Spot
  <2> QED BY <2>1, RestFacts DEF Beyond
<1>2. Step(o, limit, d) =
        IF Popped(d.stack) = <<>> THEN Stop(d)
        ELSE IF Top(d).at >= Len(o) THEN Stop(d)
        ELSE CASE o[Top(d).at + 1].tag = "low"    -> [stack |-> Append(Below(d), rest(1, 1)),
                                          data |-> Append(d.data, o[Top(d).at + 1].n)]
               [] o[Top(d).at + 1].tag = "escape" -> [stack |-> Append(Below(d), rest(2, 1)),
                                          data |-> Append(d.data, HighBit + o[Top(d).at + 2].n)]
               [] o[Top(d).at + 1].tag = "reference" ->
                    IF Height(d) >= limit THEN Stop(d)
                    ELSE [d EXCEPT !.stack = Below(d) \o
                            <<rest(2, Clipped(top, o[Top(d).at + 1].n + 3)),
                              [at |-> top.at - o[Top(d).at + 2].n, left |-> Clipped(top, o[Top(d).at + 1].n + 3)]>>]
  BY DEF Step, Clipped, Top, Below, Height, Stop
<1>3. rest(1, 1) = Beyond(top, 1, 1) /\ rest(2, 1) = Beyond(top, 2, 1)
      /\ (clipped \in Nat => rest(2, clipped) = Beyond(top, 2, clipped))
  <2>1. 1 \in Nat /\ 2 \in Nat
    OBVIOUS
  <2> HIDE DEF top, rest
  <2>2. rest(1, 1) = Beyond(top, 1, 1)
    BY <1>1, <2>1
  <2>3. rest(2, 1) = Beyond(top, 2, 1)
    BY <1>1, <2>1
  <2>4. ASSUME clipped \in Nat PROVE rest(2, clipped) = Beyond(top, 2, clipped)
    <3> HIDE DEF clipped
    <3> QED BY <1>1, <2>1, <2>4
  <2> QED BY <2>2, <2>3, <2>4
<1> HIDE DEF rest
<1>4. ~(top.at >= Len(o)) /\ here.tag = "low" =>
         Step(o, limit, d) = [stack |-> Append(Below(d), rest(1, 1)), data |-> Append(d.data, here.n)]
  BY <1>2
<1>5. ~(top.at >= Len(o)) /\ here.tag = "escape" =>
         Step(o, limit, d) = [stack |-> Append(Below(d), rest(2, 1)), data |-> Append(d.data, HighBit + operand)]
  BY <1>2
<1>6. ~(top.at >= Len(o)) /\ here.tag = "reference" /\ Height(d) >= limit => Step(o, limit, d) = Stop(d)
  BY <1>2
<1>7. ~(top.at >= Len(o)) /\ here.tag = "reference" /\ ~(Height(d) >= limit) =>
         Step(o, limit, d) = [d EXCEPT !.stack = Below(d) \o
                            <<rest(2, clipped), [at |-> top.at - operand, left |-> clipped]>>]
  BY <1>2
<1>8. ~(top.at >= Len(o)) /\ here.tag = "reference" /\ ~(Height(d) >= limit) /\ clipped \in Nat =>
         Step(o, limit, d) = [d EXCEPT !.stack = Below(d) \o
                            <<Beyond(top, 2, clipped), [at |-> top.at - operand, left |-> clipped]>>]
  <2> HIDE DEF clipped, top
  <2> QED BY <1>3, <1>7
<1>9. top.at >= Len(o) => Step(o, limit, d) = Stop(d)
  BY <1>2
<1> QED BY <1>3, <1>4, <1>5, <1>6, <1>8, <1>9 DEF YieldAt, Follow

\* A decoder that was set to yield at most so many bytes of the text: those it has
\* yielded are nested less deep than its limit, and it has stopped at the end of the
\* text or before a byte nested deeper.
Yielded(T, dep, limit, from, data) ==
    /\ from + Len(data) <= Len(T)
    /\ \A j \in 1 .. Len(data) : data[j] = T[from + j] /\ dep[from + j] < limit
EndsHere(T, dep, limit, most, m, t) == m = most \/ t = Len(T) \/ (t < Len(T) /\ dep[t + 1] >= limit)
Decodes(T, pos, dep, limit, from, most, d) ==
    /\ d \in [stack : Seq(Place(pos)), data : Seq(Nat)] /\ Len(d.data) <= most
    /\ Yielded(T, dep, limit, from, d.data)
    /\ \/ d.stack = <<>> /\ EndsHere(T, dep, limit, most, Len(d.data), from + Len(d.data))
       \/ /\ Len(d.stack) > 0 /\ Len(d.stack) <= limit
          /\ InOrder(T, pos, dep, d.stack, from + Len(d.data), most - Len(d.data))

\* The stack a decoder goes on with.
LEMMA Live ==
    ASSUME NEW o, NEW T, NEW pos, NEW dep, ReadsAs(o, T, pos, dep), NEW st, NEW t \in Nat, NEW rest \in Nat,
           st \in Seq(Place(pos)), InOrder(T, pos, dep, st, t, rest)
    PROVE  \/ Popped(st) = <<>> /\ rest = 0
           \/ /\ Len(Popped(st)) > 0 /\ Len(Popped(st)) <= Len(st) /\ Popped(st)[Len(Popped(st))].left # 0
              /\ InOrder(T, pos, dep, Popped(st), t, rest)
<1>1. PICK sg, rm : Stands(T, pos, dep, st, sg, rm, t, rest)
  BY DEF InOrder
<1> QED BY <1>1, PopStands

\* A stack whose top has something left keeps all its places.
LEMMA KeepsAll ==
    ASSUME NEW Q, NEW st \in Seq([at : Q, left : Int]), Len(st) > 0, st[Len(st)].left # 0
    PROVE  Len(Popped(st)) = Len(st)
<1> DEFINE N == Len(st)
<1>1. N \in Nat /\ N \in 1 .. N
  OBVIOUS
<1>2. \/ Popped(st) = <<>> /\ \A k \in 1 .. N : st[k].left = 0
      \/ \E h \in 1 .. N : /\ st[h].left # 0 /\ \A k \in h + 1 .. N : st[k].left = 0
                           /\ Popped(st) = SubSeq(st, 1, h)
  BY PoppedFacts
<1>6. st[N].left # 0
  OBVIOUS
<1>3. ASSUME NEW h \in 1 .. N, \A k \in h + 1 .. N : st[k].left = 0, Popped(st) = SubSeq(st, 1, h)
      PROVE  Len(Popped(st)) = N
  <2>1. h < N => N \in h + 1 .. N
    BY <1>1
  <2>2. ~(h < N)
    BY <2>1, <1>6, <1>3
  <2>3. h = N
    <3> HIDE DEF N
    <3> QED BY <2>2, <1>1
  <2>4. SubSeq(st, 1, N) = st
    BY SubSeqFull
  <2> QED BY <1>3, <2>3, <2>4
<1>4. ~(\A k \in 1 .. N : st[k].left = 0)
  BY <1>1, <1>6
<1> QED BY <1>2, <1>3, <1>4

\* A decoder that has bytes to yield yet.
LEMMA LiveFacts ==
    ASSUME NEW o, NEW T, NEW pos, NEW dep, ReadsAs(o, T, pos, dep), NEW limit \in Nat, NEW from \in Nat,
           NEW most \in Nat, NEW d, Decodes(T, pos, dep, limit, from, most, d),
           d.stack # <<>>, Len(d.data) # most
    PROVE  /\ Popped(d.stack) \in Seq(Place(pos)) /\ Popped(d.stack) # <<>>
           /\ Height(d) \in Nat /\ Height(d) > 0 /\ Height(d) <= limit
           /\ InOrder(T, pos, dep, Popped(d.stack), from + Len(d.data), most - Len(d.data))
           /\ Top(d) = Popped(d.stack)[Height(d)] /\ Top(d) \in Place(pos) /\ Top(d) \in Spot
           /\ Top(d).left # 0 /\ Top(d).at \in DOMAIN pos /\ Top(d).left \in Int
           /\ pos[Top(d).at] \in 0 .. Len(T) /\ Len(T) \in Nat
           /\ d.data \in Seq(Nat) /\ Len(d.data) \in Nat /\ most - Len(d.data) \in Nat /\ most - Len(d.data) > 0
           /\ d = [stack |-> d.stack, data |-> d.data]
<1> DEFINE st == Popped(d.stack)
           t == from + Len(d.data)
           rest == most - Len(d.data)
<1>1. /\ d \in [stack : Seq(Place(pos)), data : Seq(Nat)] /\ Len(d.data) <= most /\ d.stack \in Seq(Place(pos))
      /\ d.data \in Seq(Nat) /\ Len(d.data) \in Nat /\ Len(d.stack) \in Nat /\ Len(d.stack) <= limit
      /\ InOrder(T, pos, dep, d.stack, t, rest) /\ d = [stack |-> d.stack, data |-> d.data]
  BY DEF Decodes
<1>2. t \in Nat /\ rest \in Nat /\ rest > 0
  <2> DEFINE m == Len(d.data)
  <2>1. m \in Nat /\ m <= most /\ m # most
    BY <1>1
  <2> HIDE DEF m
  <2>2. from + m \in Nat /\ most - m \in Nat /\ most - m > 0
    BY <2>1
  <2> QED BY <2>2 DEF m
<1> HIDE DEF t, rest
<1>3. /\ Len(st) > 0 /\ Len(st) <= Len(d.stack) /\ st[Len(st)].left # 0
      /\ InOrder(T, pos, dep, st, t, rest)
  <2>1. \/ st = <<>> /\ rest = 0
        \/ /\ Len(st) > 0 /\ Len(st) <= Len(d.stack) /\ st[Len(st)].left # 0
           /\ InOrder(T, pos, dep, st, t, rest)
    BY <1>1, <1>2, Live
  <2> HIDE DEF st
  <2> QED BY <2>1, <1>2
<1>4. PICK sg, rm : Stands(T, pos, dep, st, sg, rm, t, rest)
  BY <1>3 DEF InOrder
<1> HIDE DEF st
<1>5. /\ Len(st) \in Nat /\ st \in Seq(Place(pos)) /\ Len(T) \in Nat
      /\ \A k \in 1 .. Len(st) : /\ st[k] \in Place(pos) /\ st[k].at \in DOMAIN pos
                                 /\ pos[st[k].at] \in 0 .. Len(T) /\ st[k].left \in Int /\ st[k].at \in Nat
  BY <1>4, StandsFacts
<1>6. Len(st) \in 1 .. Len(st)
  BY <1>3, <1>5
<1> DEFINE top == st[Len(st)]
<1>7. /\ top \in Place(pos) /\ top.at \in DOMAIN pos /\ pos[top.at] \in 0 .. Len(T) /\ top.left \in Int
      /\ top.at \in Nat /\ top.left # 0
  BY <1>3, <1>5, <1>6
<1>8. top \in [at : Nat, left : Int]
  <2>1. top = [at |-> top.at, left |-> top.left]
    BY <1>7 DEF Place
  <2> QED BY <2>1, <1>7
<1>9. Len(st) <= limit /\ st # <<>>
  BY <1>1, <1>3, <1>5
<1> HIDE DEF top
<1>10. top = Top(d) /\ st[Height(d)] = top /\ Height(d) = Len(st)
  BY DEF top, Top, Height, st
<1>11. top \in Spot
  BY <1>8 DEF Spot
<1> QED BY <1>1, <1>2, <1>3, <1>5, <1>7, <1>11, <1>9, <1>10 DEF st, t, rest

\* What a step may come to: the end, a place higher, or a byte more.
Progress(d, d2, most) ==
    \/ d2.stack = <<>>
    \/ d2.data = d.data /\ Height(d2) = Height(d) + 1
    \/ Len(d2.data) = Len(d.data) + 1 /\ Height(d2) \in Nat /\ (Height(d2) > 0 \/ Len(d2.data) = most)

LEMMA StopDecodes ==
    ASSUME NEW T, NEW pos, NEW dep, NEW limit \in Nat, NEW from \in Nat,
           NEW most \in Nat, NEW d, Decodes(T, pos, dep, limit, from, most, d),
           EndsHere(T, dep, limit, most, Len(d.data), from + Len(d.data))
    PROVE  Decodes(T, pos, dep, limit, from, most, Stop(d)) /\ Progress(d, Stop(d), most)
<1>1. d \in [stack : Seq(Place(pos)), data : Seq(Nat)] /\ Len(d.data) <= most
      /\ Yielded(T, dep, limit, from, d.data)
  BY DEF Decodes
<1>2. Stop(d).stack = <<>> /\ Stop(d).data = d.data /\ Stop(d) \in [stack : Seq(Place(pos)), data : Seq(Nat)]
  <2>1. Stop(d) = [stack |-> <<>>, data |-> d.data]
    BY <1>1 DEF Stop
  <2>2. <<>> \in Seq(Place(pos)) /\ d.data \in Seq(Nat)
    BY <1>1
  <2> QED BY <2>1, <2>2
<1> QED BY <1>1, <1>2 DEF Decodes, Progress

LEMMA YieldDecodes ==
    ASSUME NEW o, NEW T, NEW pos, NEW dep, ReadsAs(o, T, pos, dep), NEW limit \in Nat, NEW from \in Nat,
           NEW most \in Nat, NEW d, Decodes(T, pos, dep, limit, from, most, d),
           d.stack # <<>>, Len(d.data) # most,
           NEW bytes \in Nat, Top(d).at + bytes \in DOMAIN pos, pos[Top(d).at + bytes] = pos[Top(d).at] + 1,
           NEW v, v = T[pos[Top(d).at] + 1], dep[pos[Top(d).at] + 1] = 0,
           NEW d2, d2 = YieldAt(d, bytes, v)
    PROVE  Decodes(T, pos, dep, limit, from, most, d2) /\ Progress(d, d2, most)
<1> DEFINE st == Popped(d.stack)
           N == Len(st)
           m == Len(d.data)
           t == from + m
           rest == most - m
           top == Top(d)
           q == top.at + bytes
           left == IF top.left = WITHOUT_END THEN WITHOUT_END ELSE top.left - 1
           st2 == Append(SubSeq(st, 1, N - 1), [at |-> q, left |-> left])
           data2 == Append(d.data, v)
<1>1. /\ N \in Nat /\ N > 0 /\ N <= limit /\ InOrder(T, pos, dep, st, t, rest) /\ top = st[N]
      /\ top.left # 0 /\ pos[top.at] \in 0 .. Len(T) /\ Len(T) \in Nat /\ st \in Seq(Place(pos))
      /\ d.data \in Seq(Nat) /\ m \in Nat /\ rest \in Nat /\ rest > 0
  BY LiveFacts DEF Height
<1>2. PICK sg, rm : Stands(T, pos, dep, st, sg, rm, t, rest)
  BY <1>1 DEF InOrder
<1>3. q \in DOMAIN pos /\ pos[q] = pos[top.at] + 1 /\ pos[q] \in 0 .. Len(T)
  BY DEF ReadsAs
<1>4. d2.stack = st2 /\ d2.data = data2 /\ d2 = [stack |-> st2, data |-> data2]
  BY DEF YieldAt, Beyond, Below
<1>5. v = T[pos[top.at] + 1] /\ dep[pos[top.at] + 1] = 0
  OBVIOUS
<1>6. T[t + 1] = v /\ t + 1 <= Len(T) /\ dep[t + 1] = N - 1
  <2>1. \A j \in Nat : /\ j > 0 /\ pos[st[Len(st)].at] + j <= Len(T)
                       /\ (Len(st) > 1 => j <= st[Len(st)].left)
                       => /\ T[t + j] = T[pos[st[Len(st)].at] + j] /\ t + j <= Len(T)
                          /\ dep[t + j] = dep[pos[st[Len(st)].at] + j] + (Len(st) - 1)
    <3> HIDE DEF st, t, rest
    <3> QED BY <1>1, <1>2, TopFacts
  <2>2. Len(st) > 1 => 1 <= st[Len(st)].left
    <3>1. Len(st) > 1 => st[Len(st)].left \in Nat
      <4> HIDE DEF st, t, rest
      <4> QED BY <1>1, <1>2, TopFacts
    <3> HIDE DEF st
    <3> QED BY <3>1, <1>1
  <2>3. pos[st[Len(st)].at] + 1 <= Len(T)
    <3> HIDE DEF q
    <3> QED BY <1>1, <1>3
  <2>4. 1 \in Nat /\ 1 > 0
    OBVIOUS
  <2>5. T[t + 1] = T[pos[top.at] + 1] /\ t + 1 <= Len(T) /\ dep[t + 1] = dep[pos[top.at] + 1] + (N - 1)
    <3> HIDE DEF st, t, rest, top
    <3> QED BY <2>1, <2>2, <2>3, <2>4, <1>1
  <2> HIDE DEF N, t
  <2> QED BY <2>5, <1>1, <1>5
<1>7. InOrder(T, pos, dep, st2, t + 1, rest - 1)
  <2>1. left = IF st[Len(st)].left = WITHOUT_END THEN WITHOUT_END ELSE st[Len(st)].left - 1
    BY <1>1
  <2>2. pos[q] = pos[st[Len(st)].at] + 1
    BY <1>1, <1>3
  <2> HIDE DEF left, q, st, t, rest
  <2> QED BY <2>1, <2>2, <1>1, <1>2, <1>3, YieldStands
<1>8. /\ st2 \in Seq(Place(pos)) /\ Len(st2) = N
  <2>1. /\ SubSeq(st, 1, N - 1) \in Seq(Place(pos)) /\ Len(SubSeq(st, 1, N - 1)) = N - 1
    <3> HIDE DEF st
    <3> QED BY <1>1, ButLast
  <2>2. [at |-> q, left |-> left] \in Place(pos)
    <3>1. left \in Int
      <4>1. top.left \in Int
        BY LiveFacts
      <4> HIDE DEF top
      <4> QED BY <4>1 DEF WITHOUT_END
    <3> HIDE DEF left, q
    <3> QED BY <3>1, <1>3 DEF Place
  <2> HIDE DEF st, q, left
  <2>3. N - 1 + 1 = N
    BY <1>1
  <2> QED BY <2>1, <2>2, <2>3
<1>9. \/ Popped(st2) = <<>> /\ rest - 1 = 0
      \/ Len(Popped(st2)) > 0 /\ Len(Popped(st2)) \in Nat
  <2>1. t + 1 \in Nat /\ rest - 1 \in Nat
    <3> HIDE DEF m
    <3> QED BY <1>1
  <2> HIDE DEF st2, t, rest
  <2>2. \/ Popped(st2) = <<>> /\ rest - 1 = 0
        \/ Len(Popped(st2)) > 0 /\ Len(Popped(st2)) <= Len(st2) /\ InOrder(T, pos, dep, Popped(st2), t + 1, rest - 1)
    BY <2>1, <1>7, <1>8, Live
  <2>3. ASSUME InOrder(T, pos, dep, Popped(st2), t + 1, rest - 1) PROVE Len(Popped(st2)) \in Nat
    BY <2>3 DEF InOrder, Stands
  <2> QED BY <2>2, <2>3
<1>10. v \in Nat /\ data2 \in Seq(Nat) /\ Len(data2) = m + 1 /\ data2[m + 1] = v
       /\ \A j \in 1 .. m : data2[j] = d.data[j]
  <2>1. T \in Seq(Nat)
    BY DEF ReadsAs
  <2>2. pos[top.at] + 1 \in 1 .. Len(T)
    <3> HIDE DEF q, top
    <3> QED BY <1>1, <1>3
  <2>3. v \in Nat
    <3> HIDE DEF top
    <3> QED BY <2>1, <2>2, <1>5
  <2> DEFINE data == d.data
  <2>4. data \in Seq(Nat) /\ m = Len(data)
    BY <1>1
  <2> HIDE DEF data
  <2>5. /\ Append(data, v) \in Seq(Nat) /\ Len(Append(data, v)) = Len(data) + 1
        /\ \A j \in 1 .. Len(data) : Append(data, v)[j] = data[j]
        /\ Append(data, v)[Len(data) + 1] = v
    BY <2>3, <2>4, AppendProperties
  <2> QED BY <2>3, <2>5 DEF data
<1>11. Yielded(T, dep, limit, from, data2)
  <2>1. Yielded(T, dep, limit, from, d.data)
    BY DEF Decodes
  <2>2. from + Len(data2) <= Len(T)
    <3>1. from + (m + 1) = t + 1
      BY <1>1
    <3> HIDE DEF data2, t, m
    <3> QED BY <3>1, <1>6, <1>10
  <2>3. ASSUME NEW j \in 1 .. m + 1 PROVE data2[j] = T[from + j] /\ dep[from + j] < limit
    <3>1. CASE j = m + 1
      <4>1. from + j = t + 1
        BY <3>1, <1>1
      <4>2. data2[j] = v
        BY <3>1, <1>10
      <4>3. N - 1 < limit
        <5> HIDE DEF N
        <5> QED BY <1>1
      <4> HIDE DEF data2, t, N
      <4> QED BY <4>1, <4>2, <4>3, <1>6
    <3>2. CASE j # m + 1
      <4>1. j \in 1 .. m
        <5> HIDE DEF m
        <5> QED BY <3>2, <1>1
      <4>2. data2[j] = d.data[j]
        BY <4>1, <1>10
      <4>3. d.data[j] = T[from + j] /\ dep[from + j] < limit
        BY <4>1, <2>1 DEF Yielded
      <4> HIDE DEF data2
      <4> QED BY <4>2, <4>3
    <3> QED BY <3>1, <3>2
  <2> HIDE DEF data2, m
  <2> QED BY <2>2, <2>3, <1>10 DEF Yielded
<1>12. Decodes(T, pos, dep, limit, from, most, d2)
  <2>1. d2 \in [stack : Seq(Place(pos)), data : Seq(Nat)]
    <3> HIDE DEF st2, data2
    <3> QED BY <1>4, <1>8, <1>10
  <2>2. Len(d2.data) = m + 1 /\ m + 1 <= most /\ from + (m + 1) = t + 1 /\ most - (m + 1) = rest - 1
    <3>1. Len(d2.data) = m + 1
      BY <1>4, <1>10
    <3> HIDE DEF m
    <3> QED BY <3>1, <1>1
  <2> HIDE DEF m, t, rest, st2, data2, N
  <2>3. Len(d2.stack) > 0 /\ Len(d2.stack) <= limit
    BY <1>1, <1>4, <1>8
  <2>4. InOrder(T, pos, dep, d2.stack, from + Len(d2.data), most - Len(d2.data))
    BY <2>2, <1>4, <1>7
  <2> QED BY <2>1, <2>2, <2>3, <2>4, <1>4, <1>11 DEF Decodes
<1>13. Progress(d, d2, most)
  <2>1. Len(d2.data) = m + 1
    BY <1>4, <1>10
  <2>2. Height(d2) = Len(Popped(st2))
    BY <1>4 DEF Height
  <2>3. rest - 1 = 0 => m + 1 = most
    <3> HIDE DEF m
    <3> QED BY <1>1
  <2>4. Len(<<>>) = 0
    OBVIOUS
  <2> HIDE DEF m, rest, st2
  <2> QED BY <2>1, <2>2, <2>3, <2>4, <1>9 DEF Progress, m
<1> QED BY <1>12, <1>13

LEMMA PushDecodes ==
    ASSUME NEW o, NEW T, NEW pos, NEW dep, ReadsAs(o, T, pos, dep), NEW limit \in Nat, NEW from \in Nat,
           NEW most \in Nat, NEW d, Decodes(T, pos, dep, limit, from, most, d),
           d.stack # <<>>, Len(d.data) # most, Height(d) < limit,
           NEW n \in Nat, n > 0, Top(d).at + 2 \in DOMAIN pos, pos[Top(d).at + 2] = pos[Top(d).at] + n,
           NEW back, NEW w \in DOMAIN pos, w = Top(d).at - back, pos[w] + n <= pos[Top(d).at],
           RepeatsDeeper(T, dep, pos[Top(d).at], pos[w], n),
           NEW d2, d2 = Follow(d, n, back)
    PROVE  Decodes(T, pos, dep, limit, from, most, d2) /\ Progress(d, d2, most) /\ Clipped(Top(d), n) \in Nat
<1> DEFINE st == Popped(d.stack)
           N == Len(st)
           m == Len(d.data)
           t == from + m
           rest == most - m
           top == Top(d)
           q == top.at + 2
           clipped == Clipped(top, n)
           left == IF top.left = WITHOUT_END THEN WITHOUT_END ELSE top.left - clipped
           b == SubSeq(st, 1, N - 1)
           e == [at |-> q, left |-> left]
           f == [at |-> w, left |-> clipped]
           st2 == b \o <<e, f>>
<1>1. /\ N \in Nat /\ N > 0 /\ N < limit /\ InOrder(T, pos, dep, st, t, rest) /\ top = st[N]
      /\ top.left # 0 /\ top.left \in Int /\ st \in Seq(Place(pos))
      /\ d.data \in Seq(Nat) /\ m \in Nat /\ rest \in Nat /\ rest > 0 /\ d = [stack |-> d.stack, data |-> d.data]
  BY LiveFacts DEF Height
<1>2. PICK sg, rm : Stands(T, pos, dep, st, sg, rm, t, rest)
  BY <1>1 DEF InOrder
<1>3. q \in DOMAIN pos /\ pos[q] = pos[top.at] + n
  OBVIOUS
<1>4. d2.stack = st2 /\ d2.data = d.data /\ d2 = [stack |-> st2, data |-> d.data]
  BY <1>1 DEF Follow, Beyond, Below
<1>5. /\ clipped = (IF top.left # WITHOUT_END /\ n > top.left THEN top.left ELSE n)
      /\ RepeatsDeeper(T, dep, pos[top.at], pos[w], n)
      /\ pos[w] + n <= pos[top.at]
  BY DEF Clipped
<1>6. clipped \in Nat /\ clipped > 0 /\ InOrder(T, pos, dep, st2, t, rest)
  <2>1. left = IF st[Len(st)].left = WITHOUT_END THEN WITHOUT_END ELSE st[Len(st)].left - clipped
    BY <1>1
  <2>2. pos[q] = pos[st[Len(st)].at] + n
    BY <1>1, <1>3
  <2>3. pos[w] + n <= pos[st[Len(st)].at]
        /\ RepeatsDeeper(T, dep, pos[st[Len(st)].at], pos[w], n)
    BY <1>1, <1>5
  <2>4. clipped = (IF st[Len(st)].left # WITHOUT_END /\ n > st[Len(st)].left THEN st[Len(st)].left ELSE n)
    BY <1>1, <1>5
  <2>5. st[Len(st)].left # 0
    BY <1>1
  <2> HIDE DEF left, q, st, t, rest, clipped, top
  <2>6. /\ clipped \in Nat /\ clipped > 0
        /\ InOrder(T, pos, dep, Pushed(st, q, left, w, clipped), t, rest)
    BY <2>1, <2>2, <2>3, <2>4, <2>5, <1>1, <1>2, <1>3, PushStands
  <2> QED BY <2>6 DEF Pushed
<1>7. /\ st2 \in Seq(Place(pos)) /\ Len(st2) = N + 1 /\ st2[N + 1] = f
  <2>1. b \in Seq(Place(pos)) /\ Len(b) = N - 1
    <3> HIDE DEF st
    <3> QED BY <1>1, ButLast
  <2>2. e \in Place(pos) /\ f \in Place(pos)
    <3>1. left \in Int
      <4> HIDE DEF top, clipped
      <4> QED BY <1>1, <1>6 DEF WITHOUT_END
    <3> HIDE DEF left, q, clipped
    <3> QED BY <3>1, <1>3, <1>6 DEF Place
  <2> DEFINE P == Place(pos)
  <2> HIDE DEF b, e, f, P
  <2>3. b \in Seq(P) /\ e \in P /\ f \in P
    BY <2>1, <2>2 DEF P
  <2>4. /\ st2 \in Seq(P) /\ Len(st2) = Len(b) + 2 /\ st2[Len(b) + 2] = f
    BY <2>3, TwoAppended
  <2>5. Len(b) + 2 = N + 1
    <3> HIDE DEF N
    <3> QED BY <2>1, <1>1
  <2> HIDE DEF st2, N
  <2> QED BY <2>4, <2>5 DEF P
<1>8. Len(Popped(st2)) = N + 1
  <2>1. st2[Len(st2)].left # 0
    <3> HIDE DEF st2, N, clipped
    <3> QED BY <1>6, <1>7
  <2>2. st2 \in Seq([at : DOMAIN pos, left : Int]) /\ Len(st2) > 0
    <3> HIDE DEF st2, N
    <3> QED BY <1>1, <1>7 DEF Place
  <2>3. Len(Popped(st2)) = Len(st2)
    <3> HIDE DEF st2
    <3> QED BY <2>1, <2>2, KeepsAll
  <2> QED BY <2>3, <1>7
<1>9. Decodes(T, pos, dep, limit, from, most, d2)
  <2>1. d2 \in [stack : Seq(Place(pos)), data : Seq(Nat)]
    <3> HIDE DEF st2
    <3> QED BY <1>1, <1>4, <1>7
  <2>2. Len(d.data) <= most /\ Yielded(T, dep, limit, from, d.data)
    BY DEF Decodes
  <2>3. Len(d2.stack) > 0 /\ Len(d2.stack) <= limit
    <3> HIDE DEF st2, N
    <3> QED BY <1>1, <1>4, <1>7
  <2>4. InOrder(T, pos, dep, d2.stack, from + Len(d2.data), most - Len(d2.data))
    <3> HIDE DEF st2
    <3> QED BY <1>4, <1>6
  <2> HIDE DEF st2
  <2> QED BY <2>1, <2>2, <2>3, <2>4, <1>4 DEF Decodes
<1>10. Progress(d, d2, most)
  <2>1. Height(d2) = N + 1
    <3> HIDE DEF st2
    <3> QED BY <1>4, <1>8 DEF Height
  <2> HIDE DEF st2
  <2> QED BY <2>1, <1>4 DEF Progress, Height
<1> QED BY <1>6, <1>9, <1>10

\* Every step of a decoder yields of the text, or ends where it has to.
LEMMA StepDecodes ==
    ASSUME NEW o, NEW T, NEW pos, NEW dep, ReadsAs(o, T, pos, dep), NEW limit \in Nat, NEW from \in Nat,
           NEW most \in Nat, NEW d, Decodes(T, pos, dep, limit, from, most, d),
           d.stack # <<>>, Len(d.data) # most
    PROVE  /\ Decodes(T, pos, dep, limit, from, most, Step(o, limit, d))
           /\ Progress(d, Step(o, limit, d), most)
<1> DEFINE top == Top(d)
           p == top.at
           m == Len(d.data)
           t == from + m
           here == o[top.at + 1]
           operand == o[top.at + 2].n
<1>1. /\ Popped(d.stack) # <<>> /\ Height(d) \in Nat /\ Height(d) > 0
      /\ top \in Spot /\ top.left # 0 /\ p \in DOMAIN pos /\ pos[p] \in 0 .. Len(T)
      /\ Len(T) \in Nat /\ m \in Nat /\ top = Popped(d.stack)[Height(d)] /\ top.left \in Int /\ p \in Nat
      /\ InOrder(T, pos, dep, Popped(d.stack), t, most - m)
  <2>1. top \in Spot
    BY LiveFacts
  <2>2. top.at \in Nat
    BY <2>1 DEF Spot
  <2> QED BY <2>1, <2>2, LiveFacts
<1>2. /\ Len(o) \in Nat /\ DOMAIN pos \subseteq 0 .. Len(o) /\ pos[Len(o)] = Len(T)
      /\ dep \in [1 .. Len(T) -> Nat]
      /\ p # Len(o) => \/ IsLow(o, T, pos, dep, p)
                       \/ IsEscape(o, T, pos, dep, p)
                       \/ IsReference(o, T, pos, dep, p)
  BY <1>1 DEF ReadsAs
<1>3. /\ Height(d) = 1 => t = pos[p]
      /\ Height(d) > 1 => top.left \in Nat /\ pos[p] + top.left <= Len(T)
      /\ \A j \in Nat : /\ j > 0 /\ pos[p] + j <= Len(T)
                        /\ (Height(d) > 1 => j <= top.left)
                        => /\ t + j <= Len(T)
                           /\ dep[t + j] = dep[pos[p] + j] + (Height(d) - 1)
  <2> DEFINE st == Popped(d.stack)
             rest == most - m
  <2>1. PICK sg, rm : Stands(T, pos, dep, st, sg, rm, t, rest)
    BY <1>1 DEF InOrder
  <2>2. top = st[Len(st)] /\ Height(d) = Len(st) /\ st[Len(st)].left # 0
    BY <1>1 DEF Height
  <2> HIDE DEF st, t, rest
  <2>3. /\ sg[Len(st)] = pos[st[Len(st)].at] /\ sg[1] = t
        /\ Len(st) > 1 => st[Len(st)].left \in Nat /\ pos[st[Len(st)].at] + st[Len(st)].left <= Len(T)
    <3>1. sg[1] = t
      BY <2>1, StandsFacts
    <3>2. sg[Len(st)] = pos[st[Len(st)].at]
      BY <2>1, <2>2, TopFacts
    <3>3. Len(st) > 1 => st[Len(st)].left \in Nat /\ pos[st[Len(st)].at] + st[Len(st)].left <= Len(T)
      BY <2>1, <2>2, TopFacts
    <3> QED BY <3>1, <3>2, <3>3
  <2>4. \A j \in Nat : /\ j > 0 /\ pos[st[Len(st)].at] + j <= Len(T)
                       /\ (Len(st) > 1 => j <= st[Len(st)].left)
                       => /\ T[t + j] = T[pos[st[Len(st)].at] + j] /\ t + j <= Len(T)
                          /\ dep[t + j] = dep[pos[st[Len(st)].at] + j] + (Len(st) - 1)
    BY <2>1, <2>2, TopFacts
  <2> HIDE DEF top
  <2> QED BY <2>2, <2>3, <2>4
<1>4. CASE p = Len(o)
  <2>1. Step(o, limit, d) = Stop(d)
    <3>1. top.at >= Len(o)
      BY <1>2, <1>4
    <3> QED BY <3>1, <1>1, StepFacts
  <2>2. t = Len(T)
    <3>1. Height(d) = 1 \/ Height(d) > 1
      BY <1>1
    <3> HIDE DEF t, top
    <3> QED BY <3>1, <1>1, <1>2, <1>3, <1>4
  <2>3. EndsHere(T, dep, limit, most, m, t)
    BY <2>2 DEF EndsHere
  <2> QED BY <2>1, <2>3, StopDecodes
<1>5. CASE p # Len(o)
  <2>1. ~(top.at >= Len(o))
    <3> HIDE DEF top
    <3> QED BY <1>1, <1>2, <1>5
  <2>2. CASE IsLow(o, T, pos, dep, p)
    <3>1. here.tag = "low" /\ p + 1 \in DOMAIN pos /\ pos[p + 1] = pos[p] + 1
          /\ T[pos[p] + 1] = here.n /\ dep[pos[p] + 1] = 0
      BY <2>2 DEF IsLow
    <3>2. Step(o, limit, d) = YieldAt(d, 1, here.n)
      <4> QED BY <2>1, <3>1, <1>1, StepFacts
    <3> HIDE DEF here
    <3> QED BY <3>1, <3>2, YieldDecodes
  <2>3. CASE IsEscape(o, T, pos, dep, p)
    <3>1. here.tag = "escape" /\ p + 2 \in DOMAIN pos /\ pos[p + 2] = pos[p] + 1
          /\ T[pos[p] + 1] = HighBit + operand /\ dep[pos[p] + 1] = 0
      BY <2>3 DEF IsEscape
    <3>2. Step(o, limit, d) = YieldAt(d, 2, HighBit + operand)
      <4> QED BY <2>1, <3>1, <1>1, StepFacts
    <3> DEFINE v == HighBit + operand
    <3>3. v = T[pos[p] + 1]
      BY <3>1
    <3> HIDE DEF v
    <3> QED BY <3>1, <3>2, <3>3, YieldDecodes DEF v
  <2>4. CASE IsReference(o, T, pos, dep, p)
    <3> DEFINE n == here.n + 3
               w == p - operand
    <3>1. /\ here.tag = "reference" /\ p + 2 \in DOMAIN pos /\ w \in DOMAIN pos
          /\ n \in Nat /\ n > 0 /\ pos[p + 2] = pos[p] + n /\ pos[w] + n <= pos[p]
          /\ RepeatsDeeper(T, dep, pos[p], pos[w], n)
      BY <2>4 DEF IsReference
    <3>2. CASE Height(d) >= limit
      <4>1. Step(o, limit, d) = Stop(d)
        <5> QED BY <2>1, <3>1, <3>2, <1>1, StepFacts
      <4>2. pos[p] + 1 <= Len(T) /\ pos[w] + 1 \in 1 .. Len(T)
        <5>1. pos[p + 2] \in 0 .. Len(T) /\ pos[w] \in 0 .. Len(T)
          BY <3>1 DEF ReadsAs
        <5> DEFINE x == pos[p]
                   y == pos[w]
                   z == pos[p + 2]
                   l == Len(T)
        <5>2. /\ x \in 0 .. l /\ y \in 0 .. l /\ z \in 0 .. l /\ n \in Nat /\ n > 0 /\ z = x + n
              /\ y + n <= x /\ l \in Nat
          BY <5>1, <3>1, <1>1
        <5> HIDE DEF n, x, y, z, l
        <5>3. x + 1 <= l /\ y + 1 \in 1 .. l
          BY <5>2
        <5> QED BY <5>3 DEF x, y, l
      <4>3. t + 1 <= Len(T) /\ dep[t + 1] = dep[pos[p] + 1] + (Height(d) - 1)
        <5>1. Height(d) > 1 => 1 <= top.left
          <6> HIDE DEF top
          <6> QED BY <1>1, <1>3
        <5>2. 1 \in Nat /\ 1 > 0
          OBVIOUS
        <5> HIDE DEF t, top
        <5> QED BY <5>1, <5>2, <4>2, <1>3
      <4>4. dep[pos[p] + 1] = dep[pos[w] + 1] + 1 /\ dep[pos[w] + 1] \in Nat
        <5>1. 1 \in 1 .. n
          <6> HIDE DEF n
          <6> QED BY <3>1
        <5>2. dep[pos[w] + 1] \in Nat
          BY <4>2, <1>2
        <5> HIDE DEF w, n, top
        <5> QED BY <5>1, <5>2, <3>1 DEF RepeatsDeeper
      <4>5. dep[t + 1] >= limit
        <5> DEFINE x == dep[pos[w] + 1]
        <5>1. dep[t + 1] = (x + 1) + (Height(d) - 1) /\ x \in Nat
          BY <4>3, <4>4
        <5> HIDE DEF x, t
        <5> QED BY <5>1, <1>1, <3>2
      <4>6. t < Len(T)
        <5>1. t \in Nat
          BY <1>1
        <5> HIDE DEF t
        <5> QED BY <5>1, <4>3, <1>1
      <4>7. EndsHere(T, dep, limit, most, m, t)
        BY <4>5, <4>6 DEF EndsHere
      <4> QED BY <4>1, <4>7, StopDecodes
    <3>3. CASE ~(Height(d) >= limit)
      <4> DEFINE d3 == Follow(d, n, operand)
      <4>1. Decodes(T, pos, dep, limit, from, most, d3) /\ Progress(d, d3, most) /\ Clipped(top, n) \in Nat
        <5>1. Height(d) < limit
          BY <3>3, <1>1
        <5>2. w = Top(d).at - operand
          OBVIOUS
        <5> HIDE DEF n, w
        <5> QED BY <3>1, <5>1, <5>2, PushDecodes
      <4>2. Step(o, limit, d) = d3
        <5> QED BY <2>1, <3>1, <3>3, <4>1, <1>1, StepFacts
      <4> HIDE DEF d3
      <4> QED BY <4>1, <4>2
    <3> QED BY <3>2, <3>3
  <2> QED BY <2>2, <2>3, <2>4, <1>2, <1>5
<1> QED BY <1>4, <1>5

\* The states of a decoder, one after the other.
Turn(o, limit, most, d) == IF d.stack = <<>> \/ Len(d.data) = most THEN d ELSE Step(o, limit, d)
Start(at, left) == [stack |-> <<[at |-> at, left |-> left]>>, data |-> <<>>]
Turns(limit, most) == (most + 1) * (limit + 1)
Runs(f, o, limit, most, start) == f[0] = start /\ \A n \in Nat : f[n + 1] = Turn(o, limit, most, f[n])

LEMMA DecodedIs ==
    ASSUME NEW o, NEW limit \in Nat, NEW most \in Nat, NEW at, NEW left, NEW S,
           Start(at, left) \in S, \A d \in S : Turn(o, limit, most, d) \in S
    PROVE  \E f \in [Nat -> S] : /\ Runs(f, o, limit, most, Start(at, left))
                                /\ Decoded(o, limit, at, left, most) = f[Turns(limit, most)].data
<1> DEFINE start == Start(at, left)
           nxt == [d \in S |-> Turn(o, limit, most, d)]
           N == Turns(limit, most)
<1>1. N \in Nat
  BY DEF Turns
<1>2. nxt \in [S -> S] /\ (\A d \in S : nxt[d] = Turn(o, limit, most, d)) /\ start \in S
  OBVIOUS
<1> HIDE DEF nxt, start, N
<1>3. PICK f \in [Nat -> S] : Iterates(f, start, nxt)
  BY <1>2, Iteration
<1>4. f[0] = start /\ \A n \in Nat : f[n + 1] = nxt[f[n]]
  <2>1. f = [n \in Nat |-> IF n = 0 THEN start ELSE nxt[f[n - 1]]]
    BY <1>3 DEF Iterates
  <2>2. f[0] = start
    BY <2>1
  <2>3. ASSUME NEW n \in Nat PROVE f[n + 1] = nxt[f[n]]
    <3>1. n + 1 \in Nat /\ n + 1 # 0 /\ (n + 1) - 1 = n
      OBVIOUS
    <3> QED BY <3>1, <2>1
  <2> QED BY <2>2, <2>3
<1>5. \A n \in Nat : f[n + 1] = Turn(o, limit, most, f[n])
  BY <1>2, <1>3, <1>4
<1> DEFINE P(g) == g = [n \in 0 .. N |-> IF n = 0 THEN start ELSE Turn(o, limit, most, g[n - 1])]
           g0 == [n \in 0 .. N |-> f[n]]
<1>6. P(g0)
  <2>1. ASSUME NEW n \in 0 .. N PROVE g0[n] = IF n = 0 THEN start ELSE Turn(o, limit, most, g0[n - 1])
    <3>1. CASE n = 0
      BY <3>1, <1>1, <1>4
    <3>2. CASE n # 0
      <4>1. n - 1 \in Nat /\ n - 1 \in 0 .. N /\ (n - 1) + 1 = n
        BY <3>2, <1>1
      <4>2. f[n] = Turn(o, limit, most, f[n - 1])
        BY <4>1, <1>5
      <4> QED BY <3>2, <4>1, <4>2
    <3> QED BY <3>1, <3>2
  <2> QED BY <2>1
<1> DEFINE after == CHOOSE g : P(g)
<1>7. P(after)
  <2> HIDE DEF P, g0
  <2> QED BY <1>6
<1>8. Decoded(o, limit, at, left, most) = after[N].data
  BY DEF Decoded, Turns, Turn, Start, N, start
<1>9. after[0] = start /\ \A n \in 1 .. N : after[n] = Turn(o, limit, most, after[n - 1])
  <2> HIDE DEF after
  <2>1. 0 \in 0 .. N /\ \A n \in 1 .. N : n \in 0 .. N /\ n # 0
    BY <1>1
  <2> QED BY <2>1, <1>7
<1> HIDE DEF after
<1> DEFINE Same == {n \in Nat : n <= N => after[n] = f[n]}
<1>10. 0 \in Same
  BY <1>4, <1>9
<1>11. ASSUME NEW n \in Nat, n \in Same PROVE n + 1 \in Same
  <2>1. ASSUME n + 1 <= N PROVE after[n + 1] = f[n + 1]
    <3>1. n + 1 \in 1 .. N /\ (n + 1) - 1 = n /\ n <= N
      BY <2>1, <1>1
    <3>2. after[n] = f[n]
      BY <3>1, <1>11
    <3>3. after[n + 1] = Turn(o, limit, most, after[n])
      BY <3>1, <1>9
    <3> QED BY <3>2, <3>3, <1>5
  <2> QED BY <2>1
<1>12. Nat \subseteq Same
  <2> HIDE DEF Same
  <2> QED BY <1>10, <1>11, FromZero
<1>13. after[N] = f[N]
  <2>1. N \in Same /\ N <= N
    BY <1>1, <1>12
  <2> QED BY <2>1
<1>14. Runs(f, o, limit, most, start) /\ Decoded(o, limit, at, left, most) = f[N].data
  BY <1>4, <1>5, <1>8, <1>13 DEF Runs
<1> QED BY <1>3, <1>14 DEF start, N

\* At the start.
LEMMA StartDecodes ==
    ASSUME NEW o, NEW T, NEW pos, NEW dep, ReadsAs(o, T, pos, dep), NEW limit \in Nat, limit > 0,
           NEW most \in Nat, NEW p \in DOMAIN pos, NEW left,
           left = WITHOUT_END \/ (left = most /\ pos[p] + most <= Len(T))
    PROVE  Decodes(T, pos, dep, limit, pos[p], most, Start(p, left))
<1> DEFINE st == <<[at |-> p, left |-> left]>>
           t == pos[p]
           sg == [k \in 1 .. 1 |-> t]
           rm == [k \in 1 .. 1 |-> 0]
<1>1. pos[p] \in 0 .. Len(T) /\ Len(T) \in Nat
  BY DEF ReadsAs
<1>2. left \in Int
  BY DEF WITHOUT_END
<1>3. st \in Seq(Place(pos)) /\ Len(st) = 1 /\ st[1].at = p /\ st[1].left = left
  <2>1. [at |-> p, left |-> left] \in Place(pos)
    BY <1>2 DEF Place
  <2> QED BY <2>1
<1>4. Stands(T, pos, dep, st, sg, rm, t, most)
  <2>1. sg \in [1 .. 1 -> Nat] /\ rm \in [1 .. 1 -> Nat] /\ sg[1] = t /\ rm[1] = 0
    BY <1>1
  <2>2. EndsAt(pos, st[1], sg[1], rm[1])
    <3> HIDE DEF sg, rm, st
    <3> QED BY <2>1, <1>1, <1>3 DEF EndsAt
  <2>3. YieldsInAll(T, st[1], rm[1], t, most)
    <3> HIDE DEF sg, rm, st
    <3> QED BY <2>1, <1>1, <1>3 DEF YieldsInAll
  <2> HIDE DEF sg, rm, st
  <2>4. /\ \A k \in 1 .. 1 : EndsAt(pos, st[k], sg[k], rm[k])
        /\ \A k \in 2 .. 1 : RepeatsAt(T, dep, t, k, st[k], sg[k], rm[k], rm[k - 1])
    BY <2>2
  <2>5. /\ st \in Seq(Place(pos)) /\ Len(st) > 0
        /\ sg \in [1 .. Len(st) -> Nat] /\ rm \in [1 .. Len(st) -> Nat]
        /\ rm[Len(st)] = 0
    BY <2>1, <1>3
  <2>6. /\ \A k \in 1 .. Len(st) : EndsAt(pos, st[k], sg[k], rm[k])
        /\ \A k \in 2 .. Len(st) : RepeatsAt(T, dep, t, k, st[k], sg[k], rm[k], rm[k - 1])
    BY <2>4, <1>3
  <2> QED BY <2>1, <2>3, <2>5, <2>6 DEF Stands
<1> DEFINE d == Start(p, left)
<1>5. d = [stack |-> st, data |-> <<>>] /\ d.stack = st /\ d.data = <<>>
  BY DEF Start
<1>6. <<>> \in Seq(Nat) /\ Len(<<>>) = 0
  OBVIOUS
<1> HIDE DEF st
<1>7. d \in [stack : Seq(Place(pos)), data : Seq(Nat)]
  BY <1>3, <1>5, <1>6
<1> HIDE DEF d, sg, rm
<1>8. Yielded(T, dep, limit, t, d.data)
  BY <1>1, <1>5, <1>6 DEF Yielded
<1>9. InOrder(T, pos, dep, d.stack, t + Len(d.data), most - Len(d.data))
  <2>1. t + Len(d.data) = t /\ most - Len(d.data) = most
    BY <1>1, <1>5, <1>6
  <2> QED BY <2>1, <1>4, <1>5 DEF InOrder
<1>10. Len(d.stack) > 0 /\ Len(d.stack) <= limit /\ Len(d.data) <= most
  <2>1. Len(d.stack) = 1 /\ Len(d.data) = 0
    BY <1>3, <1>5, <1>6
  <2> QED BY <2>1
<1>11. Decodes(T, pos, dep, limit, t, most, d)
  BY <1>7, <1>8, <1>9, <1>10 DEF Decodes
<1> QED BY <1>11 DEF d

\* What a decoder has done by a turn: it has ended, or it has a byte or a place to show
\* for every turn.
Advanced(limit, most, n, d) == \/ d.stack = <<>> \/ Len(d.data) = most
                               \/ /\ Height(d) \in 1 .. limit
                                  /\ n + 1 <= Len(d.data) * (limit + 1) + Height(d)

LEMMA TurnAdvances ==
    ASSUME NEW o, NEW T, NEW pos, NEW dep, ReadsAs(o, T, pos, dep), NEW limit \in Nat, NEW from \in Nat,
           NEW most \in Nat, NEW d, Decodes(T, pos, dep, limit, from, most, d), NEW n \in Nat,
           Advanced(limit, most, n, d)
    PROVE  Advanced(limit, most, n + 1, Turn(o, limit, most, d))
<1> DEFINE d2 == Turn(o, limit, most, d)
           m == Len(d.data)
           h == Height(d)
<1>1. CASE d.stack = <<>> \/ Len(d.data) = most
  BY <1>1 DEF Turn, Advanced
<1>2. CASE ~(d.stack = <<>> \/ Len(d.data) = most)
  <2>1. d2 = Step(o, limit, d)
    BY <1>2 DEF Turn
  <2>2. Decodes(T, pos, dep, limit, from, most, d2) /\ Progress(d, d2, most)
    BY <2>1, <1>2, StepDecodes
  <2>3. h \in 1 .. limit /\ n + 1 <= m * (limit + 1) + h /\ m \in Nat
    <3>1. m \in Nat
      BY <1>2, LiveFacts
    <3> QED BY <3>1, <1>2 DEF Advanced
  <2> HIDE DEF d2
  <2>4. CASE d2.stack = <<>> \/ Len(d2.data) = most
    BY <2>4 DEF Advanced, d2
  <2>5. CASE ~(d2.stack = <<>> \/ Len(d2.data) = most)
    <3>1. Height(d2) \in Nat /\ Height(d2) > 0 /\ Height(d2) <= limit
      BY <2>2, <2>5, LiveFacts
    <3>2. CASE d2.data = d.data /\ Height(d2) = h + 1
      <4>1. Len(d2.data) = m
        BY <3>2
      <4> DEFINE c == m * (limit + 1)
      <4>2. c \in Nat
        <5> HIDE DEF m
        <5> QED BY <2>3
      <4>3. n + 1 <= c + h
        BY <2>3
      <4> HIDE DEF h, c
      <4>4. (n + 1) + 1 <= c + Height(d2)
        BY <4>2, <4>3, <3>1, <3>2, <2>3
      <4>5. (n + 1) + 1 <= Len(d2.data) * (limit + 1) + Height(d2)
        BY <4>1, <4>4 DEF c
      <4>6. Height(d2) \in 1 .. limit
        BY <3>1
      <4> QED BY <4>5, <4>6 DEF Advanced, d2
    <3>3. CASE Len(d2.data) = m + 1
      <4> DEFINE c == m * (limit + 1)
                 e == (m + 1) * (limit + 1)
      <4>1. c \in Nat /\ e = c + limit + 1 /\ e \in Nat
        <5> HIDE DEF m
        <5> QED BY <2>3
      <4>2. n + 1 <= c + h
        BY <2>3
      <4> HIDE DEF h, c, e
      <4>3. (n + 1) + 1 <= e + Height(d2)
        BY <4>1, <4>2, <3>1, <2>3
      <4>4. (n + 1) + 1 <= Len(d2.data) * (limit + 1) + Height(d2)
        BY <4>3, <3>3 DEF e
      <4>5. Height(d2) \in 1 .. limit
        BY <3>1
      <4> QED BY <4>4, <4>5 DEF Advanced, d2
    <3> QED BY <2>2, <2>5, <3>2, <3>3 DEF Progress
  <2> QED BY <2>4, <2>5 DEF d2
<1> QED BY <1>1, <1>2

\* What is decoded from a place of the output is of the text there, and nested less deep
\* than the limit; all that was asked for, if none of that is nested deeper.
LEMMA DecodedFacts ==
    ASSUME NEW o, NEW T, NEW pos, NEW dep, ReadsAs(o, T, pos, dep), NEW limit \in Nat, limit > 0,
           NEW most \in Nat, NEW p \in DOMAIN pos, NEW left,
           left = WITHOUT_END \/ (left = most /\ pos[p] + most <= Len(T))
    PROVE  /\ Decoded(o, limit, p, left, most) \in Seq(Nat)
           /\ Len(Decoded(o, limit, p, left, most)) \in Nat
           /\ Len(Decoded(o, limit, p, left, most)) <= most
           /\ Yielded(T, dep, limit, pos[p], Decoded(o, limit, p, left, most))
           /\ (pos[p] + most <= Len(T) /\ \A j \in 1 .. most : dep[pos[p] + j] < limit)
                 => Len(Decoded(o, limit, p, left, most)) = most
<1> DEFINE from == pos[p]
           N == Turns(limit, most)
           S == {d \in [stack : Seq(Place(pos)), data : Seq(Nat)] : Decodes(T, pos, dep, limit, from, most, d)}
           got == Decoded(o, limit, p, left, most)
<1>1. from \in 0 .. Len(T) /\ Len(T) \in Nat /\ from \in Nat /\ dep \in [1 .. Len(T) -> Nat]
  BY DEF ReadsAs
<1> HIDE DEF from
<1>2. Decodes(T, pos, dep, limit, from, most, Start(p, left))
  BY StartDecodes DEF from
<1>3. Start(p, left) \in S
  BY <1>2 DEF Decodes
<1>4. ASSUME NEW d \in S PROVE Turn(o, limit, most, d) \in S
  <2>1. Decodes(T, pos, dep, limit, from, most, d)
    OBVIOUS
  <2>2. CASE d.stack = <<>> \/ Len(d.data) = most
    BY <2>2 DEF Turn
  <2>3. CASE ~(d.stack = <<>> \/ Len(d.data) = most)
    <3>1. Turn(o, limit, most, d) = Step(o, limit, d)
      BY <2>3 DEF Turn
    <3>2. Decodes(T, pos, dep, limit, from, most, Step(o, limit, d))
      BY <2>1, <2>3, <1>1, StepDecodes
    <3> QED BY <3>1, <3>2 DEF Decodes
  <2> QED BY <2>2, <2>3
<1>5. PICK f \in [Nat -> S] : Runs(f, o, limit, most, Start(p, left)) /\ got = f[N].data
  <2> HIDE DEF S
  <2> QED BY <1>3, <1>4, DecodedIs
<1>6. N \in Nat
  BY DEF Turns
<1>7. \A n \in Nat : Decodes(T, pos, dep, limit, from, most, f[n])
  <2>1. \A n \in Nat : f[n] \in S
    BY <1>5
  <2> QED BY <2>1
<1> DEFINE d == f[N]
<1>8. /\ d \in [stack : Seq(Place(pos)), data : Seq(Nat)] /\ Len(d.data) <= most
      /\ Yielded(T, dep, limit, from, d.data) /\ Decodes(T, pos, dep, limit, from, most, d)
  BY <1>6, <1>7 DEF Decodes
<1>9. d.data \in Seq(Nat) /\ Len(d.data) \in Nat
  <2> HIDE DEF d
  <2> DEFINE data == d.data
  <2>1. data \in Seq(Nat)
    BY <1>8
  <2> HIDE DEF data
  <2>2. Len(data) \in Nat
    BY <2>1
  <2> QED BY <2>1, <2>2 DEF data
<1> DEFINE A == {n \in Nat : Advanced(limit, most, n, f[n])}
<1>10. 0 \in A
  <2>1. f[0] = Start(p, left)
    BY <1>5 DEF Runs
  <2> DEFINE d0 == Start(p, left)
  <2>2. CASE d0.stack = <<>> \/ Len(d0.data) = most
    BY <2>1, <2>2 DEF Advanced
  <2>3. CASE ~(d0.stack = <<>> \/ Len(d0.data) = most)
    <3>1. Height(d0) \in Nat /\ Height(d0) > 0 /\ Height(d0) <= limit
      BY <1>1, <1>2, <2>3, LiveFacts
    <3>2. Len(d0.data) = 0
      BY DEF Start
    <3>3. 0 + 1 <= Len(d0.data) * (limit + 1) + Height(d0)
      <4>1. 0 * (limit + 1) = 0
        OBVIOUS
      <4> HIDE DEF d0
      <4> QED BY <3>1, <3>2, <4>1
    <3> HIDE DEF d0
    <3>4. Height(d0) \in 1 .. limit
      BY <3>1
    <3> QED BY <2>1, <3>3, <3>4 DEF Advanced, d0
  <2> QED BY <2>2, <2>3
<1>11. ASSUME NEW n \in Nat, n \in A PROVE n + 1 \in A
  <2>1. f[n + 1] = Turn(o, limit, most, f[n])
    BY <1>5 DEF Runs
  <2>2. Advanced(limit, most, n, f[n]) /\ Decodes(T, pos, dep, limit, from, most, f[n])
    BY <1>7, <1>11
  <2>3. Advanced(limit, most, n + 1, Turn(o, limit, most, f[n]))
    BY <2>2, <1>1, TurnAdvances
  <2> QED BY <2>1, <2>3
<1>12. Nat \subseteq A
  <2> HIDE DEF A
  <2> QED BY <1>10, <1>11, FromZero
<1>13. Advanced(limit, most, N, d)
  BY <1>6, <1>12
<1> HIDE DEF d
<1>14. d.stack = <<>> \/ Len(d.data) = most
  <2> SUFFICES ASSUME d.stack # <<>>, Len(d.data) # most PROVE FALSE
    OBVIOUS
  <2> DEFINE m == Len(d.data)
             c == m * (limit + 1)
             h == Height(d)
  <2>1. h \in 1 .. limit /\ N + 1 <= c + h
    BY <1>13 DEF Advanced
  <2>2. m \in Nat /\ m < most
    BY <1>8, <1>9
  <2>3. N = (most + 1) * (limit + 1)
    BY DEF Turns
  <2> HIDE DEF m, h, N
  <2>4. \E x \in Nat : most = m + 1 + x
    <3>1. most - m - 1 \in Nat /\ most = m + 1 + (most - m - 1)
      BY <2>2
    <3> QED BY <3>1
  <2>5. PICK x \in Nat : most = m + 1 + x
    BY <2>4
  <2>6. N = c + (x + 2) * (limit + 1)
    BY <2>3, <2>5, <2>2
  <2>7. (x + 2) * (limit + 1) = (x + 1) * (limit + 1) + (limit + 1) /\ (x + 1) * (limit + 1) \in Nat /\ c \in Nat
    <3>1. c \in Nat
      BY <2>2
    <3>2. (x + 1) * (limit + 1) \in Nat
      <4> DEFINE a == x + 1
                 k == limit + 1
      <4>1. a \in Nat /\ k \in Nat
        OBVIOUS
      <4> HIDE DEF a, k
      <4>2. a * k \in Nat
        BY <4>1
      <4> QED BY <4>2 DEF a, k
    <3>3. (x + 2) * (limit + 1) = (x + 1) * (limit + 1) + (limit + 1)
      <4> DEFINE k == limit + 1
      <4>1. k \in Nat
        OBVIOUS
      <4> HIDE DEF k
      <4>2. (x + 2) * k = (x + 1) * k + k
        BY <4>1
      <4> QED BY <4>2 DEF k
    <3> QED BY <3>1, <3>2, <3>3
  <2> DEFINE y == (x + 2) * (limit + 1)
             z == (x + 1) * (limit + 1)
  <2>8. N = c + y /\ y = z + (limit + 1) /\ z \in Nat /\ c \in Nat
    BY <2>6, <2>7
  <2> HIDE DEF c, y, z
  <2> QED BY <2>1, <2>8
<1>15. ASSUME from + most <= Len(T), \A j \in 1 .. most : dep[from + j] < limit PROVE Len(d.data) = most
  <2> SUFFICES ASSUME Len(d.data) # most PROVE FALSE
    OBVIOUS
  <2> DEFINE m == Len(d.data)
             t == from + m
  <2>1. d.stack = <<>> /\ EndsHere(T, dep, limit, most, m, t)
    <3>1. d.stack = <<>>
      BY <1>14
    <3>2. ~(Len(d.stack) > 0)
      BY <3>1
    <3> QED BY <3>1, <3>2, <1>8 DEF Decodes
  <2>2. m \in Nat /\ m < most
    BY <1>8, <1>9
  <2>3. m + 1 \in 1 .. most /\ from + (m + 1) = t + 1 /\ t # Len(T) /\ t \in Nat /\ m # most
    <3>1. from + most <= Len(T)
      BY <1>15
    <3> DEFINE l == Len(T)
    <3>2. from + most <= l /\ l \in Nat /\ from \in Nat
      BY <1>1, <3>1
    <3> HIDE DEF m, l
    <3>3. m + 1 \in 1 .. most /\ from + (m + 1) = (from + m) + 1 /\ from + m # l /\ from + m \in Nat /\ m # most
      <4>1. m + 1 \in 1 .. most /\ m # most
        BY <2>2
      <4>2. from + m < from + most /\ from + m \in Nat /\ from + (m + 1) = (from + m) + 1
        BY <2>2, <3>2
      <4> DEFINE a == from + m
                 b == from + most
      <4>3. b \in Nat
        BY <3>2
      <4> HIDE DEF a, b
      <4>4. a # l
        BY <4>2, <4>3, <3>2 DEF a, b
      <4> QED BY <4>1, <4>2, <4>4 DEF a
    <3> QED BY <3>3 DEF l
  <2>4. dep[t + 1] < limit
    <3>1. dep[from + (m + 1)] < limit
      BY <2>3, <1>15
    <3> HIDE DEF t, m
    <3> QED BY <3>1, <2>3
  <2>5. t < Len(T) /\ dep[t + 1] >= limit
    <3> HIDE DEF t, m
    <3> QED BY <2>1, <2>3 DEF EndsHere
  <2>6. dep[t + 1] \in Nat
    <3>1. t + 1 \in 1 .. Len(T)
      <4> HIDE DEF t
      <4> QED BY <2>3, <2>5, <1>1
    <3> HIDE DEF t
    <3> QED BY <3>1, <1>1
  <2> DEFINE x == dep[t + 1]
  <2>7. x < limit /\ x >= limit /\ x \in Nat
    BY <2>4, <2>5, <2>6
  <2> HIDE DEF x
  <2> QED BY <2>7
<1>16. got = d.data
  BY <1>5 DEF d
<1> HIDE DEF got
<1> QED BY <1>8, <1>9, <1>15, <1>16 DEF from, got

-----------------------------------------------------------------------------
(* Compressing (BlobCompression). *)

\* An initial part is as long as there are numbers it is no longer than.
LEMMA CountOfAgreeing ==
    ASSUME NEW L \in Nat, NEW same \in SUBSET (0 .. L), 0 \in same,
           \A n \in same, m \in 0 .. L : m <= n => m \in same
    PROVE  Cardinality(same) - 1 \in same
<1> DEFINE U == same \ {0}
<1>1. \E g \in same : \A n \in same : n <= g
  <2>1. CASE U = {}
    <3>1. \A n \in same : n <= 0
      BY <2>1
    <3> QED BY <3>1
  <2>2. CASE U # {}
    <3>1. U \in SUBSET (1 .. L)
      OBVIOUS
    <3>2. PICK g \in U : \A n \in U : n <= g
      <4> HIDE DEF U
      <4> QED BY <2>2, <3>1, GreatestExists
    <3>3. \A n \in same : n <= g
      BY <3>1, <3>2
    <3> QED BY <3>2, <3>3
  <2> QED BY <2>1, <2>2
<1>2. PICK g \in same : \A n \in same : n <= g
  BY <1>1
<1>3. g \in Nat /\ g \in 0 .. L
  OBVIOUS
<1>4. same = 0 .. g
  <2>1. \A n \in same : n \in 0 .. g
    BY <1>2, <1>3
  <2>2. \A n \in 0 .. g : n \in same
    <3>1. \A n \in 0 .. g : n \in 0 .. L /\ n <= g
      BY <1>3
    <3> QED BY <3>1, <1>2
  <2> QED BY <2>1, <2>2
<1>5. Cardinality(0 .. g) = g + 1
  <2>1. Cardinality(0 .. g) = IF 0 > g THEN 0 ELSE g - 0 + 1
    BY <1>3, FS_Interval
  <2> QED BY <2>1, <1>3
<1>6. Cardinality(same) - 1 = g
  BY <1>3, <1>4, <1>5
<1> QED BY <1>2, <1>6

\* A match is of bytes the decoder yields there, none nested as deep as its stack.
Agrees(T, dep, from, data, done, n) ==
    \A j \in 1 .. n : data[done + j] = T[from + j] /\ dep[from + j] < MaxStack - 1

LEMMA MatchFacts ==
    ASSUME NEW o, NEW T, NEW pos, NEW dep, ReadsAs(o, T, pos, dep), NEW w \in DOMAIN pos,
           NEW data \in Seq(Nat), NEW done \in Nat, done < Len(data)
    PROVE  /\ Match(o, data, done, w) \in Nat /\ Match(o, data, done, w) <= MaxLength
           /\ done + Match(o, data, done, w) <= Len(data)
           /\ pos[w] + Match(o, data, done, w) <= Len(T)
           /\ Agrees(T, dep, pos[w], data, done, Match(o, data, done, w))
<1> DEFINE most == IF Len(data) - done < MaxLength THEN Len(data) - done ELSE MaxLength
           limit == MaxStack - 1
           got == Decoded(o, limit, w, WITHOUT_END, most)
           same == {n \in 0 .. Len(got) : \A k \in 1 .. n : got[k] = data[done + k]}
           n == Cardinality(same) - 1
<1>1. Match(o, data, done, w) = n
  BY DEF Match
<1>2. /\ Len(data) \in Nat /\ most \in Nat /\ most <= MaxLength /\ done + most <= Len(data)
      /\ limit \in Nat /\ limit > 0 /\ MaxLength \in Nat
  <2> DEFINE l == Len(data)
  <2>1. l \in Nat /\ done < l /\ MaxLength \in Nat /\ MaxStack \in Nat /\ MaxStack >= 2
    BY BlobCompressionAssumption
  <2> HIDE DEF l
  <2> QED BY <2>1
<1>3. /\ Len(T) \in Nat /\ pos[w] \in 0 .. Len(T)
  BY DEF ReadsAs
<1> HIDE DEF most, limit
<1>4. /\ Len(got) \in Nat /\ Len(got) <= most /\ Yielded(T, dep, limit, pos[w], got)
  BY <1>2, DecodedFacts
<1> HIDE DEF got
<1>5. n \in same
  <2>1. 0 \in same /\ same \in SUBSET (0 .. Len(got))
    BY <1>4
  <2>2. \A i \in same, m \in 0 .. Len(got) : m <= i => m \in same
    <3> SUFFICES ASSUME NEW i \in same, NEW m \in 0 .. Len(got), m <= i, NEW k \in 1 .. m
                 PROVE  got[k] = data[done + k]
      OBVIOUS
    <3>1. k \in 1 .. i
      BY <1>4
    <3> QED BY <3>1
  <2> HIDE DEF same
  <2> QED BY <2>1, <2>2, <1>4, CountOfAgreeing
<1>6. n \in 0 .. Len(got) /\ \A k \in 1 .. n : got[k] = data[done + k]
  BY <1>5
<1> HIDE DEF same, n
<1>7. n \in Nat /\ n <= Len(got)
  BY <1>4, <1>6
<1>8. n <= MaxLength /\ done + n <= Len(data)
  <2> DEFINE l == Len(data)
             g == Len(got)
  <2>1. l \in Nat /\ g \in Nat /\ g <= most /\ most <= MaxLength /\ done + most <= l /\ n <= g /\ n \in Nat
        /\ most \in Nat /\ MaxLength \in Nat
    BY <1>2, <1>4, <1>7
  <2> HIDE DEF l, g
  <2> QED BY <2>1 DEF l
<1>9. pos[w] + n <= Len(T)
  <2> DEFINE l == Len(T)
             g == Len(got)
             x == pos[w]
  <2>1. l \in Nat /\ g \in Nat /\ n <= g /\ n \in Nat /\ x \in 0 .. l /\ x + g <= l
    BY <1>3, <1>4, <1>7 DEF Yielded
  <2> HIDE DEF l, g, x
  <2>2. x + n <= l
    BY <2>1
  <2> QED BY <2>2 DEF l, x
<1>10. Agrees(T, dep, pos[w], data, done, n)
  <2>1. ASSUME NEW j \in 1 .. n PROVE data[done + j] = T[pos[w] + j] /\ dep[pos[w] + j] < MaxStack - 1
    <3>1. j \in 1 .. Len(got)
      BY <1>4, <1>7
    <3>2. got[j] = T[pos[w] + j] /\ dep[pos[w] + j] < limit
      BY <3>1, <1>4 DEF Yielded
    <3>3. got[j] = data[done + j]
      BY <1>6
    <3> QED BY <3>2, <3>3 DEF limit
  <2> QED BY <2>1 DEF Agrees
<1> QED BY <1>1, <1>7, <1>8, <1>9, <1>10

\* A match found is one at a window, and worth a reference.
LEMMA BestFacts ==
    ASSUME NEW o, NEW data, NEW done, NEW starts2, NEW match \in BestMatch(o, data, done, starts2)
    PROVE  \E w \in starts2 : /\ match[1] = Match(o, data, done, w) /\ match[2] = Len(o) - w
                              /\ match[1] > 2
<1> DEFINE length == [w \in starts2 |-> Match(o, data, done, w)]
           best == {w \in starts2 : /\ length[w] > 2
                                     /\ \A v \in starts2 : \/ length[v] < length[w]
                                                           \/ length[v] = length[w] /\ w <= v}
<1>1. BestMatch(o, data, done, starts2) = {<<length[w], Len(o) - w>> : w \in best}
  BY DEF BestMatch
<1>2. PICK w \in best : match = <<length[w], Len(o) - w>>
  <2> HIDE DEF best, length
  <2> QED BY <1>1
<1>3. w \in starts2 /\ length[w] > 2 /\ length[w] = Match(o, data, done, w)
  OBVIOUS
<1>4. match[1] = length[w] /\ match[2] = Len(o) - w
  <2> HIDE DEF length, best
  <2> QED BY <1>2
<1> QED BY <1>3, <1>4

\* Output and text to which something is appended.
Grows(o, T, pos, dep, o2, T2, pos2, dep2, n) ==
    /\ o2 \in Seq(Token) /\ Len(o2) > Len(o) /\ \A i \in 1 .. Len(o) : o2[i] = o[i]
    /\ T2 \in Seq(Nat) /\ Len(T2) = Len(T) + n /\ dep2 \in [1 .. Len(T2) -> Nat]
    /\ \A i \in 1 .. Len(T) : T2[i] = T[i] /\ dep2[i] = dep[i]
    /\ DOMAIN pos2 = DOMAIN pos \cup {Len(o2)} /\ pos2 \in [DOMAIN pos2 -> 0 .. Len(T2)]
    /\ (\A p \in DOMAIN pos : pos2[p] = pos[p]) /\ pos2[Len(o2)] = Len(T2)
HereIs(o, T, pos, dep, p) == IsLow(o, T, pos, dep, p) \/ IsEscape(o, T, pos, dep, p) \/ IsReference(o, T, pos, dep, p)

LEMMA GrownReads ==
    ASSUME NEW o, NEW T, NEW pos, NEW dep, ReadsAs(o, T, pos, dep), NEW n \in Nat,
           NEW o2, NEW T2, NEW pos2, NEW dep2, Grows(o, T, pos, dep, o2, T2, pos2, dep2, n),
           HereIs(o2, T2, pos2, dep2, Len(o))
    PROVE  ReadsAs(o2, T2, pos2, dep2)
<1>1. /\ o \in Seq(Token) /\ T \in Seq(Nat) /\ dep \in [1 .. Len(T) -> Nat]
      /\ DOMAIN pos \subseteq 0 .. Len(o) /\ pos \in [DOMAIN pos -> 0 .. Len(T)]
      /\ Len(o) \in Nat /\ Len(T) \in Nat
      /\ \A p \in DOMAIN pos : p # Len(o) => HereIs(o, T, pos, dep, p)
  BY DEF ReadsAs, HereIs
<1>2. /\ o2 \in Seq(Token) /\ Len(o2) > Len(o) /\ \A i \in 1 .. Len(o) : o2[i] = o[i]
      /\ T2 \in Seq(Nat) /\ Len(T2) = Len(T) + n /\ dep2 \in [1 .. Len(T2) -> Nat]
      /\ \A i \in 1 .. Len(T) : T2[i] = T[i] /\ dep2[i] = dep[i]
      /\ DOMAIN pos2 = DOMAIN pos \cup {Len(o2)} /\ pos2 \in [DOMAIN pos2 -> 0 .. Len(T2)]
      /\ (\A p \in DOMAIN pos : pos2[p] = pos[p]) /\ pos2[Len(o2)] = Len(T2) /\ Len(o2) \in Nat
  BY DEF Grows
<1>3. ASSUME NEW p \in DOMAIN pos, p # Len(o) PROVE HereIs(o2, T2, pos2, dep2, p)
  <2>1. p \in 0 .. Len(o) /\ pos[p] \in 0 .. Len(T) /\ pos2[p] = pos[p] /\ p \in Nat
    BY <1>1, <1>2
  <2>2. p + 1 \in 1 .. Len(o) /\ o2[p + 1] = o[p + 1]
    <3>1. p + 1 \in 1 .. Len(o)
      BY <2>1, <1>1, <1>3
    <3> QED BY <3>1, <1>2
  <2>3. ASSUME NEW q \in DOMAIN pos PROVE q \in DOMAIN pos2 /\ pos2[q] = pos[q] /\ pos[q] \in 0 .. Len(T) /\ q \in 0 .. Len(o)
    BY <1>1, <1>2
  <2>4. ASSUME p + 2 \in DOMAIN pos PROVE o2[p + 2] = o[p + 2]
    <3>1. p + 2 \in 0 .. Len(o)
      BY <2>3, <2>4
    <3>2. p + 2 \in 1 .. Len(o)
      BY <3>1, <2>1, <1>1
    <3> QED BY <3>2, <1>2
  <2>5. ASSUME NEW q \in DOMAIN pos, pos[q] = pos[p] + 1
        PROVE  T2[pos[p] + 1] = T[pos[p] + 1] /\ dep2[pos[p] + 1] = dep[pos[p] + 1]
    <3>1. pos[p] + 1 \in 1 .. Len(T)
      <4> DEFINE x == pos[p]
                 y == pos[q]
                 l == Len(T)
      <4>1. x \in 0 .. l /\ y \in 0 .. l /\ l \in Nat /\ y = x + 1
        BY <2>1, <2>3, <2>5, <1>1
      <4> HIDE DEF x, y, l
      <4>2. x + 1 \in 1 .. l
        BY <4>1
      <4> QED BY <4>2 DEF x, l
    <3> QED BY <3>1, <1>2
  <2>6. HereIs(o, T, pos, dep, p)
    BY <1>1, <1>3
  <2>7. CASE IsLow(o, T, pos, dep, p)
    <3>1. /\ o[p + 1].tag = "low" /\ p + 1 \in DOMAIN pos /\ pos[p + 1] = pos[p] + 1
          /\ T[pos[p] + 1] = o[p + 1].n /\ dep[pos[p] + 1] = 0
      BY <2>7 DEF IsLow
    <3>2. T2[pos[p] + 1] = T[pos[p] + 1] /\ dep2[pos[p] + 1] = dep[pos[p] + 1]
      BY <3>1, <2>5
    <3>3. p + 1 \in DOMAIN pos2 /\ pos2[p + 1] = pos[p + 1]
      BY <3>1, <2>3
    <3>4. IsLow(o2, T2, pos2, dep2, p)
      BY <3>1, <3>2, <3>3, <2>1, <2>2 DEF IsLow
    <3> QED BY <3>4 DEF HereIs
  <2>8. CASE IsEscape(o, T, pos, dep, p)
    <3>1. /\ o[p + 1].tag = "escape" /\ p + 2 \in DOMAIN pos /\ pos[p + 2] = pos[p] + 1
          /\ T[pos[p] + 1] = HighBit + o[p + 2].n /\ dep[pos[p] + 1] = 0
      BY <2>8 DEF IsEscape
    <3>2. T2[pos[p] + 1] = T[pos[p] + 1] /\ dep2[pos[p] + 1] = dep[pos[p] + 1]
      BY <3>1, <2>5
    <3>3. p + 2 \in DOMAIN pos2 /\ pos2[p + 2] = pos[p + 2] /\ o2[p + 2] = o[p + 2]
      BY <3>1, <2>3, <2>4
    <3>4. IsEscape(o2, T2, pos2, dep2, p)
      BY <3>1, <3>2, <3>3, <2>1, <2>2 DEF IsEscape
    <3> QED BY <3>4 DEF HereIs
  <2>9. CASE IsReference(o, T, pos, dep, p)
    <3> DEFINE k == o[p + 1].n + 3
               w == p - o[p + 2].n
    <3>1. /\ o[p + 1].tag = "reference" /\ p + 2 \in DOMAIN pos /\ w \in DOMAIN pos
          /\ k \in Nat /\ k > 0 /\ pos[p + 2] = pos[p] + k /\ pos[w] + k <= pos[p]
          /\ RepeatsDeeper(T, dep, pos[p], pos[w], k)
      BY <2>9 DEF IsReference
    <3>2. p + 2 \in DOMAIN pos2 /\ pos2[p + 2] = pos[p + 2] /\ o2[p + 2] = o[p + 2]
      BY <3>1, <2>3, <2>4
    <3>3. w \in DOMAIN pos2 /\ pos2[w] = pos[w] /\ pos[w] \in 0 .. Len(T) /\ pos[p + 2] \in 0 .. Len(T)
      <4> HIDE DEF w
      <4> QED BY <3>1, <2>3
    <3>4. k = o2[p + 1].n + 3 /\ w = p - o2[p + 2].n
      BY <3>2, <2>2
    <3> HIDE DEF k, w
    <3>5. RepeatsDeeper(T2, dep2, pos[p], pos[w], k)
      <4> SUFFICES ASSUME NEW j \in 1 .. k
                   PROVE  T2[pos[p] + j] = T2[pos[w] + j] /\ dep2[pos[p] + j] = dep2[pos[w] + j] + 1
        BY DEF RepeatsDeeper
      <4> DEFINE x == pos[p]
                 y == pos[w]
                 z == pos[p + 2]
                 l == Len(T)
      <4>1. x \in 0 .. l /\ y \in 0 .. l /\ z \in 0 .. l /\ l \in Nat /\ z = x + k /\ y + k <= x /\ k \in Nat
        BY <2>1, <3>1, <3>3, <1>1
      <4> HIDE DEF x, y, z, l
      <4>2. x + j \in 1 .. l /\ y + j \in 1 .. l
        BY <4>1
      <4>3. T2[x + j] = T[x + j] /\ T2[y + j] = T[y + j] /\ dep2[x + j] = dep[x + j] /\ dep2[y + j] = dep[y + j]
        BY <4>2, <1>2 DEF l
      <4>4. T[x + j] = T[y + j] /\ dep[x + j] = dep[y + j] + 1
        BY <3>1 DEF RepeatsDeeper, x, y
      <4> QED BY <4>3, <4>4 DEF x, y
    <3>6. IsReference(o2, T2, pos2, dep2, p)
      BY <3>1, <3>2, <3>3, <3>4, <3>5, <2>1, <2>2 DEF IsReference
    <3> QED BY <3>6 DEF HereIs
  <2> QED BY <2>6, <2>7, <2>8, <2>9 DEF HereIs
<1>4. ASSUME NEW p \in DOMAIN pos2, p # Len(o2) PROVE HereIs(o2, T2, pos2, dep2, p)
  <2>1. p \in DOMAIN pos
    BY <1>2, <1>4
  <2> QED BY <2>1, <1>3
<1>5. DOMAIN pos2 \subseteq 0 .. Len(o2)
  <2>1. ASSUME NEW p \in DOMAIN pos PROVE p \in 0 .. Len(o2)
    <3>1. p \in 0 .. Len(o)
      BY <1>1
    <3> QED BY <3>1, <1>1, <1>2
  <2> QED BY <2>1, <1>2
<1> QED BY <1>2, <1>4, <1>5 DEF ReadsAs, HereIs

\* What is appended to the text is n bytes, each given, and none nested as deep as the
\* stack of the decoder.
Grown(o, T, pos, dep, o2, src, n) ==
    \E T2, pos2, dep2 : /\ ReadsAs(o2, T2, pos2, dep2)
                        /\ Grows(o, T, pos, dep, o2, T2, pos2, dep2, n)
                        /\ \A i \in 1 .. n : T2[Len(T) + i] = src[i] /\ dep2[Len(T) + i] < MaxStack

Extends(o, o2) == o2 \in Seq(Token) /\ Len(o2) > Len(o) /\ \A i \in 1 .. Len(o) : o2[i] = o[i]

\* A text, its depths and its places, longer.
LongerText(T, src, n) == [i \in 1 .. Len(T) + n |-> IF i <= Len(T) THEN T[i] ELSE src[i - Len(T)]]
LongerDep(T, dep, depths, n) == [i \in 1 .. Len(T) + n |-> IF i <= Len(T) THEN dep[i] ELSE depths[i - Len(T)]]
LongerPos(pos, at, l) == [p \in DOMAIN pos \cup {at} |-> IF p \in DOMAIN pos THEN pos[p] ELSE l]

Appended(T, T2, dep2, src, depths, n) ==
    \A i \in 1 .. n : T2[Len(T) + i] = src[i] /\ dep2[Len(T) + i] = depths[i]

LEMMA LongerFacts ==
    ASSUME NEW o, NEW T, NEW pos, NEW dep, ReadsAs(o, T, pos, dep), NEW n \in Nat,
           NEW src \in [1 .. n -> Nat], NEW depths \in [1 .. n -> Nat],
           NEW o2, Extends(o, o2),
           NEW T2, T2 = LongerText(T, src, n), NEW dep2, dep2 = LongerDep(T, dep, depths, n),
           NEW pos2, pos2 = LongerPos(pos, Len(o2), Len(T) + n)
    PROVE  /\ Grows(o, T, pos, dep, o2, T2, pos2, dep2, n)
           /\ Appended(T, T2, dep2, src, depths, n)
<1> DEFINE l == Len(T)
<1>1. /\ T \in Seq(Nat) /\ dep \in [1 .. l -> Nat] /\ l \in Nat /\ Len(o) \in Nat /\ Len(o2) \in Nat
      /\ DOMAIN pos \subseteq 0 .. Len(o) /\ pos \in [DOMAIN pos -> 0 .. l] /\ (\A i \in 1 .. l : T[i] \in Nat)
      /\ o2 \in Seq(Token) /\ Len(o2) > Len(o) /\ \A i \in 1 .. Len(o) : o2[i] = o[i]
  BY DEF ReadsAs, Extends
<1>2. T2 = [i \in 1 .. l + n |-> IF i <= l THEN T[i] ELSE src[i - l]]
      /\ dep2 = [i \in 1 .. l + n |-> IF i <= l THEN dep[i] ELSE depths[i - l]]
      /\ pos2 = [p \in DOMAIN pos \cup {Len(o2)} |-> IF p \in DOMAIN pos THEN pos[p] ELSE l + n]
  BY DEF LongerText, LongerPos, LongerDep
<1> HIDE DEF l
<1>3. \A i \in 1 .. l + n : /\ i <= l => i \in 1 .. l
                            /\ ~(i <= l) => i - l \in 1 .. n
  BY <1>1
<1>4. T2 \in [1 .. l + n -> Nat] /\ dep2 \in [1 .. l + n -> Nat]
  BY <1>1, <1>2, <1>3
<1>5. T2 \in Seq(Nat) /\ Len(T2) = l + n
  <2>1. l + n \in Nat
    BY <1>1
  <2> HIDE DEF l
  <2> QED BY <2>1, <1>4, FunctionIsSeq
<1>6. \A i \in 1 .. l : T2[i] = T[i] /\ dep2[i] = dep[i]
  <2>1. \A i \in 1 .. l : i \in 1 .. l + n /\ i <= l
    BY <1>1
  <2> QED BY <2>1, <1>2
<1>7. \A i \in 1 .. n : T2[l + i] = src[i] /\ dep2[l + i] = depths[i]
  <2>1. \A k \in 1 .. l + n : ~(k <= l) => T2[k] = src[k - l] /\ dep2[k] = depths[k - l]
    BY <1>2
  <2>2. ASSUME NEW i \in 1 .. n PROVE T2[l + i] = src[i] /\ dep2[l + i] = depths[i]
    <3> DEFINE k == l + i
    <3>1. k \in 1 .. l + n /\ ~(k <= l) /\ k - l = i
      <4>1. l \in Nat /\ i \in Nat /\ i > 0 /\ i <= n
        BY <1>1
      <4> QED BY <4>1
    <3> HIDE DEF k
    <3>2. T2[k] = src[k - l] /\ dep2[k] = depths[k - l]
      BY <2>1, <3>1
    <3>3. T2[k] = src[i] /\ dep2[k] = depths[i]
      BY <3>1, <3>2
    <3> QED BY <3>3 DEF k
  <2> QED BY <2>2
<1>8. /\ DOMAIN pos2 = DOMAIN pos \cup {Len(o2)} /\ pos2 \in [DOMAIN pos2 -> 0 .. l + n]
      /\ (\A p \in DOMAIN pos : pos2[p] = pos[p]) /\ pos2[Len(o2)] = l + n
  <2>1. Len(o2) \notin DOMAIN pos
    <3>1. Len(o2) \notin 0 .. Len(o)
      BY <1>1
    <3> QED BY <3>1, <1>1
  <2>2. \A p \in DOMAIN pos : pos[p] \in 0 .. l + n
    <3>1. \A p \in DOMAIN pos : pos[p] \in 0 .. l
      BY <1>1
    <3>2. \A x \in 0 .. l : x \in 0 .. l + n
      BY <1>1
    <3> QED BY <3>1, <3>2
  <2>3. l + n \in 0 .. l + n
    BY <1>1
  <2> DEFINE end == l + n
             at == Len(o2)
  <2>4. pos2 = [p \in DOMAIN pos \cup {at} |-> IF p \in DOMAIN pos THEN pos[p] ELSE end]
    BY <1>2
  <2>5. at \notin DOMAIN pos /\ end \in 0 .. end /\ \A p \in DOMAIN pos : pos[p] \in 0 .. end
    BY <2>1, <2>2, <2>3
  <2> HIDE DEF end, at
  <2>6. /\ DOMAIN pos2 = DOMAIN pos \cup {at} /\ (\A p \in DOMAIN pos : pos2[p] = pos[p]) /\ pos2[at] = end
        /\ pos2 = [p \in DOMAIN pos2 |-> pos2[p]]
    BY <2>4, <2>5
  <2>7. pos2 \in [DOMAIN pos2 -> 0 .. end]
    BY <2>5, <2>6
  <2> QED BY <2>6, <2>7 DEF end, at
<1>9. Grows(o, T, pos, dep, o2, T2, pos2, dep2, n)
  BY <1>1, <1>4, <1>5, <1>6, <1>8 DEF Grows, l
<1> QED BY <1>7, <1>9 DEF l, Appended

LEMMA LiteralFacts ==
    ASSUME NEW o \in Seq(Token), NEW b \in Nat
    PROVE  /\ o \o Literal(b) \in Seq(Token) /\ Len(o \o Literal(b)) > Len(o)
           /\ \A i \in 1 .. Len(o) : (o \o Literal(b))[i] = o[i]
           /\ \/ /\ Len(o \o Literal(b)) = Len(o) + 1 /\ (o \o Literal(b))[Len(o) + 1].tag = "low"
                 /\ (o \o Literal(b))[Len(o) + 1].n = b
              \/ /\ Len(o \o Literal(b)) = Len(o) + 2 /\ (o \o Literal(b))[Len(o) + 1].tag = "escape"
                 /\ HighBit + (o \o Literal(b))[Len(o) + 2].n = b
<1>1. CASE b < HighBit
  <2> DEFINE e == [tag |-> "low", n |-> b]
  <2>1. Literal(b) = <<e>> /\ e \in Token /\ e.tag = "low" /\ e.n = b /\ Len(o) \in Nat
    BY <1>1 DEF Literal, Token
  <2> HIDE DEF e
  <2>2. /\ o \o <<e>> \in Seq(Token) /\ Len(o \o <<e>>) = Len(o) + 1
        /\ \A k \in 1 .. Len(o) : (o \o <<e>>)[k] = o[k]
        /\ (o \o <<e>>)[Len(o) + 1] = e
    BY <2>1, OneAppended
  <2>3. Len(o \o <<e>>) > Len(o)
    BY <2>1, <2>2
  <2> QED BY <2>1, <2>2, <2>3
<1>2. CASE ~(b < HighBit)
  <2> DEFINE e == [tag |-> "escape", n |-> 0]
             f == Raw(b - HighBit)
  <2>1. Literal(b) = <<e, f>> /\ e \in Token /\ f \in Token /\ HighBit + f.n = b
    BY <1>2, BlobCompressionAssumption DEF Literal, Token, Raw
  <2>2. e.tag = "escape"
    OBVIOUS
  <2> HIDE DEF e, f
  <2>3. /\ o \o <<e, f>> \in Seq(Token) /\ Len(o \o <<e, f>>) = Len(o) + 2
        /\ \A k \in 1 .. Len(o) : (o \o <<e, f>>)[k] = o[k]
        /\ (o \o <<e, f>>)[Len(o) + 1] = e /\ (o \o <<e, f>>)[Len(o) + 2] = f
    BY <2>1, TwoAppended
  <2>4. Len(o) \in Nat
    OBVIOUS
  <2>5. Len(o \o <<e, f>>) > Len(o)
    BY <2>3, <2>4
  <2> QED BY <2>1, <2>2, <2>3, <2>5
<1> QED BY <1>1, <1>2

\* A byte appended to the output is appended to the text, and is nested in nothing.
LEMMA LiteralReads ==
    ASSUME NEW o, NEW T, NEW pos, NEW dep, ReadsAs(o, T, pos, dep), NEW b \in Nat
    PROVE  Grown(o, T, pos, dep, o \o Literal(b), [i \in 1 .. 1 |-> b], 1)
<1> DEFINE l == Len(T)
           p == Len(o)
           o2 == o \o Literal(b)
           src == [i \in 1 .. 1 |-> b]
           depths == [i \in 1 .. 1 |-> 0]
           T2 == LongerText(T, src, 1)
           dep2 == LongerDep(T, dep, depths, 1)
           pos2 == LongerPos(pos, Len(o2), Len(T) + 1)
<1>1. o \in Seq(Token) /\ p \in DOMAIN pos /\ pos[p] = l /\ p \in Nat /\ l \in Nat
  BY DEF ReadsAs
<1>2. /\ o2 \in Seq(Token) /\ Len(o2) > p
      /\ \A i \in 1 .. p : o2[i] = o[i]
      /\ \/ Len(o2) = p + 1 /\ o2[p + 1].tag = "low" /\ o2[p + 1].n = b
         \/ Len(o2) = p + 2 /\ o2[p + 1].tag = "escape" /\ HighBit + o2[p + 2].n = b
  BY <1>1, LiteralFacts
<1>3. src \in [1 .. 1 -> Nat] /\ depths \in [1 .. 1 -> Nat] /\ src[1] = b /\ depths[1] = 0 /\ 1 \in Nat
  OBVIOUS
<1>4. T2 = LongerText(T, src, 1) /\ dep2 = LongerDep(T, dep, depths, 1) /\ pos2 = LongerPos(pos, Len(o2), Len(T) + 1)
  OBVIOUS
<1> HIDE DEF o2, src, depths, T2, dep2, pos2
<1>5. /\ Grows(o, T, pos, dep, o2, T2, pos2, dep2, 1)
      /\ \A i \in 1 .. 1 : T2[Len(T) + i] = src[i] /\ dep2[Len(T) + i] = depths[i]
  <2>1. Extends(o, o2)
    BY <1>2 DEF Extends, p
  <2>2. Grows(o, T, pos, dep, o2, T2, pos2, dep2, 1) /\ Appended(T, T2, dep2, src, depths, 1)
    BY <2>1, <1>3, <1>4, LongerFacts
  <2> QED BY <2>2 DEF Appended
<1>6. T2[l + 1] = b /\ dep2[l + 1] = 0
  BY <1>5, <1>3
<1>7. pos2[p] = l /\ Len(o2) \in DOMAIN pos2 /\ pos2[Len(o2)] = l + 1
  BY <1>5, <1>1 DEF Grows
<1> HIDE DEF p, l
<1>8. HereIs(o2, T2, pos2, dep2, p)
  <2>1. CASE Len(o2) = p + 1 /\ o2[p + 1].tag = "low" /\ o2[p + 1].n = b
    BY <2>1, <1>6, <1>7 DEF HereIs, IsLow
  <2>2. CASE Len(o2) = p + 2 /\ o2[p + 1].tag = "escape" /\ HighBit + o2[p + 2].n = b
    BY <2>2, <1>6, <1>7 DEF HereIs, IsEscape
  <2> QED BY <2>1, <2>2, <1>2
<1>9. ReadsAs(o2, T2, pos2, dep2)
  BY <1>5, <1>8, <1>3, GrownReads DEF p
<1>10. \A i \in 1 .. 1 : T2[Len(T) + i] = src[i] /\ dep2[Len(T) + i] < MaxStack
  BY <1>5, <1>3, BlobCompressionAssumption
<1>11. Grown(o, T, pos, dep, o2, src, 1)
  BY <1>5, <1>9, <1>10 DEF Grown
<1> QED BY <1>11 DEF o2, src

\* A reference to where what is repeated was written appends it, nested one deeper.
LEMMA ReferenceReads ==
    ASSUME NEW o, NEW T, NEW pos, NEW dep, ReadsAs(o, T, pos, dep),
           NEW w \in DOMAIN pos, NEW n \in Nat, n > 2, pos[w] + n <= Len(T),
           NEW src \in [1 .. n -> Nat],
           \A j \in 1 .. n : src[j] = T[pos[w] + j] /\ dep[pos[w] + j] < MaxStack - 1
    PROVE  Grown(o, T, pos, dep, o \o Reference(n, Len(o) - w), src, n)
<1> DEFINE l == Len(T)
           p == Len(o)
           o2 == o \o Reference(n, Len(o) - w)
           y == pos[w]
           depths == [i \in 1 .. n |-> dep[y + i] + 1]
           T2 == LongerText(T, src, n)
           dep2 == LongerDep(T, dep, depths, n)
           pos2 == LongerPos(pos, Len(o2), Len(T) + n)
<1>1. /\ o \in Seq(Token) /\ p \in DOMAIN pos /\ pos[p] = l /\ p \in Nat /\ l \in Nat /\ y \in Nat /\ w \in Nat
      /\ dep \in [1 .. l -> Nat] /\ y + n <= l
  BY DEF ReadsAs
<1>2. /\ o2 \in Seq(Token) /\ Len(o2) = p + 2
      /\ \A i \in 1 .. p : o2[i] = o[i]
      /\ o2[p + 1].tag = "reference" /\ o2[p + 1].n = n - 3 /\ o2[p + 2].n = p - w
  <2> DEFINE e == [tag |-> "reference", n |-> n - 3]
             f == Raw(p - w)
  <2>0. n - 3 \in Int /\ p - w \in Int
    BY <1>1
  <2>1. Reference(n, Len(o) - w) = <<e, f>> /\ e \in Token /\ f \in Token /\ f.n = p - w
    BY <2>0 DEF Reference, Raw, Token
  <2>2. e.tag = "reference" /\ e.n = n - 3
    OBVIOUS
  <2>3. o2 = o \o <<e, f>>
    BY <2>1
  <2> HIDE DEF e, f, o2
  <2> QED BY <2>1, <2>2, <2>3, <1>1, TwoAppended
<1>3. depths \in [1 .. n -> Nat] /\ \A j \in 1 .. n : depths[j] = dep[y + j] + 1
  <2> HIDE DEF y
  <2>1. \A j \in 1 .. n : y + j \in 1 .. l
    BY <1>1
  <2>2. \A x \in 1 .. l : dep[x] + 1 \in Nat
    <3>1. dep \in [1 .. l -> Nat]
      BY <1>1
    <3> HIDE DEF l
    <3>2. \A x \in 1 .. l : dep[x] \in Nat
      BY <3>1
    <3> QED BY <3>2
  <2>3. \A j \in 1 .. n : dep[y + j] + 1 \in Nat
    BY <2>1, <2>2
  <2> QED BY <2>3
<1>4. T2 = LongerText(T, src, n) /\ dep2 = LongerDep(T, dep, depths, n) /\ pos2 = LongerPos(pos, Len(o2), Len(T) + n)
  OBVIOUS
<1>15. Len(o2) > Len(o)
  <2> HIDE DEF o2
  <2> QED BY <1>2, <1>1
<1> HIDE DEF o2, depths, T2, dep2, pos2
<1>5. /\ Grows(o, T, pos, dep, o2, T2, pos2, dep2, n)
      /\ \A i \in 1 .. n : T2[Len(T) + i] = src[i] /\ dep2[Len(T) + i] = depths[i]
  <2>1. Extends(o, o2)
    BY <1>2, <1>15 DEF Extends, p
  <2>2. Grows(o, T, pos, dep, o2, T2, pos2, dep2, n) /\ Appended(T, T2, dep2, src, depths, n)
    BY <2>1, <1>3, <1>4, LongerFacts
  <2> QED BY <2>2 DEF Appended
<1>6. \A i \in 1 .. n : T2[l + i] = src[i] /\ dep2[l + i] = depths[i]
  BY <1>5
<1>7. /\ pos2[p] = l /\ Len(o2) \in DOMAIN pos2 /\ pos2[Len(o2)] = l + n /\ w \in DOMAIN pos2 /\ pos2[w] = y
      /\ \A i \in 1 .. l : T2[i] = T[i] /\ dep2[i] = dep[i]
  BY <1>5, <1>1 DEF Grows
<1>8. \A j \in 1 .. n : src[j] = T[y + j] /\ dep[y + j] < MaxStack - 1
  OBVIOUS
<1> HIDE DEF p, l, y
<1>9. ASSUME NEW j \in 1 .. n PROVE y + j \in 1 .. l /\ dep[y + j] \in Nat
  BY <1>1
<1>10. RepeatsDeeper(T2, dep2, l, y, n)
  <2> SUFFICES ASSUME NEW j \in 1 .. n PROVE T2[l + j] = T2[y + j] /\ dep2[l + j] = dep2[y + j] + 1
    BY DEF RepeatsDeeper
  <2>1. T2[y + j] = T[y + j] /\ dep2[y + j] = dep[y + j]
    BY <1>7, <1>9
  <2> QED BY <2>1, <1>6, <1>3, <1>8
<1>11. HereIs(o2, T2, pos2, dep2, p)
  <2> DEFINE k == o2[p + 1].n + 3
             v == p - o2[p + 2].n
  <2>1. k = n /\ v = w
    BY <1>1, <1>2
  <2> HIDE DEF k, v
  <2>2. /\ o2[p + 1].tag = "reference" /\ p + 2 \in DOMAIN pos2 /\ v \in DOMAIN pos2
        /\ k \in Nat /\ k > 0 /\ pos2[p + 2] = pos2[p] + k /\ pos2[v] + k <= pos2[p]
        /\ RepeatsDeeper(T2, dep2, pos2[p], pos2[v], k)
    BY <2>1, <1>1, <1>2, <1>7, <1>10
  <2>3. IsReference(o2, T2, pos2, dep2, p)
    BY <2>2 DEF IsReference, k, v
  <2> QED BY <2>3 DEF HereIs
<1>12. ReadsAs(o2, T2, pos2, dep2)
  BY <1>5, <1>11, GrownReads DEF p
<1>13. \A i \in 1 .. n : T2[Len(T) + i] = src[i] /\ dep2[Len(T) + i] < MaxStack
  <2> SUFFICES ASSUME NEW i \in 1 .. n PROVE T2[l + i] = src[i] /\ dep2[l + i] < MaxStack
    BY DEF l
  <2> DEFINE d == dep[y + i]
  <2>1. dep2[l + i] = d + 1 /\ d \in Nat /\ d < MaxStack - 1 /\ T2[l + i] = src[i]
    BY <1>6, <1>3, <1>8, <1>9
  <2> HIDE DEF d
  <2> QED BY <2>1, BlobCompressionAssumption
<1>14. Grown(o, T, pos, dep, o2, src, n)
  BY <1>5, <1>12, <1>13 DEF Grown
<1> QED BY <1>14 DEF o2

-----------------------------------------------------------------------------
(* The blobs of a module. *)

\* Every byte of a reference fits, and its second is there.
Fits(o) == \A i \in 1 .. Len(o) : o[i].tag = "reference" => /\ i + 1 \in 1 .. Len(o)
                                                             /\ o[i].n \in 0 .. MaxLength - 3
                                                             /\ o[i + 1].n \in 1 .. MaxOffset

LEMMA TwoFit ==
    ASSUME NEW o \in Seq(Token), Fits(o), NEW e \in Token, NEW f \in Token, f.tag # "reference",
           e.tag # "reference" \/ (e.n \in 0 .. MaxLength - 3 /\ f.n \in 1 .. MaxOffset)
    PROVE  Fits(o \o <<e, f>>)
<1> DEFINE o2 == o \o <<e, f>>
           N == Len(o)
<1>1. Len(o2) = N + 2 /\ (\A k \in 1 .. N : o2[k] = o[k]) /\ o2[N + 1] = e /\ o2[N + 2] = f
  BY TwoAppended
<1>2. N \in Nat /\ \A i \in 1 .. N : o[i].tag = "reference" => /\ i + 1 \in 1 .. N
                                                                /\ o[i].n \in 0 .. MaxLength - 3
                                                                /\ o[i + 1].n \in 1 .. MaxOffset
  BY DEF Fits
<1> HIDE DEF o2, N
<1>3. ASSUME NEW i \in 1 .. N + 2, o2[i].tag = "reference"
      PROVE  i + 1 \in 1 .. N + 2 /\ o2[i].n \in 0 .. MaxLength - 3 /\ o2[i + 1].n \in 1 .. MaxOffset
  <2>1. CASE i \in 1 .. N
    <3>1. o2[i] = o[i]
      BY <2>1, <1>1
    <3>2. i + 1 \in 1 .. N /\ o[i].n \in 0 .. MaxLength - 3 /\ o[i + 1].n \in 1 .. MaxOffset
      BY <3>1, <1>3, <1>2, <2>1
    <3>3. o2[i + 1] = o[i + 1]
      BY <3>2, <1>1
    <3>4. i + 1 \in 1 .. N + 2
      BY <1>2, <2>1
    <3> QED BY <3>1, <3>2, <3>3, <3>4
  <2>2. CASE i = N + 1
    <3>1. i + 1 = N + 2 /\ i + 1 \in 1 .. N + 2
      BY <2>2, <1>2
    <3> QED BY <3>1, <2>2, <1>1, <1>3
  <2>3. CASE i = N + 2
    BY <2>3, <1>1, <1>3
  <2>4. i \in 1 .. N \/ i = N + 1 \/ i = N + 2
    BY <1>2
  <2> QED BY <2>1, <2>2, <2>3, <2>4
<1> QED BY <1>1, <1>3 DEF Fits, o2

LEMMA LiteralFits ==
    ASSUME NEW o \in Seq(Token), Fits(o), NEW b \in Nat
    PROVE  Fits(o \o Literal(b))
<1>1. CASE b < HighBit
  <2> DEFINE o2 == o \o Literal(b)
             N == Len(o)
  <2>1. (\A k \in 1 .. N : o2[k] = o[k]) /\ N \in Nat /\ Len(o2) = N + 1 /\ o2[N + 1].tag = "low"
    <3> DEFINE e == [tag |-> "low", n |-> b]
    <3>1. Literal(b) = <<e>> /\ e \in Token /\ e.tag = "low" /\ Len(o) \in Nat
      BY <1>1 DEF Literal, Token
    <3> HIDE DEF e
    <3>2. /\ Len(o \o <<e>>) = Len(o) + 1 /\ \A k \in 1 .. Len(o) : (o \o <<e>>)[k] = o[k]
          /\ (o \o <<e>>)[Len(o) + 1] = e
      BY <3>1, OneAppended
    <3> QED BY <3>1, <3>2
  <2>2. \A i \in 1 .. N : o[i].tag = "reference" => /\ i + 1 \in 1 .. N
                                                     /\ o[i].n \in 0 .. MaxLength - 3
                                                     /\ o[i + 1].n \in 1 .. MaxOffset
    BY DEF Fits
  <2> HIDE DEF o2, N
  <2>3. ASSUME NEW i \in 1 .. N + 1, o2[i].tag = "reference"
        PROVE  i + 1 \in 1 .. N + 1 /\ o2[i].n \in 0 .. MaxLength - 3 /\ o2[i + 1].n \in 1 .. MaxOffset
    <3>1. i \in 1 .. N
      BY <2>1, <2>3
    <3>2. o2[i] = o[i]
      BY <3>1, <2>1
    <3>3. i + 1 \in 1 .. N /\ o[i].n \in 0 .. MaxLength - 3 /\ o[i + 1].n \in 1 .. MaxOffset
      BY <3>1, <3>2, <2>3, <2>2
    <3>4. o2[i + 1] = o[i + 1]
      BY <3>3, <2>1
    <3>5. i + 1 \in 1 .. N + 1
      BY <3>1, <2>1
    <3> QED BY <3>2, <3>3, <3>4, <3>5
  <2> QED BY <2>1, <2>3 DEF Fits, o2
<1>2. CASE ~(b < HighBit)
  <2> DEFINE e == [tag |-> "escape", n |-> 0]
             f == Raw(b - HighBit)
  <2>1. Literal(b) = <<e, f>> /\ e \in Token /\ f \in Token /\ f.tag # "reference" /\ e.tag # "reference"
    BY <1>2, BlobCompressionAssumption DEF Literal, Token, Raw
  <2> HIDE DEF e, f
  <2> QED BY <2>1, TwoFit
<1> QED BY <1>1, <1>2

LEMMA ReferenceFits ==
    ASSUME NEW o \in Seq(Token), Fits(o), NEW n \in Nat, n > 2, n <= MaxLength, NEW back \in 1 .. MaxOffset
    PROVE  Fits(o \o Reference(n, back))
<1> DEFINE e == [tag |-> "reference", n |-> n - 3]
           f == Raw(back)
<1>1. n - 3 \in Int /\ back \in Int /\ n - 3 \in 0 .. MaxLength - 3
  BY BlobCompressionAssumption
<1>2. /\ Reference(n, back) = <<e, f>> /\ e \in Token /\ f \in Token /\ f.tag # "reference"
      /\ e.n \in 0 .. MaxLength - 3 /\ f.n \in 1 .. MaxOffset
  BY <1>1 DEF Reference, Raw, Token
<1> HIDE DEF e, f
<1> QED BY <1>2, TwoFit

\* The text at a place repeats so much of a blob.
Repeats(T, from, data, n) == from + n <= Len(T) /\ \A j \in 1 .. n : T[from + j] = data[j]

\* How much of a blob is compressed.
DoneOf(m, pts, idx, k) == IF k = Len(pts) THEN idx ELSE Len(m.blobs[k])

\* The output as a text: places in the hash and starts of blobs are places of it, and each
\* blob is there, from its start on, as far as it is compressed; no byte is nested too deep.
HashPlaced(o, pos, h) == \A b \in Values : \A w \in h[b] : w \in DOMAIN pos /\ w < Len(o)
BlobPlaced(m, pts, idx, T, pos, k) == pts[k] \in DOMAIN pos /\ Repeats(T, pos[pts[k]], m.blobs[k], DoneOf(m, pts, idx, k))
CompressedAs(m, o, pts, idx, h, T, pos, dep) ==
    /\ ReadsAs(o, T, pos, dep)
    /\ \A i \in 1 .. Len(T) : dep[i] < MaxStack
    /\ HashPlaced(o, pos, h)
    /\ \A k \in 1 .. Len(pts) : BlobPlaced(m, pts, idx, T, pos, k)
    /\ pts # <<>> => pos[pts[Len(pts)]] + idx = Len(T)
Compresses(m, o, pts, idx, h) == \E T, pos, dep : CompressedAs(m, o, pts, idx, h, T, pos, dep)
BlobTypes(m, o, pts, idx, h) ==
    /\ m \in Modules /\ pts \in Seq(Nat) /\ Len(pts) <= Len(m.blobs)
    /\ idx \in Nat /\ (pts # <<>> => idx <= Len(m.blobs[Len(pts)]))
    /\ h \in [Values -> SUBSET Nat] /\ o \in Seq(Token) /\ Fits(o)

BlobInv == BlobTypes(module, out, points, index, hash) /\ Compresses(module, out, points, index, hash)

\* What is appended is what follows in the blob, so the blob is there that much further.
LEMMA TextGrows ==
    ASSUME NEW m, NEW o, NEW pts, NEW idx, NEW h, BlobTypes(m, o, pts, idx, h), pts # <<>>,
           NEW T, NEW pos, NEW dep, CompressedAs(m, o, pts, idx, h, T, pos, dep),
           NEW o2, NEW n \in Nat, NEW src, Grown(o, T, pos, dep, o2, src, n),
           \A j \in 1 .. n : src[j] = m.blobs[Len(pts)][idx + j],
           NEW h2, \A b \in Values : h2[b] \subseteq h[b] \cup {Len(o)}
    PROVE  Compresses(m, o2, pts, idx + n, h2)
<1> DEFINE l == Len(T)
           K == Len(pts)
<1>1. PICK T2, pos2, dep2 : /\ ReadsAs(o2, T2, pos2, dep2)
                            /\ Grows(o, T, pos, dep, o2, T2, pos2, dep2, n)
                            /\ \A i \in 1 .. n : T2[l + i] = src[i] /\ dep2[l + i] < MaxStack
  BY DEF Grown
<1>2. /\ Len(o2) > Len(o) /\ Len(T2) = l + n /\ (\A i \in 1 .. l : T2[i] = T[i] /\ dep2[i] = dep[i])
      /\ DOMAIN pos2 = DOMAIN pos \cup {Len(o2)} /\ (\A p \in DOMAIN pos : pos2[p] = pos[p])
      /\ Len(o2) \in Nat
  BY <1>1 DEF Grows
<1>3. /\ ReadsAs(o, T, pos, dep) /\ (\A i \in 1 .. l : dep[i] < MaxStack) /\ HashPlaced(o, pos, h)
      /\ (\A k \in 1 .. K : BlobPlaced(m, pts, idx, T, pos, k)) /\ pos[pts[K]] + idx = l
  BY DEF CompressedAs
<1>4. l \in Nat /\ Len(o) \in Nat /\ Len(o) \in DOMAIN pos /\ pos \in [DOMAIN pos -> 0 .. l]
  BY <1>3 DEF ReadsAs
<1>5. K \in Nat /\ K \in 1 .. K /\ idx \in Nat
  <2>1. pts \in Seq(Nat) /\ idx \in Nat
    BY DEF BlobTypes
  <2> QED BY <2>1
<1> HIDE DEF l, K
<1>6. ASSUME NEW i \in 1 .. l + n PROVE dep2[i] < MaxStack
  <2>1. CASE i \in 1 .. l
    BY <2>1, <1>2, <1>3
  <2>2. CASE ~(i \in 1 .. l)
    <3> DEFINE x == i - l
    <3>1. x \in 1 .. n /\ i = l + x
      BY <2>2, <1>4
    <3> HIDE DEF x
    <3> QED BY <3>1, <1>1
  <2> QED BY <2>1, <2>2
<1>7. HashPlaced(o2, pos2, h2)
  <2> SUFFICES ASSUME NEW b \in Values, NEW w \in h2[b] PROVE w \in DOMAIN pos2 /\ w < Len(o2)
    BY DEF HashPlaced
  <2>1. w \in h[b] \/ w = Len(o)
    OBVIOUS
  <2>2. w \in h[b] => w \in DOMAIN pos /\ w < Len(o)
    BY <1>3 DEF HashPlaced
  <2>3. w \in DOMAIN pos /\ (w < Len(o) \/ w = Len(o))
    BY <2>1, <2>2, <1>4
  <2>4. w \in Nat
    BY <2>3, <1>3, <1>4 DEF ReadsAs
  <2>5. w < Len(o2)
    BY <2>3, <2>4, <1>2, <1>4
  <2> QED BY <2>3, <2>5, <1>2
<1>8. ASSUME NEW k \in 1 .. K PROVE BlobPlaced(m, pts, idx + n, T2, pos2, k)
  <2> DEFINE from == pos[pts[k]]
             done == DoneOf(m, pts, idx, k)
             done2 == DoneOf(m, pts, idx + n, k)
             data == m.blobs[k]
  <2>1. pts[k] \in DOMAIN pos /\ from + done <= l /\ \A j \in 1 .. done : T[from + j] = data[j]
    BY <1>3, <1>8 DEF BlobPlaced, Repeats, l
  <2>2. pts[k] \in DOMAIN pos2 /\ pos2[pts[k]] = from /\ from \in Nat
    BY <2>1, <1>2, <1>4
  <2>3. CASE k = K
    <3>1. done = idx /\ done2 = idx + n /\ from + idx = l
      BY <2>3, <1>3 DEF DoneOf, K
    <3>2. \A j \in 1 .. n : src[j] = data[idx + j]
      BY <2>3 DEF K
    <3> HIDE DEF from, done, done2, data
    <3>0. from \in Nat /\ idx \in Nat /\ l \in Nat
      BY <2>2, <1>5, <1>4
    <3>3. from + done2 <= l + n
      BY <3>0, <3>1
    <3>4. ASSUME NEW j \in 1 .. done2 PROVE T2[from + j] = data[j]
      <4>1. CASE j <= idx
        <5>1. j \in 1 .. done /\ from + j \in 1 .. l
          BY <4>1, <3>1, <2>2, <1>5, <1>4, <3>4
        <5> QED BY <5>1, <2>1, <1>2
      <4>2. CASE ~(j <= idx)
        <5> DEFINE x == j - idx
        <5>1. x \in 1 .. n /\ j = idx + x /\ from + j = l + x
          <6>1. j \in 1 .. idx + n
            BY <3>1, <3>4
          <6> QED BY <6>1, <4>2, <3>0, <3>1
        <5> HIDE DEF x
        <5>2. T2[l + x] = src[x] /\ src[x] = data[idx + x]
          BY <5>1, <1>1, <3>2
        <5> QED BY <5>1, <5>2
      <4> QED BY <4>1, <4>2
    <3> QED BY <2>2, <3>3, <3>4, <1>2 DEF BlobPlaced, Repeats, from, done2, data
  <2>4. CASE k # K
    <3>1. done2 = done /\ done = Len(data)
      BY <2>4 DEF DoneOf, K
    <3>2. done \in Nat
      <4>1. m \in Modules /\ K <= Len(m.blobs)
        BY DEF BlobTypes, K
      <4>2. m.blobs \in Seq(Seq(Nat))
        BY <4>1, ModuleFileAssumption
      <4>3. Len(m.blobs) \in Nat
        BY <4>2
      <4>4. k \in 1 .. Len(m.blobs)
        BY <4>1, <4>3, <1>5
      <4>5. data \in Seq(Nat)
        BY <4>2, <4>4
      <4> QED BY <4>5, <3>1
    <3> HIDE DEF from, done, done2, data
    <3>3. from + done <= l + n
      BY <2>1, <2>2, <3>2, <1>4
    <3>4. ASSUME NEW j \in 1 .. done PROVE T2[from + j] = data[j]
      <4>1. from + j \in 1 .. l
        BY <2>1, <2>2, <3>2, <1>4
      <4> QED BY <4>1, <2>1, <1>2
    <3> QED BY <2>2, <3>1, <3>3, <3>4, <1>2 DEF BlobPlaced, Repeats, from, done2, data
  <2> QED BY <2>3, <2>4
<1>9. pos2[pts[K]] + (idx + n) = Len(T2)
  <2>1. pts[K] \in DOMAIN pos
    BY <1>3, <1>5 DEF BlobPlaced
  <2>2. pos2[pts[K]] = pos[pts[K]] /\ pos[pts[K]] \in Nat
    BY <2>1, <1>2, <1>4
  <2> DEFINE x == pos[pts[K]]
  <2>3. pos2[pts[K]] = x /\ x \in Nat /\ x + idx = l
    BY <2>2, <1>3
  <2> HIDE DEF x
  <2>4. x + (idx + n) = l + n
    <3>1. x \in Nat /\ idx \in Nat /\ l \in Nat
      BY <2>3, <1>4, <1>5
    <3> QED BY <3>1, <2>3
  <2> QED BY <2>3, <2>4, <1>2
<1>10. CompressedAs(m, o2, pts, idx + n, h2, T2, pos2, dep2)
  BY <1>1, <1>2, <1>6, <1>7, <1>8, <1>9 DEF CompressedAs, K
<1> QED BY <1>10 DEF Compresses

LEMMA BlobInvInit == Init => BlobInv
<1> SUFFICES ASSUME Init PROVE BlobInv
  OBVIOUS
<1> DEFINE pos == [p \in {0} |-> 0]
           none == [b \in Values |-> {}]
<1>1. module \in Modules /\ out = <<>> /\ points = <<>> /\ index = 0 /\ hash = none
  BY DEF Init
<1>2. module.blobs \in Seq(Seq(Nat))
  BY <1>1, ModuleFileAssumption
<1>3. BlobTypes(module, out, points, index, hash)
  <2>1. points \in Seq(Nat) /\ Len(points) <= Len(module.blobs) /\ out \in Seq(Token)
    BY <1>1, <1>2
  <2>2. none \in [Values -> SUBSET Nat]
    <3> HIDE DEF Values
    <3> QED OBVIOUS
  <2>3. Fits(out)
    BY <1>1 DEF Fits
  <2> HIDE DEF none
  <2> QED BY <1>1, <2>1, <2>2, <2>3 DEF BlobTypes
<1>4. ReadsAs(<<>>, <<>>, pos, <<>>)
  <2>1. Len(<<>>) = 0 /\ <<>> \in Seq(Token) /\ <<>> \in Seq(Nat) /\ <<>> \in [1 .. 0 -> Nat]
    OBVIOUS
  <2>2. DOMAIN pos = {0} /\ pos[0] = 0
    OBVIOUS
  <2>3. pos \in [DOMAIN pos -> 0 .. 0] /\ DOMAIN pos \subseteq 0 .. 0
    OBVIOUS
  <2>4. \A p \in DOMAIN pos : p # 0 => FALSE
    OBVIOUS
  <2> HIDE DEF pos
  <2> QED BY <2>1, <2>2, <2>3, <2>4 DEF ReadsAs
<1>5. HashPlaced(<<>>, pos, none)
  <2> HIDE DEF pos, Values
  <2>1. \A b \in Values : none[b] = {}
    OBVIOUS
  <2> HIDE DEF none
  <2> QED BY <2>1 DEF HashPlaced
<1>6. CompressedAs(module, <<>>, <<>>, 0, none, <<>>, pos, <<>>)
  <2> HIDE DEF pos, none
  <2> QED BY <1>4, <1>5 DEF CompressedAs
<1>7. Compresses(module, out, points, index, hash)
  <2> HIDE DEF pos, none
  <2> QED BY <1>1, <1>6 DEF Compresses
<1> QED BY <1>3, <1>7 DEF BlobInv

\* What is compressed is of Values, and the next byte of an unfinished blob is a number.
LEMMA BlobFacts ==
    ASSUME NEW m \in Modules, NEW k \in 1 .. Len(m.blobs)
    PROVE  /\ m.blobs \in Seq(Seq(Nat)) /\ Len(m.blobs) \in Nat
           /\ m.blobs[k] \in Seq(Nat) /\ Len(m.blobs[k]) \in Nat
           /\ \A i \in 1 .. Len(m.blobs[k]) : m.blobs[k][i] \in Nat /\ m.blobs[k][i] \in Values
<1>1. m.blobs \in Seq(Seq(Nat))
  BY ModuleFileAssumption
<1>2. m.blobs[k] \in Seq(Nat) /\ k \in DOMAIN m.blobs /\ Len(m.blobs) \in Nat
  BY <1>1
<1>3. ASSUME NEW i \in 1 .. Len(m.blobs[k]) PROVE m.blobs[k][i] \in Nat /\ m.blobs[k][i] \in Values
  <2> DEFINE d == m.blobs[k]
             bs == {m.blobs[x] : x \in DOMAIN m.blobs}
             inner == {{b[y] : y \in DOMAIN b} : b \in bs}
  <2>1. d \in bs
    BY <1>2
  <2>2. d[i] \in {d[y] : y \in DOMAIN d} /\ d[i] \in Nat
    <3>1. i \in DOMAIN d /\ d \in Seq(Nat)
      BY <1>2
    <3> HIDE DEF d
    <3>2. d[i] \in Nat
      BY <3>1
    <3> QED BY <3>1, <3>2
  <2>3. {d[y] : y \in DOMAIN d} \in inner
    <3> HIDE DEF d, bs
    <3> QED BY <2>1
  <2>4. d[i] \in UNION inner
    <3> HIDE DEF d, bs, inner
    <3> QED BY <2>2, <2>3
  <2>5. UNION inner \subseteq Values
    BY DEF Values
  <2> HIDE DEF inner
  <2> QED BY <2>2, <2>4, <2>5
<1> QED BY <1>1, <1>2, <1>3

LEMMA BeginBlobKeeps == BlobInv /\ BeginBlob => BlobInv'
<1> SUFFICES ASSUME BlobInv, BeginBlob PROVE BlobInv'
  OBVIOUS
<1> DEFINE m == module
           o == out
           pts == points
           idx == index
           h == hash
           pts2 == Append(points, Len(out))
           K == Len(points)
<1>1. /\ points' = pts2 /\ index' = 0 /\ module' = m /\ out' = o /\ hash' = h
      /\ AtBlobEnd /\ Len(points) < Len(module.blobs)
  BY DEF BeginBlob
<1>2. /\ m \in Modules /\ pts \in Seq(Nat) /\ K <= Len(m.blobs) /\ idx \in Nat
      /\ h \in [Values -> SUBSET Nat] /\ o \in Seq(Token) /\ Fits(o)
  BY DEF BlobInv, BlobTypes
<1>3. K \in Nat /\ Len(o) \in Nat /\ m.blobs \in Seq(Seq(Nat)) /\ Len(m.blobs) \in Nat
  BY <1>2, ModuleFileAssumption
<1>4. /\ pts2 \in Seq(Nat) /\ Len(pts2) = K + 1 /\ pts2[K + 1] = Len(o) /\ \A k \in 1 .. K : pts2[k] = pts[k]
  BY <1>2, <1>3, AppendProperties
<1>5. PICK T, pos, dep : CompressedAs(m, o, pts, idx, h, T, pos, dep)
  BY DEF BlobInv, Compresses
<1>6. /\ ReadsAs(o, T, pos, dep) /\ (\A i \in 1 .. Len(T) : dep[i] < MaxStack)
      /\ HashPlaced(o, pos, h)
      /\ \A k \in 1 .. K : BlobPlaced(m, pts, idx, T, pos, k)
  BY <1>5 DEF CompressedAs
<1>7. Len(o) \in DOMAIN pos /\ pos[Len(o)] = Len(T) /\ Len(T) \in Nat
  BY <1>6 DEF ReadsAs
<1>8. ASSUME NEW k \in 1 .. K PROVE DoneOf(m, pts, idx, k) = DoneOf(m, pts2, 0, k) /\ pts2[k] = pts[k]
  <2>1. k # K + 1 /\ pts # <<>>
    BY <1>3
  <2>2. k = K => idx = Len(m.blobs[k])
    BY <1>1, <2>1 DEF AtBlobEnd, Blob
  <2> HIDE DEF pts2
  <2> QED BY <2>1, <2>2, <1>4 DEF DoneOf
<1> HIDE DEF pts2, K
<1>9. Len(m.blobs[K + 1]) \in Nat
  BY <1>1, <1>2, <1>3, BlobFacts DEF K
<1>10. BlobTypes(m, o, pts2, 0, h)
  <2>1. K + 1 <= Len(m.blobs)
    BY <1>1, <1>3 DEF K
  <2>2. Len(m.blobs[Len(pts2)]) >= 0
    BY <1>4, <1>9
  <2> QED BY <1>2, <1>4, <2>1, <2>2 DEF BlobTypes
<1>11. ASSUME NEW k \in 1 .. K + 1 PROVE BlobPlaced(m, pts2, 0, T, pos, k)
  <2>1. CASE k \in 1 .. K
    <3>1. BlobPlaced(m, pts, idx, T, pos, k)
      BY <2>1, <1>6
    <3>2. DoneOf(m, pts, idx, k) = DoneOf(m, pts2, 0, k) /\ pts2[k] = pts[k]
      BY <2>1, <1>8 DEF K
    <3> QED BY <3>1, <3>2 DEF BlobPlaced
  <2>2. CASE k = K + 1
    <3>1. pts2[k] = Len(o) /\ DoneOf(m, pts2, 0, k) = 0
      BY <2>2, <1>4 DEF DoneOf
    <3>2. Repeats(T, Len(T), m.blobs[k], 0)
      BY <1>7 DEF Repeats
    <3> QED BY <3>1, <3>2, <1>7 DEF BlobPlaced
  <2>3. k \in 1 .. K \/ k = K + 1
    BY <1>3
  <2> QED BY <2>1, <2>2, <2>3
<1>12. pos[pts2[Len(pts2)]] + 0 = Len(T)
  BY <1>4, <1>7
<1>13. CompressedAs(m, o, pts2, 0, h, T, pos, dep)
  BY <1>4, <1>6, <1>11, <1>12 DEF CompressedAs
<1>14. Compresses(m, o, pts2, 0, h)
  BY <1>13 DEF Compresses
<1> HIDE DEF m, o, h
<1> QED BY <1>1, <1>10, <1>14 DEF BlobInv

\* One turn of the compressor, of constants.
Turned(m, o, pts, idx, h, o2, idx2, h2) ==
    LET data == m.blobs[Len(pts)]
        b == data[idx + 1]
        search == idx + 2 < Len(data)
        windows == Within(h[b], Len(o))
        found == IF search THEN BestMatch(o, data, idx, windows) ELSE {}
    IN  /\ h2 = [h EXCEPT ![b] = (IF search THEN windows ELSE @) \cup {Len(o)}]
        /\ IF found = {}
           THEN o2 = o \o Literal(b) /\ idx2 = idx + 1
           ELSE \E match \in found : /\ o2 = o \o Reference(match[1], match[2])
                                     /\ idx2 = idx + match[1]

LEMMA TurnKeeps ==
    ASSUME NEW m, NEW o, NEW pts, NEW idx, NEW h, BlobTypes(m, o, pts, idx, h), Compresses(m, o, pts, idx, h),
           pts # <<>>, idx # Len(m.blobs[Len(pts)]),
           NEW o2, NEW idx2, NEW h2, Turned(m, o, pts, idx, h, o2, idx2, h2)
    PROVE  BlobTypes(m, o2, pts, idx2, h2) /\ Compresses(m, o2, pts, idx2, h2)
<1> DEFINE K == Len(pts)
           data == m.blobs[K]
           b == data[idx + 1]
           search == idx + 2 < Len(data)
           windows == Within(h[b], Len(o))
           found == IF search THEN BestMatch(o, data, idx, windows) ELSE {}
           N == Len(o)
<1>1. /\ m \in Modules /\ pts \in Seq(Nat) /\ K <= Len(m.blobs) /\ idx \in Nat /\ idx <= Len(data)
      /\ h \in [Values -> SUBSET Nat] /\ o \in Seq(Token) /\ Fits(o)
  BY DEF BlobTypes
<1>2. K \in Nat /\ K > 0 /\ N \in Nat
  BY <1>1
<1>3. K \in 1 .. Len(m.blobs)
  <2>1. Len(m.blobs) \in Nat
    <3>1. m.blobs \in Seq(Seq(Nat))
      BY <1>1, ModuleFileAssumption
    <3> QED BY <3>1
  <2> HIDE DEF K
  <2> QED BY <2>1, <1>1, <1>2
<1>4. data \in Seq(Nat) /\ Len(data) \in Nat /\ \A i \in 1 .. Len(data) : data[i] \in Nat /\ data[i] \in Values
  <2> HIDE DEF K
  <2> QED BY <1>1, <1>3, BlobFacts
<1>5. idx < Len(data) /\ idx + 1 \in 1 .. Len(data)
  <2>1. idx # Len(data)
    OBVIOUS
  <2> DEFINE l == Len(data)
  <2>2. l \in Nat /\ idx \in Nat /\ idx <= l /\ idx # l
    BY <2>1, <1>1, <1>4
  <2> HIDE DEF l
  <2>3. idx < l /\ idx + 1 \in 1 .. l
    BY <2>2
  <2> QED BY <2>3 DEF l
<1>6. b \in Nat /\ b \in Values
  BY <1>4, <1>5
<1>7. /\ h2 = [h EXCEPT ![b] = (IF search THEN windows ELSE h[b]) \cup {N}]
      /\ \/ found = {} /\ o2 = o \o Literal(b) /\ idx2 = idx + 1
         \/ \E match \in found : o2 = o \o Reference(match[1], match[2]) /\ idx2 = idx + match[1]
  BY DEF Turned
<1>8. windows \subseteq h[b] /\ \A w \in windows : w >= N - MaxOffset
  BY DEF Within
<1>9. found # {} => found = BestMatch(o, data, idx, windows)
  OBVIOUS
<1>10. DoneOf(m, pts, idx, K) = idx /\ data = m.blobs[Len(pts)] /\ K = Len(pts)
  BY DEF DoneOf
<1>11. h2 \in [Values -> SUBSET Nat] /\ \A v \in Values : h2[v] \subseteq h[v] \cup {N}
  <2> DEFINE new == (IF search THEN windows ELSE h[b]) \cup {N}
  <2>1. new \subseteq h[b] \cup {N} /\ h2 = [h EXCEPT ![b] = new]
    <3> HIDE DEF windows, search, b, N
    <3> QED BY <1>7, <1>8
  <2> HIDE DEF new, b, N, Values
  <2>2. h[b] \in SUBSET Nat
    BY <1>1, <1>6
  <2>3. new \in SUBSET Nat
    BY <2>1, <2>2, <1>2
  <2>4. h2 \in [Values -> SUBSET Nat] /\ \A v \in Values : h2[v] = IF v = b THEN new ELSE h[v]
    BY <2>1, <2>3, <1>1
  <2> QED BY <2>1, <2>4
<1>12. PICK T, pos, dep : CompressedAs(m, o, pts, idx, h, T, pos, dep)
  BY DEF Compresses
<1>13. ReadsAs(o, T, pos, dep) /\ HashPlaced(o, pos, h)
  BY <1>12 DEF CompressedAs
<1> HIDE DEF K, data, b, search, windows, found, N
<1>14. CASE found = {} /\ o2 = o \o Literal(b) /\ idx2 = idx + 1
  <2> DEFINE src == [i \in 1 .. 1 |-> b]
  <2>1. Grown(o, T, pos, dep, o2, src, 1)
    BY <1>13, <1>14, <1>6, LiteralReads
  <2>2. \A j \in 1 .. 1 : src[j] = m.blobs[Len(pts)][idx + j]
    BY <1>10 DEF b
  <2> HIDE DEF src
  <2>3. Compresses(m, o2, pts, idx + 1, h2)
    BY <2>1, <2>2, <1>11, <1>12, TextGrows DEF N
  <2>4. o2 \in Seq(Token) /\ Fits(o2)
    BY <1>1, <1>6, <1>14, LiteralFacts, LiteralFits
  <2>5. idx2 \in Nat /\ idx2 <= Len(data)
    BY <1>1, <1>4, <1>5, <1>14
  <2> QED BY <2>3, <2>4, <2>5, <1>1, <1>10, <1>11, <1>14 DEF BlobTypes
<1>15. CASE \E match \in found : o2 = o \o Reference(match[1], match[2]) /\ idx2 = idx + match[1]
  <2>1. PICK match \in found : o2 = o \o Reference(match[1], match[2]) /\ idx2 = idx + match[1]
    BY <1>15
  <2> DEFINE n == match[1]
  <2>2. match \in BestMatch(o, data, idx, windows)
    BY <1>9
  <2>3. PICK w \in windows : n = Match(o, data, idx, w) /\ match[2] = N - w /\ n > 2
    BY <2>2, BestFacts DEF N
  <2>4. w \in DOMAIN pos /\ w < N
    <3>1. w \in h[b]
      BY <1>8
    <3> QED BY <3>1, <1>6, <1>13 DEF HashPlaced, N
  <2>5. DOMAIN pos \subseteq Nat /\ pos \in [DOMAIN pos -> 0 .. Len(T)] /\ Len(T) \in Nat /\ T \in Seq(Nat)
    <3>1. DOMAIN pos \subseteq 0 .. N
      BY <1>13 DEF ReadsAs, N
    <3>2. 0 .. N \subseteq Nat
      BY <1>2
    <3> QED BY <3>1, <3>2, <1>13 DEF ReadsAs
  <2>6. w \in Nat /\ pos[w] \in Nat
    BY <2>4, <2>5
  <2> HIDE DEF n
  <2>7. /\ n \in Nat /\ n <= MaxLength /\ idx + n <= Len(data) /\ pos[w] + n <= Len(T)
        /\ Agrees(T, dep, pos[w], data, idx, n)
    BY <2>3, <2>4, <1>1, <1>4, <1>5, <1>13, MatchFacts
  <2> DEFINE x == pos[w]
             src == [j \in 1 .. n |-> T[x + j]]
  <2>8. src \in [1 .. n -> Nat]
    <3> DEFINE l == Len(T)
    <3>1. x \in Nat /\ n \in Nat /\ x + n <= l /\ l \in Nat /\ \A i \in 1 .. l : T[i] \in Nat
      BY <2>5, <2>6, <2>7
    <3> HIDE DEF x, l
    <3>2. \A j \in 1 .. n : x + j \in 1 .. l
      BY <3>1
    <3>3. \A j \in 1 .. n : T[x + j] \in Nat
      BY <3>1, <3>2
    <3> QED BY <3>3
  <2>9. \A j \in 1 .. n : src[j] = T[pos[w] + j] /\ dep[pos[w] + j] < MaxStack - 1 /\ src[j] = data[idx + j]
    BY <2>7 DEF Agrees
  <2>10. o2 = o \o Reference(n, Len(o) - w) /\ idx2 = idx + n
    BY <2>1, <2>3 DEF n, N
  <2> HIDE DEF src, x
  <2>11. n > 2
    BY <2>3
  <2>12. Grown(o, T, pos, dep, o2, src, n)
    BY <2>4, <2>7, <2>8, <2>9, <2>10, <2>11, <1>13, ReferenceReads
  <2>13. \A j \in 1 .. n : src[j] = m.blobs[Len(pts)][idx + j]
    BY <2>9, <1>10
  <2>14. Compresses(m, o2, pts, idx + n, h2)
    BY <2>7, <2>12, <2>13, <1>11, <1>12, TextGrows DEF N
  <2>15. N - w \in 1 .. MaxOffset
    <3>1. w >= N - MaxOffset
      BY <1>8
    <3> QED BY <3>1, <2>4, <2>6, <1>2, BlobCompressionAssumption
  <2>16. Fits(o2)
    BY <2>7, <2>10, <2>11, <2>15, <1>1, ReferenceFits DEF N
  <2>17. o2 \in Seq(Token)
    <3>1. PICK T2, pos2, dep2 : ReadsAs(o2, T2, pos2, dep2)
      BY <2>12 DEF Grown
    <3> QED BY <3>1 DEF ReadsAs
  <2>18. idx2 \in Nat /\ idx2 <= Len(data)
    BY <2>7, <2>10, <1>1
  <2> QED BY <2>10, <2>14, <2>16, <2>17, <2>18, <1>1, <1>10, <1>11 DEF BlobTypes
<1> QED BY <1>7, <1>14, <1>15

LEMMA BlobInvNext == BlobInv /\ [Next]_vars => BlobInv'
<1> SUFFICES ASSUME BlobInv, [Next]_vars PROVE BlobInv'
  OBVIOUS
<1>1. ASSUME UNCHANGED <<module, blobVars>> PROVE BlobInv'
  <2>1. module' = module /\ out' = out /\ points' = points /\ index' = index /\ hash' = hash
    BY <1>1 DEF blobVars
  <2> QED BY <2>1 DEF BlobInv
<1>2. CASE ResolveLabels
  BY <1>1, <1>2 DEF ResolveLabels
<1>3. CASE BeginBlob
  BY <1>3, BeginBlobKeeps
<1>4. CASE CompressNext
  <2>1. points # <<>> /\ index # Len(module.blobs[Len(points)])
    BY <1>4 DEF CompressNext, AtBlobEnd, Blob
  <2>2. Turned(module, out, points, index, hash, out', index', hash')
    BY <1>4 DEF CompressNext, Turned, Blob
  <2>3. BlobTypes(module, out, points, index, hash) /\ Compresses(module, out, points, index, hash)
    BY DEF BlobInv
  <2>4. BlobTypes(module, out', points, index', hash') /\ Compresses(module, out', points, index', hash')
    BY <2>1, <2>2, <2>3, TurnKeeps
  <2>5. module' = module /\ points' = points
    BY <1>4 DEF CompressNext
  <2> QED BY <2>4, <2>5 DEF BlobInv
<1>5. CASE WriteLine
  BY <1>1, <1>5 DEF WriteLine
<1>6. CASE UNCHANGED vars
  BY <1>1, <1>6 DEF vars, blobVars
<1> QED BY <1>2, <1>3, <1>4, <1>5, <1>6 DEF Next

LEMMA BlobInvReadsBack == BlobInv => BlobsReadBack
<1> SUFFICES ASSUME BlobInv, NEW k \in DOMAIN points
             PROVE  Decompress(out, points[k], DoneOf(module, points, index, k))
                      = SubSeq(module.blobs[k], 1, DoneOf(module, points, index, k))
  BY DEF BlobsReadBack, DoneOf
<1> DEFINE done == DoneOf(module, points, index, k)
           data == module.blobs[k]
           K == Len(points)
           at == points[k]
           got == Decoded(out, MaxStack, at, done, done)
<1>1. /\ module \in Modules /\ points \in Seq(Nat) /\ K <= Len(module.blobs) /\ index \in Nat
      /\ (points # <<>> => index <= Len(module.blobs[K]))
  BY DEF BlobInv, BlobTypes
<1>2. k \in 1 .. K /\ K \in Nat /\ points # <<>>
  BY <1>1
<1>3. k \in 1 .. Len(module.blobs)
  <2>1. Len(module.blobs) \in Nat
    <3>1. module.blobs \in Seq(Seq(Nat))
      BY <1>1, ModuleFileAssumption
    <3> QED BY <3>1
  <2> HIDE DEF K
  <2> QED BY <2>1, <1>1, <1>2
<1>4. data \in Seq(Nat) /\ Len(data) \in Nat
  BY <1>1, <1>3, BlobFacts
<1>5. done \in Nat /\ done <= Len(data)
  <2>1. done = IF k = K THEN index ELSE Len(data)
    BY DEF DoneOf
  <2>2. k = K => data = module.blobs[K]
    OBVIOUS
  <2> DEFINE l == Len(data)
  <2>3. l \in Nat /\ index \in Nat /\ (k = K => index <= l) /\ done = (IF k = K THEN index ELSE l)
    BY <2>1, <2>2, <1>1, <1>2, <1>4
  <2> HIDE DEF l, K, done
  <2>4. done \in Nat /\ done <= l
    BY <2>3
  <2> QED BY <2>4 DEF l
<1>6. PICK T, pos, dep : CompressedAs(module, out, points, index, hash, T, pos, dep)
  BY DEF BlobInv, Compresses
<1>7. /\ ReadsAs(out, T, pos, dep) /\ (\A i \in 1 .. Len(T) : dep[i] < MaxStack)
      /\ BlobPlaced(module, points, index, T, pos, k)
  BY <1>2, <1>6 DEF CompressedAs
<1>8. at \in DOMAIN pos /\ pos[at] + done <= Len(T) /\ \A j \in 1 .. done : T[pos[at] + j] = data[j]
  BY <1>7 DEF BlobPlaced, Repeats
<1>9. pos[at] \in Nat /\ Len(T) \in Nat
  BY <1>7, <1>8 DEF ReadsAs
<1> HIDE DEF done, data, K, at
<1>10. \A j \in 1 .. done : dep[pos[at] + j] < MaxStack
  <2> SUFFICES ASSUME NEW j \in 1 .. done PROVE dep[pos[at] + j] < MaxStack
    OBVIOUS
  <2> DEFINE x == pos[at]
             l == Len(T)
  <2>1. x \in Nat /\ l \in Nat /\ x + done <= l
    BY <1>8, <1>9
  <2> HIDE DEF x, l
  <2>2. x + j \in 1 .. l
    BY <2>1, <1>5
  <2> QED BY <2>2, <1>7 DEF x, l
<1>11. /\ got \in Seq(Nat) /\ Len(got) = done /\ Yielded(T, dep, MaxStack, pos[at], got)
  <2>1. MaxStack \in Nat /\ MaxStack > 0
    BY BlobCompressionAssumption
  <2> QED BY <2>1, <1>5, <1>7, <1>8, <1>10, DecodedFacts
<1>12. got = SubSeq(data, 1, done)
  <2> DEFINE want == SubSeq(data, 1, done)
  <2> HIDE DEF got
  <2>1. want \in Seq(Nat) /\ Len(want) = done /\ \A j \in 1 .. done : want[j] = data[j]
    BY <1>4, <1>5
  <2>2. \A j \in 1 .. done : got[j] = T[pos[at] + j]
    BY <1>11 DEF Yielded
  <2>3. \A j \in 1 .. done : got[j] = want[j]
    BY <2>1, <2>2, <1>8
  <2> HIDE DEF want
  <2>4. got = want
    BY <1>11, <2>1, <2>3
  <2> QED BY <2>4 DEF want
<1> QED BY <1>12 DEF Decompress, done, data, at

LEMMA BlobInvFits == BlobInv => ReferencesFit
<1> SUFFICES ASSUME BlobInv PROVE ReferencesFit
  OBVIOUS
<1>1. out \in Seq(Token) /\ Fits(out)
  BY DEF BlobInv, BlobTypes
<1>2. DOMAIN out = 1 .. Len(out)
  BY <1>1
<1> QED BY <1>1, <1>2 DEF ReferencesFit, Fits

\* What the compressor writes of a blob, at any moment of it, is expanded by the decoder
\* of the interpreter to what was compressed: no reference it follows is nested deeper than
\* its stack, whatever the references of this blob and of those before it repeat.
THEOREM BlobsAlwaysReadBack == Spec => []BlobsReadBack
<1>1. Init => BlobInv
  BY BlobInvInit
<1>2. BlobInv /\ [Next]_vars => BlobInv'
  BY BlobInvNext
<1>3. BlobInv => BlobsReadBack
  BY BlobInvReadsBack
<1> QED BY <1>1, <1>2, <1>3, PTL DEF Spec

\* A reference written has a length and a distance its two bytes hold, and both are there.
THEOREM ReferencesAlwaysFit == Spec => []ReferencesFit
<1>1. Init => BlobInv
  BY BlobInvInit
<1>2. BlobInv /\ [Next]_vars => BlobInv'
  BY BlobInvNext
<1>3. BlobInv => ReferencesFit
  BY BlobInvFits
<1> QED BY <1>1, <1>2, <1>3, PTL DEF Spec

\* Each line is resolved to an offset and to a padding that is no less than nothing.
LEMMA ResolveType ==
    ASSUME NEW m \in Modules
    PROVE  Resolve(m.body) \in [DOMAIN m.body -> [offset : Int, padding : Nat]]
<1> DEFINE body == m.body
           R == Resolve(body)
<1>1. /\ IsBody(body) /\ Len(body) \in Nat
      /\ 2 * Offsets(MostLengths(body))[Len(body) + 1] < Power[MaxGroups]
  BY ModuleFacts
<1>2. DOMAIN body = 1 .. Len(body)
  BY <1>1 DEF IsBody
<1>3. /\ R = [i \in DOMAIN body |-> R[i]]
      /\ \A i \in DOMAIN body : body[i].kind # "jump" => R[i] = [offset |-> 0, padding |-> 0]
  BY DEF Resolve
<1> HIDE DEF body, R
<1>4. ASSUME NEW i \in DOMAIN body PROVE R[i] \in [offset : Int, padding : Nat]
  <2>1. CASE body[i].kind = "jump"
    <3> DEFINE x == JumpOffset(body, i)
               y == Lengths(body)[i] - 1 - GetLengthSleb128(JumpOffset(body, i))
    <3>1. x \in Int /\ y \in Nat /\ R[i] = [offset |-> x, padding |-> y]
      BY <1>1, <1>2, <2>1, JumpFits DEF R
    <3> HIDE DEF x, y
    <3> QED BY <3>1
  <2>2. CASE body[i].kind # "jump"
    BY <2>2, <1>3
  <2> QED BY <2>1, <2>2
<1>5. R \in [DOMAIN body -> [offset : Int, padding : Nat]]
  BY <1>3, <1>4
<1> QED BY <1>5 DEF R, body

LEMMA InvTyped == CodeInv /\ BlobInv => TypeOK
<1> SUFFICES ASSUME CodeInv, BlobInv PROVE TypeOK
  OBVIOUS
<1>1. /\ module \in Modules
      /\ resolved = <<>> \/ resolved = Resolve(module.body)
      /\ Len(starts) <= Len(module.body)
  BY DEF CodeInv
<1>2. /\ module \in Modules /\ Len(points) <= Len(module.blobs) /\ hash \in [Values -> SUBSET Nat]
      /\ out \in Seq(Token)
  BY DEF BlobInv, BlobTypes
<1>3. resolved = <<>> \/ resolved \in [DOMAIN module.body -> [offset : Int, padding : Nat]]
  BY <1>1, <1>2, ResolveType
<1>4. PICK T, pos, dep : CompressedAs(module, out, points, index, hash, T, pos, dep)
  BY DEF BlobInv, Compresses
<1>5. ASSUME NEW b \in Values, NEW w \in hash[b] PROVE w \in 0 .. Len(out)
  <2>1. w < Len(out)
    BY <1>4 DEF CompressedAs, HashPlaced
  <2>2. hash[b] \in SUBSET Nat
    <3> HIDE DEF Values
    <3> QED BY <1>2
  <2>3. Len(out) \in Nat
    BY <1>2
  <2> QED BY <2>1, <2>2, <2>3
<1>6. \A b \in Values : hash[b] \subseteq 0 .. Len(out)
  BY <1>5
<1> QED BY <1>1, <1>2, <1>3, <1>6 DEF TypeOK

\* The variables are of their types: the padding of a jump, a count of NOPs, is never less
\* than nothing, so the length a jump was given always holds its offset.
THEOREM ModuleTypeCorrect == Spec => []TypeOK
<1>1. Init => CodeInv /\ BlobInv
  BY CodeInvInit, BlobInvInit
<1>2. CodeInv /\ BlobInv /\ [Next]_vars => (CodeInv /\ BlobInv)'
  BY CodeInvNext, BlobInvNext
<1>3. CodeInv /\ BlobInv => TypeOK
  BY InvTyped
<1> QED BY <1>1, <1>2, <1>3, PTL DEF Spec
=============================================================================
