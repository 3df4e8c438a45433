----------------------------- MODULE MemoryProofs -----------------------------
(***************************************************************************)
(* Proofs about NativeMemory, for regions of every size and blocks of      *)
(* every length.                                                           *)
(***************************************************************************)
EXTENDS NativeMemory, SequenceTheorems, FiniteSetTheorems, TLAPS

-----------------------------------------------------------------------------
(* Numbers *)

\* A set of naturals that is not empty has a least element.
LEMMA LeastExists ==
    ASSUME NEW T \in SUBSET Nat, T # {}
    PROVE  \E x \in T : \A y \in T : x <= y
<1> DEFINE U == {0 .. x : x \in T}
<1>1. IsWellFoundedOn(StrictSubsetOrdering(Nat), FiniteSubsetsOf(Nat))
  BY FS_StrictSubsetOrderingWellFounded
<1>2. U \subseteq FiniteSubsetsOf(Nat) /\ U # {}
  <2>1. ASSUME NEW x \in T PROVE 0 .. x \in SUBSET Nat /\ IsFiniteSet(0 .. x)
    BY FS_Interval
  <2> QED BY <2>1 DEF FiniteSubsetsOf
<1>3. PICK m \in U : \A u \in U : <<u, m>> \notin StrictSubsetOrdering(Nat)
  <2> HIDE DEF U
  <2> QED BY <1>1, <1>2, WFMin
<1>4. PICK x \in T : m = 0 .. x
  OBVIOUS
<1>5. ASSUME NEW y \in T, y < x PROVE FALSE
  <2>1. 0 .. y \in U /\ 0 .. y \subseteq m /\ x \in m /\ x \notin 0 .. y
    BY <1>4, <1>5
  <2>2. <<0 .. y, m>> \in StrictSubsetOrdering(Nat)
    BY <2>1, <1>4 DEF StrictSubsetOrdering
  <2> QED BY <1>3, <2>1, <2>2
<1> QED BY <1>5

-----------------------------------------------------------------------------
(* Sequences changed at one place *)

\* The sequence r is s without its i-th element: those above it move down by one.
IsWithout(s, i, r) ==
    /\ r \in Seq(Blocks) /\ Len(r) = Len(s) - 1 /\ DOMAIN r = 1 .. Len(s) - 1
    /\ \A k \in 1 .. Len(s) - 1 : r[k] = IF k < i THEN s[k] ELSE s[k + 1]

\* The sequence r is s with e put in as the i-th element: those from there on move up by one.
IsWith(s, i, e, r) ==
    /\ r \in Seq(Blocks) /\ Len(r) = Len(s) + 1 /\ DOMAIN r = 1 .. Len(s) + 1
    /\ \A k \in 1 .. Len(s) + 1 : r[k] = IF k < i THEN s[k] ELSE IF k = i THEN e ELSE s[k - 1]

\* The sequence r is s with e in the place of the i-th element.
IsChanged(s, i, e, r) ==
    /\ r \in Seq(Blocks) /\ Len(r) = Len(s) /\ DOMAIN r = DOMAIN s
    /\ \A k \in DOMAIN s : r[k] = IF k = i THEN e ELSE s[k]

\* A sequence without its i-th element: those above it move down by one.
LEMMA Removed ==
    ASSUME NEW s \in Seq(Blocks), NEW i \in DOMAIN s,
           NEW r, r = RemoveAt(s, i)
    PROVE  IsWithout(s, i, r)
<1> DEFINE a == SubSeq(s, 1, i - 1)
           b == SubSeq(s, i + 1, Len(s))
<1>1. Len(s) \in Nat /\ i \in 1 .. Len(s) /\ \A k \in 1 .. Len(s) : s[k] \in Blocks
  OBVIOUS
<1>2. a \in Seq(Blocks) /\ Len(a) = i - 1 /\ \A k \in 1 .. i - 1 : a[k] = s[k]
  BY <1>1
<1>3. b \in Seq(Blocks) /\ Len(b) = Len(s) - i /\ \A k \in 1 .. Len(s) - i : b[k] = s[i + k]
  BY <1>1
<1>4. RemoveAt(s, i) = a \o b
  BY DEF RemoveAt
<1> HIDE DEF a, b
<1>5. /\ a \o b \in Seq(Blocks) /\ Len(a \o b) = Len(s) - 1
      /\ \A k \in 1 .. Len(s) - 1 : (a \o b)[k] = IF k <= i - 1 THEN a[k] ELSE b[k - (i - 1)]
  <2>1. Len(a) + Len(b) = Len(s) - 1
    BY <1>1, <1>2, <1>3
  <2>2. /\ a \o b \in Seq(Blocks) /\ Len(a \o b) = Len(a) + Len(b)
        /\ \A k \in 1 .. Len(a) + Len(b) : (a \o b)[k] = IF k <= Len(a) THEN a[k] ELSE b[k - Len(a)]
    BY <1>2, <1>3, ConcatProperties
  <2> QED BY <2>1, <2>2, <1>2, <1>3
<1>6. \A k \in 1 .. Len(s) - 1 : (a \o b)[k] = IF k < i THEN s[k] ELSE s[k + 1]
  <2> SUFFICES ASSUME NEW k \in 1 .. Len(s) - 1
               PROVE  (a \o b)[k] = IF k < i THEN s[k] ELSE s[k + 1]
    OBVIOUS
  <2>1. k \in Int /\ i \in Int /\ Len(s) \in Int
    BY <1>1
  <2>2. (a \o b)[k] = IF k <= i - 1 THEN a[k] ELSE b[k - (i - 1)]
    BY <1>5
  <2>3. CASE k <= i - 1
    <3>1. k \in 1 .. i - 1 /\ k < i
      BY <2>1, <2>3
    <3> QED BY <2>2, <2>3, <3>1, <1>2
  <2>4. CASE ~(k <= i - 1)
    <3>1. k - (i - 1) \in 1 .. Len(s) - i /\ i + (k - (i - 1)) = k + 1 /\ ~(k < i)
      BY <2>1, <2>4, <1>1
    <3> QED BY <2>2, <2>4, <3>1, <1>3
  <2> QED BY <2>3, <2>4
<1>7. r = a \o b /\ DOMAIN r = 1 .. Len(r)
  BY <1>4, <1>5
<1> QED BY <1>5, <1>6, <1>7 DEF IsWithout

\* A sequence with e put in as its i-th element: those from there on move up by one.
LEMMA Inserted ==
    ASSUME NEW s \in Seq(Blocks), NEW i, i \in 1 .. Len(s) + 1, NEW e \in Blocks,
           NEW r, r = InsertAt(s, i, e)
    PROVE  IsWith(s, i, e, r)
<1> DEFINE a == SubSeq(s, 1, i - 1)
           b == SubSeq(s, i, Len(s))
           c == a \o <<e>>
<1>1. Len(s) \in Nat /\ \A k \in 1 .. Len(s) : s[k] \in Blocks
  OBVIOUS
<1>2. a \in Seq(Blocks) /\ Len(a) = i - 1 /\ \A k \in 1 .. i - 1 : a[k] = s[k]
  BY <1>1
<1>3. b \in Seq(Blocks) /\ Len(b) = Len(s) + 1 - i /\ \A k \in 1 .. Len(s) + 1 - i : b[k] = s[i + k - 1]
  BY <1>1
<1>4. InsertAt(s, i, e) = c \o b
  BY DEF InsertAt
<1> HIDE DEF a, b
<1>5. c \in Seq(Blocks) /\ Len(c) = i /\ \A k \in 1 .. i : c[k] = IF k = i THEN e ELSE s[k]
  BY <1>1, <1>2
<1> HIDE DEF c
<1>6. /\ c \o b \in Seq(Blocks) /\ Len(c \o b) = Len(s) + 1
      /\ \A k \in 1 .. Len(s) + 1 : (c \o b)[k] = IF k <= i THEN c[k] ELSE b[k - i]
  <2>1. Len(c) + Len(b) = Len(s) + 1
    BY <1>1, <1>3, <1>5
  <2>2. /\ c \o b \in Seq(Blocks) /\ Len(c \o b) = Len(c) + Len(b)
        /\ \A k \in 1 .. Len(c) + Len(b) : (c \o b)[k] = IF k <= Len(c) THEN c[k] ELSE b[k - Len(c)]
    BY <1>3, <1>5, ConcatProperties
  <2> QED BY <2>1, <2>2, <1>3, <1>5
<1>7. \A k \in 1 .. Len(s) + 1 : (c \o b)[k] = IF k < i THEN s[k] ELSE IF k = i THEN e ELSE s[k - 1]
  BY <1>1, <1>3, <1>5, <1>6
<1>8. r = c \o b /\ DOMAIN r = 1 .. Len(r)
  BY <1>4, <1>6
<1> QED BY <1>6, <1>7, <1>8 DEF IsWith

\* A sequence with e in the place of its i-th element.
LEMMA Replaced ==
    ASSUME NEW s \in Seq(Blocks), NEW i \in DOMAIN s, NEW e \in Blocks,
           NEW r, r = ReplaceAt(s, i, e)
    PROVE  IsChanged(s, i, e, r)
BY DEF ReplaceAt, IsChanged

\* The block the search of the free list ends at, if it finds one, is large enough.
LEMMA FirstFitFits ==
    ASSUME free \in Seq(Blocks), NEW len
    PROVE  \/ FirstFit(len) = 0
           \/ FirstFit(len) \in DOMAIN free /\ free[FirstFit(len)].len >= len
<1> DEFINE I == {i \in 1 .. Len(free) : Fits(free[i], len)}
<1>1. FirstFit(len) = IF I # {} THEN Min(I) ELSE 0
  BY DEF FirstFit, SelectInSeq
<1>2. CASE I # {}
  <2>1. I \in SUBSET Nat
    OBVIOUS
  <2>2. Min(I) \in I
    <3> HIDE DEF I
    <3>1. \E x \in I : \A y \in I : x <= y
      BY <1>2, <2>1, LeastExists
    <3> QED BY <3>1 DEF Min
  <2> QED BY <1>1, <1>2, <2>2 DEF Fits
<1> QED BY <1>1, <1>2

-----------------------------------------------------------------------------
(* Lists of free blocks *)

\* A block of the region.
Sound(b) == b \in Blocks /\ End(b) <= Size

\* The list is in address order, and between two of its blocks there is something.
Tidy(list) ==
    /\ list \in Seq(Blocks)
    /\ \A i \in DOMAIN list : Sound(list[i])
    /\ \A i, j \in DOMAIN list : i < j => End(list[i]) < list[j].at

\* Block b shares no unit with a block of the list.
Clear(list, b) == \A i \in DOMAIN list : Apart(list[i], b)

InBlock(b, u) == b.at <= u /\ u < End(b)

\* The list r is the list with e in the place of its blocks p + 1 to q.
Exchanged(list, p, q, e, r) ==
    /\ r \in Seq(Blocks) /\ Len(r) = Len(list) + 1 + p - q
    /\ \A k \in 1 .. Len(r) :
         r[k] = IF k <= p THEN list[k] ELSE IF k = p + 1 THEN e ELSE list[k - p - 1 + q]

\* What arithmetic needs to know of a block.
LEMMA BlockNumbers ==
    ASSUME NEW b \in Blocks
    PROVE  /\ b.at \in Nat /\ b.len \in Nat /\ b.len >= 1 /\ b.at <= Size - 1 /\ b.len <= Size
           /\ End(b) = b.at + b.len /\ End(b) \in Nat /\ b.at < End(b) /\ b = Block(b.at, b.len)
BY NativeMemoryAssumption DEF Blocks, End, Block

\* A block of the region, from where it begins and how long it is.
LEMMA BlockSound ==
    ASSUME NEW at \in Nat, NEW len \in Nat, len >= 1, at + len <= Size
    PROVE  /\ Block(at, len) \in Blocks /\ Sound(Block(at, len))
           /\ Block(at, len).at = at /\ Block(at, len).len = len /\ End(Block(at, len)) = at + len
<1>1. Size \in Nat /\ at \in 0 .. Size - 1 /\ len \in 1 .. Size
  BY NativeMemoryAssumption
<1> QED BY <1>1 DEF Blocks, Sound, Block, End

\* The elements of a tidy list, with the numbers of each.
LEMMA TidyNumbers ==
    ASSUME NEW list, Tidy(list), NEW i \in DOMAIN list
    PROVE  /\ Len(list) \in Nat /\ DOMAIN list = 1 .. Len(list) /\ i \in Int
           /\ list[i] \in Blocks /\ list[i].at \in Nat /\ list[i].len \in Nat /\ list[i].len >= 1
           /\ End(list[i]) = list[i].at + list[i].len /\ End(list[i]) \in Nat
           /\ list[i].at < End(list[i]) /\ End(list[i]) <= Size
<1>1. list \in Seq(Blocks) /\ Sound(list[i])
  BY DEF Tidy
<1>2. list[i] \in Blocks /\ End(list[i]) <= Size
  BY <1>1 DEF Sound
<1>3. Len(list) \in Nat /\ DOMAIN list = 1 .. Len(list) /\ i \in Int
  BY <1>1
<1> QED BY <1>2, <1>3, BlockNumbers

\* A list whose neighbours are in order is in order.
LEMMA OrderIsGlobal ==
    ASSUME free \in Seq(Blocks), FreeListOrdered,
           NEW i \in DOMAIN free, NEW j \in DOMAIN free, i < j
    PROVE  free[i].at < free[j].at
<1> DEFINE T == {k \in i + 1 .. Len(free) : ~(free[i].at < free[k].at)}
<1>1. Len(free) \in Nat /\ DOMAIN free = 1 .. Len(free) /\ i \in Nat /\ j \in Nat
  OBVIOUS
<1>2. SUFFICES ASSUME T # {} PROVE FALSE
  <2>1. j \notin T => free[i].at < free[j].at
    BY <1>1
  <2> QED BY <1>2, <2>1
<1>3. T \in SUBSET Nat
  BY <1>1
<1>4. PICK k \in T : \A m \in T : k <= m
  <2> HIDE DEF T
  <2> QED BY <1>2, <1>3, LeastExists
<1>5. k \in i + 1 .. Len(free) /\ k \in Int /\ ~(free[i].at < free[k].at)
  BY <1>1, <1>4
<1>6. k - 1 \in 1 .. Len(free) - 1 /\ (k - 1) + 1 = k
  BY <1>1, <1>5
<1>7. free[k - 1].at < free[k].at
  BY <1>6 DEF FreeListOrdered
<1>8. CASE k = i + 1
  BY <1>1, <1>5, <1>7, <1>8
<1>9. CASE k # i + 1
  <2>1. k - 1 \in i + 1 .. Len(free) /\ ~(k <= k - 1)
    BY <1>1, <1>5, <1>9
  <2>2. free[i].at < free[k - 1].at
    BY <1>4, <2>1
  <2>3. free[i].at \in Int /\ free[k - 1].at \in Int /\ free[k].at \in Int
    <3>1. free[i] \in Blocks /\ free[k - 1] \in Blocks /\ free[k] \in Blocks
      BY <1>1, <1>5, <1>6
    <3>2. \A b \in Blocks : b.at \in Int
      BY BlockNumbers
    <3> QED BY <3>1, <3>2
  <2> QED BY <1>5, <1>7, <2>2, <2>3
<1> QED BY <1>8, <1>9

\* An element of a list replaced.
LEMMA ReplaceExchanges ==
    ASSUME NEW list \in Seq(Blocks), NEW i \in DOMAIN list, NEW e \in Blocks,
           NEW r, r = ReplaceAt(list, i, e)
    PROVE  Exchanged(list, i - 1, i, e, r)
<1>1. Len(list) \in Nat /\ DOMAIN list = 1 .. Len(list) /\ i \in Nat
  OBVIOUS
<1>2. /\ r \in Seq(Blocks) /\ Len(r) = Len(list)
      /\ \A k \in DOMAIN list : r[k] = IF k = i THEN e ELSE list[k]
  <2>1. IsChanged(list, i, e, r)
    BY Replaced
  <2> QED BY <2>1 DEF IsChanged
<1>3. ASSUME NEW k \in 1 .. Len(r)
      PROVE  r[k] = IF k <= i - 1 THEN list[k] ELSE IF k = (i - 1) + 1 THEN e
                    ELSE list[k - (i - 1) - 1 + i]
  <2>1. k \in Int /\ k - (i - 1) - 1 + i = k /\ (k <= i - 1 => k # i)
    BY <1>1
  <2> QED BY <1>1, <1>2, <2>1
<1> QED BY <1>1, <1>2, <1>3 DEF Exchanged

\* Two elements of a list replaced by one.
LEMMA JoinExchanges ==
    ASSUME NEW list \in Seq(Blocks), NEW i \in DOMAIN list, NEW j \in DOMAIN list, j = i + 1,
           NEW e \in Blocks, NEW s, s = RemoveAt(list, j), NEW r, r = ReplaceAt(s, i, e)
    PROVE  Exchanged(list, i - 1, i + 1, e, r)
<1>1. /\ s \in Seq(Blocks) /\ Len(s) = Len(list) - 1 /\ DOMAIN s = 1 .. Len(list) - 1
      /\ \A k \in 1 .. Len(list) - 1 : s[k] = IF k < j THEN list[k] ELSE list[k + 1]
  <2>1. IsWithout(list, j, s)
    BY Removed
  <2> QED BY <2>1 DEF IsWithout
<1>2. Len(list) \in Nat /\ i \in Nat /\ i \in 1 .. Len(list) - 1
  <2>1. DOMAIN list = 1 .. Len(list) /\ Len(list) \in Nat
    OBVIOUS
  <2> QED BY <2>1
<1>3. s \in Seq(Blocks)
  BY <1>1
<1>4. i \in DOMAIN s
  BY <1>1, <1>2
<1>5. r \in Seq(Blocks) /\ Len(r) = Len(s) /\ \A k \in DOMAIN s : r[k] = IF k = i THEN e ELSE s[k]
  <2>1. IsChanged(s, i, e, r)
    BY <1>3, <1>4, Replaced
  <2> QED BY <2>1 DEF IsChanged
<1>6. Len(r) = Len(list) - 1 /\ DOMAIN s = 1 .. Len(r)
  BY <1>1, <1>5
<1>7. ASSUME NEW k \in 1 .. Len(r)
      PROVE  r[k] = IF k <= i - 1 THEN list[k] ELSE IF k = (i - 1) + 1 THEN e
                    ELSE list[k - (i - 1) - 1 + (i + 1)]
  <2>1. k \in Int /\ k - (i - 1) - 1 + (i + 1) = k + 1
    BY <1>2
  <2>2. r[k] = IF k = i THEN e ELSE s[k]
    BY <1>5, <1>6
  <2>3. s[k] = IF k < i + 1 THEN list[k] ELSE list[k + 1]
    BY <1>1, <1>6
  <2>4. CASE k <= i - 1
    <3>1. k # i /\ k < i + 1
      BY <1>2, <2>1, <2>4
    <3> QED BY <2>2, <2>3, <2>4, <3>1
  <2>5. CASE k = i
    <3>1. ~(k <= i - 1) /\ k = (i - 1) + 1
      BY <1>2, <2>5
    <3> QED BY <2>2, <2>5, <3>1
  <2>6. CASE k > i
    <3>1. ~(k <= i - 1) /\ k # (i - 1) + 1 /\ k # i /\ ~(k < i + 1)
      BY <1>2, <2>1, <2>6
    <3>2. r[k] = list[k + 1]
      BY <2>2, <2>3, <3>1
    <3>3. list[k - (i - 1) - 1 + (i + 1)] = list[k + 1]
      BY <2>1
    <3>4. r[k] = list[k - (i - 1) - 1 + (i + 1)]
      BY <3>2, <3>3
    <3> QED BY <3>1, <3>4, Zenon
  <2> QED BY <1>2, <2>1, <2>4, <2>5, <2>6
<1>8. r \in Seq(Blocks) /\ Len(r) = Len(list) + 1 + (i - 1) - (i + 1)
  <2>1. Len(list) + 1 + (i - 1) - (i + 1) = Len(list) - 1
    BY <1>2
  <2> QED BY <1>5, <1>6, <2>1
<1> QED BY <1>7, <1>8, Zenon DEF Exchanged

\* An element put in as the i-th of a list.
LEMMA InsertExchanges ==
    ASSUME NEW list \in Seq(Blocks), NEW i, i \in 1 .. Len(list) + 1, NEW e \in Blocks,
           NEW r, r = InsertAt(list, i, e)
    PROVE  Exchanged(list, i - 1, i - 1, e, r)
<1>1. /\ r \in Seq(Blocks) /\ Len(r) = Len(list) + 1
      /\ \A k \in 1 .. Len(list) + 1 :
           r[k] = IF k < i THEN list[k] ELSE IF k = i THEN e ELSE list[k - 1]
  <2>1. IsWith(list, i, e, r)
    BY Inserted
  <2> QED BY <2>1 DEF IsWith
<1>2. Len(list) \in Nat /\ i \in Int
  OBVIOUS
<1>3. ASSUME NEW k \in 1 .. Len(r)
      PROVE  r[k] = IF k <= i - 1 THEN list[k] ELSE IF k = (i - 1) + 1 THEN e
                    ELSE list[k - (i - 1) - 1 + (i - 1)]
  <2>1. k \in Int /\ k - (i - 1) - 1 + (i - 1) = k - 1 /\ (k <= i - 1 <=> k < i) /\ (i - 1) + 1 = i
    BY <1>2
  <2> QED BY <1>1, <2>1
<1> QED BY <1>1, <1>2, <1>3 DEF Exchanged

\* An element put at the head of a list.
LEMMA PrependExchanges ==
    ASSUME NEW list \in Seq(Blocks), NEW e \in Blocks, NEW r, r = <<e>> \o list
    PROVE  Exchanged(list, 0, 0, e, r)
<1> DEFINE one == <<e>>
<1>1. one \in Seq(Blocks) /\ Len(one) = 1 /\ one[1] = e
  OBVIOUS
<1>2. Len(list) \in Nat /\ r = one \o list
  OBVIOUS
<1> HIDE DEF one
<1>3. /\ one \o list \in Seq(Blocks) /\ Len(one \o list) = Len(one) + Len(list)
      /\ \A k \in 1 .. Len(one) + Len(list) :
           (one \o list)[k] = IF k <= Len(one) THEN one[k] ELSE list[k - Len(one)]
  BY <1>1, ConcatProperties
<1>4. Len(r) = Len(list) + 1 /\ r \in Seq(Blocks)
  BY <1>1, <1>2, <1>3
<1>5. ASSUME NEW k \in 1 .. Len(r)
      PROVE  r[k] = IF k <= 0 THEN list[k] ELSE IF k = 0 + 1 THEN e ELSE list[k - 0 - 1 + 0]
  <2>1. k \in Int /\ k - 0 - 1 + 0 = k - 1 /\ ~(k <= 0) /\ k \in 1 .. Len(one) + Len(list)
    BY <1>1, <1>2, <1>4
  <2>2. r[k] = IF k <= 1 THEN one[k] ELSE list[k - 1]
    BY <1>1, <1>2, <1>3, <2>1
  <2> QED BY <1>1, <2>1, <2>2
<1> QED BY <1>2, <1>4, <1>5 DEF Exchanged

\* With e in the place of some blocks, a tidy list is tidy if e fits between the others.
LEMMA ExchangeKeepsTidy ==
    ASSUME NEW list, Tidy(list), NEW p \in 0 .. Len(list), NEW q \in p .. Len(list),
           NEW e, Sound(e), NEW r, Exchanged(list, p, q, e, r),
           \A k \in 1 .. p : End(list[k]) < e.at,
           \A k \in q + 1 .. Len(list) : End(e) < list[k].at
    PROVE  Tidy(r)
<1>1. Len(list) \in Nat /\ DOMAIN list = 1 .. Len(list) /\ p \in Int /\ q \in Int
  BY DEF Tidy
<1>2. /\ r \in Seq(Blocks) /\ Len(r) = Len(list) + 1 + p - q /\ DOMAIN r = 1 .. Len(r)
      /\ \A k \in 1 .. Len(r) :
           r[k] = IF k <= p THEN list[k] ELSE IF k = p + 1 THEN e ELSE list[k - p - 1 + q]
  BY DEF Exchanged
<1>3. ASSUME NEW k \in 1 .. Len(r)
      PROVE  \/ k <= p /\ k \in DOMAIN list /\ r[k] = list[k]
             \/ k = p + 1 /\ r[k] = e
             \/ k > p + 1 /\ k - p - 1 + q \in q + 1 .. Len(list) /\ k - p - 1 + q \in DOMAIN list
                /\ r[k] = list[k - p - 1 + q]
  <2>1. k \in Int
    OBVIOUS
  <2> QED BY <1>1, <1>2, <2>1
<1>4. \A k \in DOMAIN r : Sound(r[k])
  BY <1>2, <1>3 DEF Tidy
<1>5. ASSUME NEW i \in 1 .. Len(r), NEW j \in 1 .. Len(r), i < j
      PROVE  End(r[i]) < r[j].at
  <2>1. i \in Int /\ j \in Int
    OBVIOUS
  <2>2. CASE i <= p /\ j <= p
    <3>1. i \in DOMAIN list /\ j \in DOMAIN list /\ r[i] = list[i] /\ r[j] = list[j]
      BY <1>1, <1>2, <2>1, <2>2
    <3> QED BY <3>1, <1>5 DEF Tidy
  <2>3. CASE i <= p /\ j = p + 1
    <3>1. i \in 1 .. p /\ r[i] = list[i] /\ r[j] = e
      BY <1>1, <1>2, <2>1, <2>3
    <3> QED BY <3>1
  <2>4. CASE i <= p /\ j > p + 1
    <3>1. /\ r[i] = list[i] /\ r[j] = list[j - p - 1 + q]
          /\ i \in DOMAIN list /\ j - p - 1 + q \in DOMAIN list /\ i < j - p - 1 + q
      BY <1>1, <1>2, <2>1, <2>4
    <3> QED BY <3>1 DEF Tidy
  <2>5. CASE i = p + 1
    <3>1. r[i] = e /\ r[j] = list[j - p - 1 + q] /\ j - p - 1 + q \in q + 1 .. Len(list)
      BY <1>1, <1>2, <1>5, <2>1, <2>5
    <3> QED BY <3>1
  <2>6. CASE i > p + 1
    <3>1. /\ r[i] = list[i - p - 1 + q] /\ r[j] = list[j - p - 1 + q]
          /\ i - p - 1 + q \in DOMAIN list /\ j - p - 1 + q \in DOMAIN list
          /\ i - p - 1 + q < j - p - 1 + q
      BY <1>1, <1>2, <1>5, <2>1, <2>6
    <3> QED BY <3>1 DEF Tidy
  <2> QED BY <1>1, <1>5, <2>1, <2>2, <2>3, <2>4, <2>5, <2>6
<1> QED BY <1>2, <1>4, <1>5 DEF Tidy

\* With e in the place of some blocks, the list shares no unit with a block that shares
\* none with the list nor with e.
LEMMA ExchangeKeepsClear ==
    ASSUME NEW list, Tidy(list), NEW p \in 0 .. Len(list), NEW q \in p .. Len(list),
           NEW e, NEW r, Exchanged(list, p, q, e, r), NEW c, Clear(list, c), Apart(e, c)
    PROVE  Clear(r, c)
<1>1. Len(list) \in Nat /\ DOMAIN list = 1 .. Len(list) /\ p \in Int /\ q \in Int
  BY DEF Tidy
<1>2. /\ r \in Seq(Blocks) /\ Len(r) = Len(list) + 1 + p - q /\ DOMAIN r = 1 .. Len(r)
      /\ \A k \in 1 .. Len(r) :
           r[k] = IF k <= p THEN list[k] ELSE IF k = p + 1 THEN e ELSE list[k - p - 1 + q]
  BY DEF Exchanged
<1>3. ASSUME NEW k \in 1 .. Len(r) PROVE Apart(r[k], c)
  <2>1. k \in Int
    OBVIOUS
  <2>2. \/ k \in DOMAIN list /\ r[k] = list[k]
        \/ r[k] = e
        \/ k - p - 1 + q \in DOMAIN list /\ r[k] = list[k - p - 1 + q]
    BY <1>1, <1>2, <2>1
  <2> QED BY <2>2 DEF Clear
<1> QED BY <1>2, <1>3 DEF Clear

\* A unit of the list is in the list with e in the place of some blocks, if it is in none of
\* those or in e.
LEMMA ExchangeCovers ==
    ASSUME NEW list, Tidy(list), NEW p \in 0 .. Len(list), NEW q \in p .. Len(list),
           NEW e, NEW r, Exchanged(list, p, q, e, r), NEW u,
           InBlock(e, u) \/ \E k \in DOMAIN list : InBlock(list[k], u) /\ (k <= p \/ k > q)
    PROVE  \E k \in DOMAIN r : InBlock(r[k], u)
<1>1. Len(list) \in Nat /\ DOMAIN list = 1 .. Len(list) /\ p \in Int /\ q \in Int
  BY DEF Tidy
<1>2. /\ r \in Seq(Blocks) /\ Len(r) = Len(list) + 1 + p - q /\ DOMAIN r = 1 .. Len(r)
      /\ \A k \in 1 .. Len(r) :
           r[k] = IF k <= p THEN list[k] ELSE IF k = p + 1 THEN e ELSE list[k - p - 1 + q]
  BY DEF Exchanged
<1>3. CASE InBlock(e, u)
  <2>1. p + 1 \in DOMAIN r /\ r[p + 1] = e
    BY <1>1, <1>2
  <2> QED BY <1>3, <2>1
<1>4. ASSUME NEW k \in DOMAIN list, InBlock(list[k], u), k <= p
      PROVE  \E m \in DOMAIN r : InBlock(r[m], u)
  <2>1. k \in DOMAIN r /\ r[k] = list[k]
    BY <1>1, <1>2, <1>4
  <2> QED BY <1>4, <2>1
<1>5. ASSUME NEW k \in DOMAIN list, InBlock(list[k], u), k > q
      PROVE  \E m \in DOMAIN r : InBlock(r[m], u)
  <2>1. k \in Int /\ k <= Len(list)
    BY <1>1
  <2>2. k - q + p + 1 \in DOMAIN r
    BY <1>1, <1>2, <1>5, <2>1
  <2>3. r[k - q + p + 1] = list[k]
    <3>1. ~(k - q + p + 1 <= p) /\ k - q + p + 1 # p + 1 /\ (k - q + p + 1) - p - 1 + q = k
      BY <1>1, <1>5, <2>1
    <3> QED BY <1>2, <2>2, <3>1
  <2> QED BY <1>5, <2>2, <2>3
<1> QED BY <1>3, <1>4, <1>5

-----------------------------------------------------------------------------
(* What a free does to the list *)

\* A free that swallows: b lies after the p-th block and not against it, and takes the
\* place of the next one, against which it lies.
Swallows(list, b, p) ==
    /\ p \in 1 .. Len(list) - 1
    /\ list[p].at < b.at /\ End(list[p]) # b.at /\ End(b) = list[p + 1].at

\* Block e has b in it, and stands for b and the blocks p + 1 to q of the list.
Absorbs(list, b, p, q, e) ==
    /\ p \in 0 .. Len(list) /\ q \in p .. Len(list) /\ Sound(e)
    /\ e.at <= b.at /\ End(b) <= End(e)
    /\ \A k \in 1 .. p : End(list[k]) < e.at
    /\ \A k \in q + 1 .. Len(list) : End(e) < list[k].at
    /\ \A c \in Blocks : Apart(b, c) /\ Clear(list, c) => Apart(e, c)
    /\ \/ \A k \in p + 1 .. q : e.at <= list[k].at /\ End(list[k]) <= End(e)
       \/ q = p + 1 /\ e = b /\ Swallows(list, b, p)

\* Two blocks that touch, taken as one, are apart from what both are apart from.
LEMMA JoinApart ==
    ASSUME NEW x \in Blocks, NEW y \in Blocks, NEW e \in Blocks, NEW c \in Blocks,
           End(x) = y.at, e.at = x.at, End(e) = End(y), Apart(x, c), Apart(y, c)
    PROVE  Apart(e, c)
<1>1. /\ x.at \in Nat /\ y.at \in Nat /\ c.at \in Nat
      /\ x.at < End(x) /\ y.at < End(y) /\ c.at < End(c)
      /\ End(x) \in Nat /\ End(y) \in Nat /\ End(c) \in Nat
  BY BlockNumbers
<1> QED BY <1>1 DEF Apart

\* Where b lies between the blocks of a tidy list it is apart from.
LEMMA PlaceBetween ==
    ASSUME NEW list, Tidy(list), NEW b, Sound(b), Clear(list, b), NEW i \in DOMAIN list
    PROVE  /\ list[i].at < b.at => \A k \in 1 .. i : End(list[k]) <= b.at
           /\ list[i].at >= b.at => \A k \in i .. Len(list) : End(b) <= list[k].at
<1>1. /\ b.at \in Nat /\ End(b) \in Nat /\ b.at < End(b)
      /\ Len(list) \in Nat /\ DOMAIN list = 1 .. Len(list) /\ i \in Int
  <2>1. b \in Blocks
    BY DEF Sound
  <2> QED BY <2>1, BlockNumbers, TidyNumbers
<1>2. ASSUME NEW k \in DOMAIN list
      PROVE  /\ list[k].at \in Nat /\ End(list[k]) \in Nat /\ list[k].at < End(list[k])
             /\ Apart(list[k], b)
  BY TidyNumbers DEF Clear
<1>3. ASSUME list[i].at < b.at, NEW k \in 1 .. i PROVE End(list[k]) <= b.at
  <2>1. k \in DOMAIN list /\ k \in Int
    BY <1>1
  <2>2. list[k].at <= list[i].at
    <3>1. CASE k = i
      BY <1>2, <3>1
    <3>2. CASE k # i
      <4>1. End(list[k]) < list[i].at
        BY <1>1, <2>1, <3>2 DEF Tidy
      <4> QED BY <4>1, <1>2, <2>1
    <3> QED BY <3>1, <3>2
  <2> QED BY <1>1, <1>2, <1>3, <2>1, <2>2 DEF Apart
<1>4. ASSUME list[i].at >= b.at, NEW k \in i .. Len(list) PROVE End(b) <= list[k].at
  <2>1. k \in DOMAIN list /\ k \in Int
    BY <1>1
  <2>2. list[k].at >= list[i].at
    <3>1. CASE k = i
      BY <1>2, <3>1
    <3>2. CASE k # i
      <4>1. End(list[i]) < list[k].at
        BY <1>1, <2>1, <3>2 DEF Tidy
      <4> QED BY <4>1, <1>2, <2>1
    <3> QED BY <3>1, <3>2
  <2> QED BY <1>1, <1>2, <1>4, <2>1, <2>2 DEF Apart
<1> QED BY <1>3, <1>4

\* The branches of the free for a block that goes after the i-th one of the list.
LEMMA SpliceAbsorbs ==
    ASSUME NEW list, Tidy(list), NEW b, Sound(b), Clear(list, b), NEW i \in DOMAIN list,
           list[i].at < b.at, i = Len(list) \/ list[i + 1].at > b.at
    PROVE  \E p, q, e : Absorbs(list, b, p, q, e) /\ Exchanged(list, p, q, e, Splice(list, i, b))
<1> DEFINE grown == [list[i] EXCEPT !.len = @ + b.len]
           joined == [grown EXCEPT !.len = @ + list[i + 1].len]
           next(e) == i < Len(list) /\ End(e) = list[i + 1].at
           r == Splice(list, i, b)
<1>0. list \in Seq(Blocks)
  BY DEF Tidy
<1>1. Len(list) \in Nat /\ DOMAIN list = 1 .. Len(list) /\ i \in Nat
  BY <1>0
<1>2. /\ b \in Blocks /\ b.at \in Nat /\ b.len \in Nat /\ b.len >= 1 /\ End(b) = b.at + b.len
      /\ End(b) <= Size /\ Size \in Nat
  BY BlockNumbers, NativeMemoryAssumption DEF Sound
<1>3. \A k \in DOMAIN list :
        /\ list[k] \in Blocks /\ list[k].at \in Nat /\ list[k].len \in Nat /\ list[k].len >= 1
        /\ End(list[k]) = list[k].at + list[k].len /\ End(list[k]) <= Size
  BY TidyNumbers
<1>b. b \in Blocks
  BY <1>2
<1>a. /\ list[i] \in Blocks /\ list[i].at \in Nat /\ list[i].len \in Nat /\ list[i].len >= 1
      /\ End(list[i]) = list[i].at + list[i].len /\ End(list[i]) \in Nat
  BY <1>3
<1> HIDE DEF grown, joined, r, next
<1>4. \A k, m \in DOMAIN list : k < m => End(list[k]) < list[m].at
  BY DEF Tidy
<1>5. \A k \in 1 .. i : End(list[k]) <= b.at
  BY PlaceBetween
<1>6. \A k \in i + 1 .. Len(list) : End(b) <= list[k].at
  <2>1. CASE i = Len(list)
    BY <1>1, <2>1
  <2>2. CASE i # Len(list)
    <3>1. i + 1 \in DOMAIN list /\ list[i + 1].at >= b.at
      <4>1. i + 1 \in DOMAIN list
        BY <1>1, <2>2
      <4> QED BY <1>2, <1>3, <2>2, <4>1
    <3> QED BY <3>1, PlaceBetween
  <2> QED BY <2>1, <2>2
<1>7. \A k \in 1 .. i - 1 : End(list[k]) < list[i].at
  BY <1>1, <1>4
<1>8. CASE End(list[i]) = b.at
  <2>1. /\ Sound(grown) /\ grown.at = list[i].at /\ End(grown) = End(b)
        /\ grown.len = list[i].len + b.len
    <3>1. grown = Block(list[i].at, list[i].len + b.len)
      BY <1>a DEF grown, Blocks, Block
    <3>3. list[i].at + (list[i].len + b.len) = End(b)
      BY <1>2, <1>a, <1>8
    <3>4. list[i].len + b.len \in Nat /\ list[i].len + b.len >= 1
      BY <1>2, <1>a
    <3>5. list[i].at + (list[i].len + b.len) <= Size
      BY <1>2, <3>3
    <3> QED BY <1>a, <3>1, <3>3, <3>4, <3>5, BlockSound
  <2>2. \A c \in Blocks : Apart(b, c) /\ Clear(list, c) => Apart(grown, c)
    <3>1. grown \in Blocks
      BY <2>1 DEF Sound
    <3>2. ASSUME NEW c \in Blocks, Apart(b, c), Clear(list, c) PROVE Apart(grown, c)
      <4>1. Apart(list[i], c)
        BY <3>2 DEF Clear
      <4> QED BY <1>2, <1>a, <1>8, <2>1, <3>1, <3>2, <4>1, JoinApart
    <3> QED BY <3>2
  <2>3. CASE ~next(grown)
    <3>1. r = ReplaceAt(list, i, grown)
      BY <1>8, <2>3 DEF Splice, r, next, grown
    <3>2. Exchanged(list, i - 1, i, grown, r)
      <4>1. grown \in Blocks
        BY <2>1 DEF Sound
      <4> QED BY <1>0, <3>1, <4>1, ReplaceExchanges
    <3>3. Absorbs(list, b, i - 1, i, grown)
      <4>1. \A k \in i + 1 .. Len(list) : End(grown) < list[k].at
        <5>1. \A k \in i + 1 .. Len(list) : End(b) <= list[k].at /\ k \in DOMAIN list
          BY <1>1, <1>6
        <5>2. i < Len(list) => End(grown) # list[i + 1].at
          BY <1>1, <2>3 DEF next
        <5>3. ASSUME NEW k \in i + 1 .. Len(list) PROVE End(grown) < list[k].at
          <6>0. list[k].at \in Nat /\ End(b) \in Nat /\ End(b) <= list[k].at
            BY <1>2, <1>3, <5>1
          <6>1. CASE k = i + 1
            <7>1. i < Len(list)
              BY <1>1, <6>1
            <7> QED BY <2>1, <5>2, <6>0, <6>1, <7>1
          <6>2. CASE k # i + 1
            <7>1. i + 1 \in DOMAIN list /\ k \in DOMAIN list /\ i + 1 < k /\ i + 1 \in i + 1 .. Len(list)
              BY <1>1, <6>2
            <7>2. End(list[i + 1]) < list[k].at
              BY <1>4, <7>1
            <7>3. /\ list[i + 1].at \in Nat /\ End(list[i + 1]) \in Nat /\ list[i + 1].at < End(list[i + 1])
                  /\ End(b) <= list[i + 1].at
              BY <1>3, <5>1, <7>1
            <7> QED BY <2>1, <6>0, <7>2, <7>3
          <6> QED BY <6>1, <6>2
        <5> QED BY <5>3
      <4>2. \A k \in (i - 1) + 1 .. i : grown.at <= list[k].at /\ End(list[k]) <= End(grown)
        <5>1. \A k \in (i - 1) + 1 .. i : k = i
          BY <1>1
        <5> QED BY <1>1, <1>2, <1>3, <1>8, <2>1, <5>1
      <4>3. i - 1 \in 0 .. Len(list) /\ i \in i - 1 .. Len(list)
        BY <1>1
      <4>4. grown.at <= b.at /\ End(b) <= End(grown)
        BY <1>1, <1>2, <1>3, <1>8, <2>1
      <4> QED BY <1>7, <2>1, <2>2, <4>1, <4>2, <4>3, <4>4 DEF Absorbs
    <3> QED BY <3>2, <3>3 DEF r
  <2>4. CASE next(grown)
    <3>0. i + 1 \in DOMAIN list /\ End(b) = list[i + 1].at /\ i < Len(list)
      BY <1>1, <2>1, <2>4 DEF next
    <3>a. i + 1 \in DOMAIN list
      BY <3>0
    <3>c. /\ list[i + 1].at \in Nat /\ list[i + 1].len \in Nat /\ list[i + 1].len >= 1
          /\ End(list[i + 1]) = list[i + 1].at + list[i + 1].len /\ End(list[i + 1]) \in Nat
          /\ End(list[i + 1]) <= Size
      BY <1>3, <3>a
    <3>1. /\ Sound(joined) /\ joined.at = list[i].at /\ End(joined) = End(list[i + 1])
      <4> DEFINE below == list[i]
                 above == list[i + 1]
      <4>0. /\ below \in Blocks /\ below.at \in Nat /\ below.len \in Nat /\ below.len >= 1
            /\ End(below) = below.at + below.len /\ End(below) = b.at
        BY <1>a, <1>8
      <4>1. /\ above.at \in Nat /\ above.len \in Nat /\ above.len >= 1
            /\ End(above) = above.at + above.len /\ End(above) <= Size /\ End(b) = above.at
        BY <3>c, <3>0
      <4>2. joined = [[below EXCEPT !.len = @ + b.len] EXCEPT !.len = @ + above.len]
        BY DEF joined, grown
      <4> HIDE DEF below, above
      <4>3. joined = Block(below.at, below.len + b.len + above.len)
        BY <4>0, <4>2 DEF Blocks, Block
      <4> DEFINE two == below.len + b.len
      <4>a. two \in Nat /\ two >= 1 /\ below.at + two = End(b)
        BY <1>2, <4>0
      <4> HIDE DEF two
      <4>b. two + above.len \in Nat /\ two + above.len >= 1 /\ below.at + (two + above.len) = End(above)
        BY <4>0, <4>1, <4>a
      <4> USE DEF two
      <4>4. below.at + (below.len + b.len + above.len) = End(above)
        BY <4>b
      <4>5. below.len + b.len + above.len \in Nat /\ below.len + b.len + above.len >= 1
        BY <4>b
      <4>6. below.at + (below.len + b.len + above.len) <= Size
        BY <4>1, <4>4
      <4>7. Sound(joined) /\ joined.at = below.at /\ End(joined) = End(above)
        BY <4>0, <4>3, <4>4, <4>5, <4>6, BlockSound
      <4> QED BY <4>7 DEF below, above
    <3>2. r = ReplaceAt(RemoveAt(list, i + 1), i, joined)
      BY <1>8, <2>4 DEF Splice, r, next, joined, grown
    <3>3. Exchanged(list, i - 1, i + 1, joined, r)
      <4>1. joined \in Blocks
        BY <3>1 DEF Sound
      <4>2. ASSUME NEW j, j = i + 1 PROVE Exchanged(list, i - 1, i + 1, joined, r)
        <5>1. j \in DOMAIN list /\ r = ReplaceAt(RemoveAt(list, j), i, joined)
          BY <3>a, <3>2, <4>2
        <5> QED BY <1>0, <4>1, <4>2, <5>1, JoinExchanges
      <4> QED BY <4>2
    <3>4. Absorbs(list, b, i - 1, i + 1, joined)
      <4>1. \A c \in Blocks : Apart(b, c) /\ Clear(list, c) => Apart(joined, c)
        <5>1. grown \in Blocks /\ joined \in Blocks
          BY <2>1, <3>1 DEF Sound
        <5>2. End(grown) = list[i + 1].at /\ joined.at = grown.at
          BY <2>1, <3>0, <3>1
        <5> QED BY <1>3, <2>2, <3>0, <3>1, <5>1, <5>2, JoinApart DEF Clear
      <4>2. \A k \in (i + 1) + 1 .. Len(list) : End(joined) < list[k].at
        <5>1. \A k \in (i + 1) + 1 .. Len(list) : k \in DOMAIN list /\ i + 1 < k
          BY <1>1
        <5> QED BY <1>4, <3>0, <3>1, <5>1
      <4>3. \A k \in (i - 1) + 1 .. i + 1 : joined.at <= list[k].at /\ End(list[k]) <= End(joined)
        <5>1. \A k \in (i - 1) + 1 .. i + 1 : k = i \/ k = i + 1
          BY <1>1
        <5>2. joined.at <= list[i].at /\ End(list[i]) <= End(joined)
          <6> DEFINE above == list[i + 1]
          <6>1. above.at \in Nat /\ End(above) \in Nat /\ above.at <= End(above) /\ End(b) = above.at
            BY <3>0, <3>c
          <6>2. joined.at = list[i].at /\ End(joined) = End(above)
            BY <3>1
          <6> HIDE DEF above
          <6> QED BY <1>2, <1>a, <1>8, <6>1, <6>2
        <5>3. joined.at <= list[i + 1].at /\ End(list[i + 1]) <= End(joined)
          <6> DEFINE above == list[i + 1]
          <6>1. above.at \in Nat /\ End(above) \in Nat /\ End(b) = above.at /\ End(joined) = End(above)
            BY <3>0, <3>1, <3>c
          <6>2. joined.at = list[i].at
            BY <3>1
          <6> HIDE DEF above
          <6>3. joined.at <= above.at /\ End(above) <= End(joined)
            BY <1>2, <1>a, <1>8, <6>1, <6>2
          <6> QED BY <6>3 DEF above
        <5> QED BY <5>1, <5>2, <5>3
      <4>4. i - 1 \in 0 .. Len(list) /\ i + 1 \in i - 1 .. Len(list)
        BY <1>1, <3>0
      <4>5. joined.at <= b.at /\ End(b) <= End(joined)
        <5> DEFINE above == list[i + 1]
        <5>1. above.at \in Nat /\ End(above) \in Nat /\ above.at <= End(above) /\ End(b) = above.at
          BY <3>0, <3>c
        <5>2. joined.at = list[i].at /\ End(joined) = End(above)
          BY <3>1
        <5> HIDE DEF above
        <5> QED BY <1>a, <1>8, <5>1, <5>2
      <4> QED BY <1>7, <3>1, <4>1, <4>2, <4>3, <4>4, <4>5 DEF Absorbs
    <3> QED BY <3>3, <3>4 DEF r
  <2> QED BY <2>3, <2>4
<1>9. CASE End(list[i]) # b.at
  <2>1. \A k \in 1 .. i : End(list[k]) < b.at
    <3>1. ASSUME NEW k \in 1 .. i PROVE End(list[k]) < b.at
      <4>1. CASE k = i
        <5>1. i \in 1 .. i
          BY <1>1
        <5> QED BY <1>2, <1>a, <1>5, <1>9, <4>1, <5>1
      <4>2. CASE k # i
        <5>1. k \in DOMAIN list /\ k < i
          BY <1>1, <4>2
        <5>2. End(list[k]) < list[i].at
          BY <1>4, <5>1
        <5> QED BY <1>2, <1>3, <5>1, <5>2
      <4> QED BY <4>1, <4>2
    <3> QED BY <3>1
  <2>2. CASE ~next(b)
    <3>b. i + 1 \in 1 .. Len(list) + 1
      BY <1>1
    <3>1. r = InsertAt(list, i + 1, b)
      BY <1>9, <2>2 DEF Splice, r, next
    <3>2. Exchanged(list, i, i, b, r)
      <4>1. Exchanged(list, (i + 1) - 1, (i + 1) - 1, b, r)
        BY <1>0, <1>b, <3>b, <3>1, InsertExchanges
      <4>2. (i + 1) - 1 = i
        BY <1>1
      <4> QED BY <4>1, <4>2
    <3>3. Absorbs(list, b, i, i, b)
      <4>1. \A k \in i + 1 .. Len(list) : End(b) < list[k].at
        <5>1. \A k \in i + 1 .. Len(list) : End(b) <= list[k].at /\ k \in DOMAIN list
          BY <1>1, <1>6
        <5>2. i < Len(list) => End(b) # list[i + 1].at
          BY <1>1, <2>2 DEF next
        <5>3. ASSUME NEW k \in i + 1 .. Len(list) PROVE End(b) < list[k].at
          <6>0. list[k].at \in Nat /\ End(b) \in Nat /\ End(b) <= list[k].at
            BY <1>2, <1>3, <5>1
          <6>1. CASE k = i + 1
            <7>1. i < Len(list)
              BY <1>1, <6>1
            <7> QED BY <5>2, <6>0, <6>1, <7>1
          <6>2. CASE k # i + 1
            <7>1. i + 1 \in DOMAIN list /\ k \in DOMAIN list /\ i + 1 < k /\ i + 1 \in i + 1 .. Len(list)
              BY <1>1, <6>2
            <7>2. End(list[i + 1]) < list[k].at
              BY <1>4, <7>1
            <7>3. /\ list[i + 1].at \in Nat /\ End(list[i + 1]) \in Nat /\ list[i + 1].at < End(list[i + 1])
                  /\ End(b) <= list[i + 1].at
              BY <1>3, <5>1, <7>1
            <7> QED BY <6>0, <7>2, <7>3
          <6> QED BY <6>1, <6>2
        <5> QED BY <5>3
      <4>2. i \in 0 .. Len(list) /\ i \in i .. Len(list) /\ b.at <= b.at /\ End(b) <= End(b)
        BY <1>1, <1>2
      <4>3. i + 1 .. i = {}
        BY <1>1
      <4> QED BY <2>1, <4>1, <4>2, <4>3 DEF Absorbs
    <3> QED BY <3>2, <3>3 DEF r
  <2>3. CASE next(b)
    <3>0. i + 1 \in DOMAIN list /\ End(b) = list[i + 1].at /\ i < Len(list)
      BY <1>1, <2>3 DEF next
    <3>a. i + 1 \in DOMAIN list
      BY <3>0
    <3>c. list[i + 1].at \in Nat /\ End(list[i + 1]) \in Nat /\ list[i + 1].at < End(list[i + 1])
      BY <1>3, <3>a
    <3>1. r = ReplaceAt(list, i + 1, b)
      BY <1>9, <2>3 DEF Splice, r, next
    <3>2. Exchanged(list, i, i + 1, b, r)
      <4>1. Exchanged(list, (i + 1) - 1, i + 1, b, r)
        BY <1>0, <1>b, <3>a, <3>1, ReplaceExchanges
      <4>2. (i + 1) - 1 = i
        BY <1>1
      <4> QED BY <4>1, <4>2
    <3>3. Absorbs(list, b, i, i + 1, b)
      <4>1. \A k \in (i + 1) + 1 .. Len(list) : End(b) < list[k].at
        <5>1. ASSUME NEW k \in (i + 1) + 1 .. Len(list) PROVE End(b) < list[k].at
          <6>1. k \in DOMAIN list /\ i + 1 < k
            BY <1>1
          <6>2. End(list[i + 1]) < list[k].at
            BY <1>4, <3>0, <6>1
          <6>3. list[k].at \in Nat
            BY <1>3, <6>1
          <6> QED BY <3>0, <3>c, <6>2, <6>3
        <5> QED BY <5>1
      <4>2. i \in 0 .. Len(list) /\ i + 1 \in i .. Len(list) /\ b.at <= b.at /\ End(b) <= End(b)
        BY <1>1, <1>2, <3>0
      <4>3. Swallows(list, b, i)
        BY <1>1, <1>9, <3>0 DEF Swallows
      <4> QED BY <2>1, <4>1, <4>2, <4>3 DEF Absorbs
    <3> QED BY <3>2, <3>3 DEF r
  <2> QED BY <2>2, <2>3
<1> QED BY <1>8, <1>9

\* Every free of a block of the region that is apart from the list puts one block on it, in
\* the place of those it is merged with.
LEMMA FreedAbsorbs ==
    ASSUME NEW list, Tidy(list), NEW b, Sound(b), Clear(list, b), NEW r \in Freed(list, b)
    PROVE  \E p, q, e : Absorbs(list, b, p, q, e) /\ Exchanged(list, p, q, e, r)
<1>0. list \in Seq(Blocks)
  BY DEF Tidy
<1>1. Len(list) \in Nat /\ DOMAIN list = 1 .. Len(list)
  BY <1>0
<1>2. b \in Blocks
  BY DEF Sound
<1>3. /\ b.at \in Nat /\ b.len \in Nat /\ b.len >= 1 /\ End(b) = b.at + b.len /\ End(b) \in Nat
      /\ b.at <= b.at /\ End(b) <= End(b)
  BY <1>2, BlockNumbers
<1>4. \A k \in DOMAIN list :
        /\ list[k] \in Blocks /\ list[k].at \in Nat /\ list[k].len \in Nat /\ list[k].len >= 1
        /\ End(list[k]) = list[k].at + list[k].len /\ End(list[k]) <= Size
  BY TidyNumbers
<1>5. CASE list = << >>
  <2>1. r = <<b>>
    BY <1>5 DEF Freed
  <2>2. Exchanged(list, 0, 0, b, r)
    BY <1>2, <1>5, <2>1 DEF Exchanged
  <2>3. Len(list) = 0
    BY <1>5
  <2>4. 0 \in 0 .. Len(list) /\ 0 + 1 .. 0 = {} /\ 0 + 1 .. Len(list) = {} /\ 1 .. 0 = {}
    BY <2>3
  <2>5. Absorbs(list, b, 0, 0, b)
    BY <1>3, <2>4 DEF Absorbs
  <2> QED BY <2>2, <2>5
<1>6. ASSUME list # << >>, list[1].at > b.at
      PROVE  \E p, q, e : Absorbs(list, b, p, q, e) /\ Exchanged(list, p, q, e, r)
  <2>0. 1 \in DOMAIN list
    BY <1>0, <1>1, <1>6
  <2> DEFINE head == list[1]
  <2>1. /\ head \in Blocks /\ head.at \in Nat /\ head.len \in Nat /\ head.len >= 1
        /\ End(head) = head.at + head.len /\ End(head) <= Size
    BY <1>4, <2>0
  <2>a. ~(list[1].at <= b.at)
    BY <1>3, <1>6, <2>1
  <2>2. \A k \in 1 .. Len(list) : End(b) <= list[k].at
    <3>1. head.at >= b.at
      BY <1>3, <1>6, <2>1
    <3> QED BY <2>0, <3>1, PlaceBetween
  <2>3. 0 \in 0 .. Len(list) /\ 1 .. 0 = {} /\ 0 + 1 .. 0 = {} /\ 1 \in 0 .. Len(list)
    BY <1>1, <2>0
  <2>4. CASE End(b) = list[1].at
    <3> DEFINE e == Block(b.at, b.len + head.len)
    <3>1. r = ReplaceAt(list, 1, e)
      BY <1>6, <2>a, <2>4 DEF Freed
    <3>2. Sound(e) /\ e.at = b.at /\ End(e) = End(head)
      <4>1. End(b) = head.at
        BY <2>4
      <4> HIDE DEF head
      <4>2. b.len + head.len \in Nat /\ b.len + head.len >= 1 /\ b.at + (b.len + head.len) = End(head)
        BY <1>3, <2>1, <4>1
      <4> QED BY <1>3, <2>1, <4>2, BlockSound
    <3>3. e \in Blocks
      BY <3>2 DEF Sound
    <3>4. \A c \in Blocks : Apart(b, c) /\ Clear(list, c) => Apart(e, c)
      <4>1. ASSUME NEW c \in Blocks, Apart(b, c), Clear(list, c) PROVE Apart(e, c)
        <5>1. Apart(head, c) /\ End(b) = head.at
          BY <2>0, <2>4, <4>1 DEF Clear
        <5> HIDE DEF e, head
        <5> QED BY <1>2, <2>1, <3>2, <3>3, <4>1, <5>1, JoinApart
      <4> QED BY <4>1
    <3> HIDE DEF e
    <3>5. Exchanged(list, 0, 1, e, r)
      <4>1. Exchanged(list, 1 - 1, 1, e, r)
        BY <1>0, <2>0, <3>1, <3>3, ReplaceExchanges
      <4> QED BY <4>1
    <3>6. Absorbs(list, b, 0, 1, e)
      <4>1. \A k \in 1 + 1 .. Len(list) : End(e) < list[k].at
        <5>1. \A k \in 1 + 1 .. Len(list) : k \in DOMAIN list /\ 1 < k
          BY <1>1
        <5>2. \A k \in DOMAIN list : 1 < k => End(list[1]) < list[k].at
          BY <2>0 DEF Tidy
        <5> QED BY <3>2, <5>1, <5>2
      <4>2. \A k \in 0 + 1 .. 1 : e.at <= list[k].at /\ End(list[k]) <= End(e)
        <5>1. \A k \in 0 + 1 .. 1 : k = 1
          OBVIOUS
        <5>2. e.at <= head.at /\ End(head) <= End(e)
          <6> HIDE DEF head
          <6>1. b.at < head.at
            BY <1>6 DEF head
          <6> QED BY <1>3, <2>1, <3>2, <6>1
        <5> QED BY <5>1, <5>2
      <4>3. e.at <= b.at /\ End(b) <= End(e)
        <5>1. End(b) = head.at
          BY <2>4
        <5> HIDE DEF head
        <5> QED BY <1>3, <2>1, <3>2, <5>1
      <4> QED BY <2>3, <3>2, <3>4, <4>1, <4>2, <4>3 DEF Absorbs
    <3> QED BY <3>5, <3>6
  <2>5. CASE End(b) # list[1].at
    <3>1. r = <<b>> \o list
      BY <1>6, <2>a, <2>5 DEF Freed
    <3>2. Exchanged(list, 0, 0, b, r)
      BY <1>0, <1>2, <3>1, PrependExchanges
    <3>3. \A k \in 0 + 1 .. Len(list) : End(b) < list[k].at
      <4>1. ASSUME NEW k \in 0 + 1 .. Len(list) PROVE End(b) < list[k].at
        <5>1. k \in DOMAIN list /\ k \in Int
          BY <1>1
        <5>2. list[k].at \in Nat
          BY <1>4, <5>1
        <5>3. CASE k = 1
          BY <1>3, <2>2, <2>3, <2>5, <5>1, <5>2, <5>3
        <5>4. CASE k # 1
          <6>1. 1 < k
            BY <1>1, <5>4
          <6>2. End(list[1]) < list[k].at
            BY <2>0, <5>1, <6>1 DEF Tidy
          <6>3. End(b) <= list[1].at
            BY <2>0, <1>1, <2>2
          <6> QED BY <1>3, <2>1, <5>2, <6>2, <6>3
        <5> QED BY <5>3, <5>4
      <4> QED BY <4>1
    <3>4. Absorbs(list, b, 0, 0, b)
      BY <1>3, <2>3, <3>3 DEF Absorbs
    <3> QED BY <3>2, <3>4
  <2> QED BY <2>4, <2>5
<1>7. ASSUME list # << >>, ~(list[1].at > b.at)
      PROVE  \E p, q, e : Absorbs(list, b, p, q, e) /\ Exchanged(list, p, q, e, r)
  <2>0. 1 \in DOMAIN list
    BY <1>0, <1>1, <1>7
  <2>1. list[1].at <= b.at
    BY <1>3, <1>4, <1>7, <2>0
  <2>2. PICK i \in DOMAIN list : /\ list[i].at < b.at /\ (i = Len(list) \/ list[i + 1].at > b.at)
                                 /\ r = Splice(list, i, b)
    BY <1>7, <2>1 DEF Freed
  <2> QED BY <2>2, SpliceAbsorbs
<1> QED BY <1>5, <1>6, <1>7

\* A free keeps the list tidy, and what is apart from the list and the block stays so.
LEMMA FreedKeeps ==
    ASSUME NEW list, Tidy(list), NEW b, Sound(b), Clear(list, b), NEW r \in Freed(list, b)
    PROVE  Tidy(r) /\ \A c \in Blocks : Apart(b, c) /\ Clear(list, c) => Clear(r, c)
<1>1. PICK p, q, e : Absorbs(list, b, p, q, e) /\ Exchanged(list, p, q, e, r)
  BY FreedAbsorbs
<1>2. /\ p \in 0 .. Len(list) /\ q \in p .. Len(list) /\ Sound(e)
      /\ \A k \in 1 .. p : End(list[k]) < e.at
      /\ \A k \in q + 1 .. Len(list) : End(e) < list[k].at
  BY <1>1 DEF Absorbs
<1>3. Tidy(r)
  BY <1>1, <1>2, ExchangeKeepsTidy
<1>4. \A c \in Blocks : Apart(b, c) /\ Clear(list, c) => Apart(e, c)
  BY <1>1 DEF Absorbs
<1> QED BY <1>1, <1>2, <1>3, <1>4, ExchangeKeepsClear

\* A free loses no unit of the list nor of the block, unless the block swallows the next one.
LEMMA FreedCovers ==
    ASSUME NEW list, Tidy(list), NEW b, Sound(b), Clear(list, b), NEW r \in Freed(list, b),
           NEW u \in Nat, InBlock(b, u) \/ \E k \in DOMAIN list : InBlock(list[k], u)
    PROVE  \/ \E k \in DOMAIN r : InBlock(r[k], u)
           \/ \E p : Swallows(list, b, p) /\ End(b) <= u
<1>1. PICK p, q, e : Absorbs(list, b, p, q, e) /\ Exchanged(list, p, q, e, r)
  BY FreedAbsorbs
<1>2. /\ p \in 0 .. Len(list) /\ q \in p .. Len(list) /\ Sound(e)
      /\ e.at <= b.at /\ End(b) <= End(e)
  BY <1>1 DEF Absorbs
<1>3. /\ b.at \in Nat /\ End(b) \in Nat /\ e.at \in Nat /\ End(e) \in Nat
  <2>1. b \in Blocks /\ e \in Blocks
    BY <1>2 DEF Sound
  <2> QED BY <2>1, BlockNumbers
<1>4. InBlock(b, u) => InBlock(e, u)
  BY <1>2, <1>3 DEF InBlock
<1>5. ASSUME NEW k \in DOMAIN list, InBlock(list[k], u)
      PROVE  \/ InBlock(e, u) \/ (k <= p \/ k > q)
             \/ \E m : Swallows(list, b, m) /\ End(b) <= u
  <2>1. list[k].at \in Nat /\ End(list[k]) \in Nat /\ k \in Int /\ list[k].at <= u /\ u < End(list[k])
    BY <1>5, TidyNumbers DEF InBlock
  <2>2. CASE \A m \in p + 1 .. q : e.at <= list[m].at /\ End(list[m]) <= End(e)
    <3>1. p \in Int /\ q \in Int
      BY <1>2, TidyNumbers
    <3>2. CASE k \in p + 1 .. q
      <4>1. e.at <= list[k].at /\ End(list[k]) <= End(e)
        BY <2>2, <3>2
      <4> QED BY <1>3, <2>1, <4>1 DEF InBlock
    <3>3. CASE k \notin p + 1 .. q
      BY <2>1, <3>1, <3>3
    <3> QED BY <3>2, <3>3
  <2>3. CASE q = p + 1 /\ e = b /\ Swallows(list, b, p)
    <3>1. p \in Int /\ End(b) = list[p + 1].at
      BY <1>2, <2>3, TidyNumbers DEF Swallows
    <3>2. CASE k = p + 1
      <4>1. End(b) <= u
        BY <2>1, <3>1, <3>2
      <4> QED BY <2>3, <4>1
    <3>3. CASE k # p + 1
      BY <2>1, <2>3, <3>1, <3>3
    <3> QED BY <3>2, <3>3
  <2> QED BY <1>1, <2>2, <2>3 DEF Absorbs
<1>6. CASE InBlock(e, u)
  BY <1>1, <1>2, <1>6, ExchangeCovers
<1>7. CASE \E k \in DOMAIN list : InBlock(list[k], u) /\ (k <= p \/ k > q)
  BY <1>1, <1>2, <1>7, ExchangeCovers
<1> QED BY <1>4, <1>5, <1>6, <1>7

-----------------------------------------------------------------------------
(* What an allocation does to the list *)

\* The block taken lies in the region and off the list as it is left; the list stays tidy,
\* takes no unit from elsewhere, and loses none but those of the block.
LEMMA TakenKeeps ==
    ASSUME TypeOK, Tidy(free), TopAboveBlocks, NEW len \in Lengths, NEW to \in Placed(len)
    PROVE  /\ Sound(to) /\ to.len = len /\ Tidy(Taken(to)) /\ Clear(Taken(to), to)
           /\ \A c \in Blocks : Clear(free, c) => Clear(Taken(to), c)
           /\ \A c \in Blocks : Clear(free, c) /\ End(c) <= top => Apart(c, to)
           /\ \A u \in Nat : (\E k \in DOMAIN free : InBlock(free[k], u))
                             => InBlock(to, u) \/ \E k \in DOMAIN Taken(to) : InBlock(Taken(to)[k], u)
<1>0. /\ top \in Nat /\ len \in Nat /\ len >= 1 /\ Size \in Nat /\ free \in Seq(Blocks)
      /\ Len(free) \in Nat /\ DOMAIN free = 1 .. Len(free)
  <2>1. top \in 0 .. Size /\ len \in Nat \ {0} /\ free \in Seq(Blocks)
    BY NativeMemoryAssumption DEF TypeOK
  <2> QED BY <2>1, NativeMemoryAssumption
<1>1. \A k \in DOMAIN free :
        /\ free[k] \in Blocks /\ free[k].at \in Nat /\ free[k].len \in Nat /\ free[k].len >= 1
        /\ End(free[k]) = free[k].at + free[k].len /\ End(free[k]) <= Size /\ k \in Int
  BY TidyNumbers
<1>2. \A c \in Blocks : c.at \in Nat /\ End(c) \in Nat /\ c.at < End(c)
  BY BlockNumbers
<1>3. CASE top + len <= Size
  <2>1. to = Block(top, len)
    BY <1>3 DEF Placed
  <2>2. Sound(to) /\ to.at = top /\ to.len = len /\ End(to) = top + len
    BY <1>0, <1>3, <2>1, BlockSound
  <2>3. Taken(to) = free
    BY <1>3, <2>2 DEF Taken
  <2>4. Clear(free, to)
    <3>1. ASSUME NEW k \in DOMAIN free PROVE Apart(free[k], to)
      <4>1. End(free[k]) <= top
        BY DEF TopAboveBlocks
      <4> QED BY <2>2, <4>1 DEF Apart
    <3> QED BY <3>1 DEF Clear
  <2>5. \A c \in Blocks : End(c) <= top => Apart(c, to)
    BY <2>2 DEF Apart
  <2> QED BY <2>2, <2>3, <2>4, <2>5
<1>4. CASE ~(top + len <= Size)
  <2> DEFINE i == FirstFit(len)
             room == free[i]
             rest == room.len - len
             r == Taken(to)
  <2>0. i # 0 /\ to = Block(room.at, len)
    BY <1>4 DEF Placed
  <2>1. i \in DOMAIN free /\ room.len >= len
    BY <1>0, <2>0, FirstFitFits
  <2>2. /\ room \in Blocks /\ room.at \in Nat /\ room.len \in Nat /\ room.len >= 1
        /\ End(room) = room.at + room.len /\ End(room) <= Size /\ i \in Int
    BY <1>1, <2>1
  <2> HIDE DEF i
  <2>3. Sound(to) /\ to.at = room.at /\ to.len = len /\ End(to) = room.at + len /\ End(to) <= End(room)
    <3> HIDE DEF room
    <3>1. room.at + len <= Size /\ room.at + len <= End(room)
      BY <1>0, <2>1, <2>2
    <3>2. Sound(to) /\ to.at = room.at /\ to.len = len /\ End(to) = room.at + len
      BY <1>0, <2>0, <2>2, <3>1, BlockSound
    <3> QED BY <3>1, <3>2
  <2>4. \A c \in Blocks : Clear(free, c) => Apart(c, to)
    <3>1. ASSUME NEW c \in Blocks, Clear(free, c) PROVE Apart(c, to)
      <4>1. Apart(room, c)
        BY <2>1, <3>1 DEF Clear
      <4>2. to.at \in Nat /\ End(to) \in Nat /\ to.at < End(to)
        <5>1. to \in Blocks
          BY <2>3 DEF Sound
        <5> QED BY <5>1, <1>2
      <4> HIDE DEF room
      <4> QED BY <1>2, <2>2, <2>3, <4>1, <4>2 DEF Apart
    <3> QED BY <3>1
  <2>5. CASE rest = 0
    <3>1. r = RemoveAt(free, i)
      BY <1>4, <2>3, <2>5 DEF Taken, i
    <3> HIDE DEF r
    <3>2. /\ r \in Seq(Blocks) /\ Len(r) = Len(free) - 1 /\ DOMAIN r = 1 .. Len(free) - 1
          /\ \A k \in 1 .. Len(free) - 1 : r[k] = IF k < i THEN free[k] ELSE free[k + 1]
      <4>1. IsWithout(free, i, r)
        BY <1>0, <2>1, <3>1, Removed
      <4> QED BY <4>1 DEF IsWithout
    <3>3. ASSUME NEW k \in DOMAIN r
          PROVE  \E m \in DOMAIN free : /\ r[k] = free[m] /\ m # i /\ (k < i => m = k)
                                        /\ (k >= i => m = k + 1)
      <4>1. k \in Int /\ k \in DOMAIN free /\ k + 1 \in DOMAIN free
        BY <1>0, <3>2
      <4>2. CASE k < i
        BY <2>2, <3>2, <4>1, <4>2
      <4>3. CASE ~(k < i)
        <5>1. r[k] = free[k + 1] /\ k + 1 # i /\ k >= i
          BY <2>2, <3>2, <4>1, <4>3
        <5> QED BY <4>1, <4>3, <5>1
      <4> QED BY <4>2, <4>3
    <3>4. \A c : Clear(free, c) => Clear(r, c)
      BY <3>3 DEF Clear
    <3>5. ASSUME NEW j \in DOMAIN r, NEW k \in DOMAIN r, j < k PROVE End(r[j]) < r[k].at
      <4>1. PICK m \in DOMAIN free : r[j] = free[m] /\ (j < i => m = j) /\ (j >= i => m = j + 1)
        BY <3>3
      <4>2. PICK n \in DOMAIN free : r[k] = free[n] /\ (k < i => n = k) /\ (k >= i => n = k + 1)
        BY <3>3
      <4>3. m < n
        <5>1. j \in Int /\ k \in Int
          BY <1>0, <3>2
        <5> QED BY <2>2, <3>5, <4>1, <4>2, <5>1
      <4> QED BY <4>1, <4>2, <4>3 DEF Tidy
    <3>6. Tidy(r)
      BY <3>2, <3>3, <3>5 DEF Tidy
    <3>7. Clear(r, to)
      <4>1. ASSUME NEW k \in DOMAIN r PROVE Apart(r[k], to)
        <5>1. PICK m \in DOMAIN free : r[k] = free[m] /\ m # i
          BY <3>3
        <5>2. End(free[m]) < room.at \/ End(room) < free[m].at
          <6>1. m < i \/ i < m
            BY <1>1, <2>2, <5>1
          <6> QED BY <2>1, <6>1 DEF Tidy
        <5>3. free[m].at \in Nat /\ End(free[m]) \in Nat /\ End(to) \in Nat
          <6>1. to \in Blocks
            BY <2>3 DEF Sound
          <6> QED BY <1>1, <1>2, <6>1
        <5> HIDE DEF room
        <5> QED BY <2>2, <2>3, <5>1, <5>2, <5>3 DEF Apart
      <4> QED BY <4>1 DEF Clear
    <3>8. ASSUME NEW u \in Nat, NEW k \in DOMAIN free, InBlock(free[k], u)
          PROVE  InBlock(to, u) \/ \E m \in DOMAIN r : InBlock(r[m], u)
      <4>1. k \in Int /\ k \in 1 .. Len(free)
        BY <1>0, <1>1
      <4>2. CASE k < i
        <5>1. k \in DOMAIN r /\ r[k] = free[k]
          BY <1>0, <2>1, <2>2, <3>2, <4>1, <4>2
        <5> QED BY <3>8, <5>1
      <4>3. CASE k > i
        <5>1. k - 1 \in DOMAIN r /\ ~(k - 1 < i) /\ (k - 1) + 1 = k
          BY <1>0, <2>1, <2>2, <3>2, <4>1, <4>3
        <5>2. r[k - 1] = free[k]
          BY <3>2, <5>1
        <5> QED BY <3>8, <5>1, <5>2
      <4>4. CASE k = i
        <5>1. InBlock(room, u)
          BY <3>8, <4>4
        <5> HIDE DEF room
        <5>2. End(to) = End(room)
          BY <1>0, <2>2, <2>3, <2>5
        <5> QED BY <2>3, <5>1, <5>2 DEF InBlock
      <4> QED BY <2>2, <4>1, <4>2, <4>3, <4>4
    <3> QED BY <2>3, <2>4, <3>4, <3>6, <3>7, <3>8 DEF r
  <2>6. CASE rest # 0
    <3> DEFINE e == Block(End(to), rest)
    <3>1. r = ReplaceAt(free, i, e)
      BY <1>4, <2>3, <2>6 DEF Taken, i
    <3>2. Sound(e) /\ e \in Blocks /\ e.at = End(to) /\ End(e) = End(room) /\ End(to) \in Nat
      <4>1. End(to) \in Nat /\ rest \in Nat /\ rest >= 1 /\ End(to) + rest = End(room)
        <5>1. room.len - len = rest /\ rest # 0
          BY <2>6
        <5> HIDE DEF room, rest
        <5>2. rest \in Nat /\ rest >= 1
          BY <1>0, <2>1, <2>2, <5>1
        <5>3. End(to) \in Nat /\ End(to) + rest = End(room)
          BY <1>0, <2>2, <2>3, <5>1
        <5> QED BY <5>2, <5>3
      <4> HIDE DEF room, rest
      <4> QED BY <2>2, <4>1, BlockSound
    <3> HIDE DEF r, e, rest
    <3>3. Exchanged(free, i - 1, i, e, r)
      BY <1>0, <2>1, <3>1, <3>2, ReplaceExchanges
    <3>4. i - 1 \in 0 .. Len(free) /\ i \in i - 1 .. Len(free)
      BY <1>0, <2>1, <2>2
    <3>5. Tidy(r)
      <4>1. ASSUME NEW k \in 1 .. i - 1 PROVE End(free[k]) < e.at
        <5>1. k \in DOMAIN free /\ k < i
          BY <1>0, <2>1, <2>2
        <5>2. End(free[k]) < room.at
          BY <2>1, <5>1 DEF Tidy
        <5>3. End(free[k]) \in Nat
          BY <1>1, <5>1
        <5> HIDE DEF room
        <5> QED BY <1>0, <2>2, <2>3, <3>2, <5>2, <5>3
      <4>2. ASSUME NEW k \in i + 1 .. Len(free) PROVE End(e) < free[k].at
        <5>1. k \in DOMAIN free /\ i < k
          BY <1>0, <2>1, <2>2
        <5> QED BY <2>1, <3>2, <5>1 DEF Tidy
      <4> QED BY <3>2, <3>3, <3>4, <4>1, <4>2, ExchangeKeepsTidy
    <3>6. ASSUME NEW c \in Blocks, Clear(free, c) PROVE Clear(r, c)
      <4>1. Apart(room, c)
        BY <2>1, <3>6 DEF Clear
      <4>2. Apart(e, c)
        <5> HIDE DEF room
        <5> QED BY <1>0, <1>2, <2>2, <2>3, <3>2, <4>1 DEF Apart
      <4> QED BY <3>3, <3>4, <3>6, <4>2, ExchangeKeepsClear
    <3>7. Clear(r, to)
      <4>1. ASSUME NEW k \in DOMAIN r PROVE Apart(r[k], to)
        <5>1. /\ \A m \in 1 .. Len(r) : r[m] = IF m <= i - 1 THEN free[m] ELSE IF m = (i - 1) + 1 THEN e
                                               ELSE free[m - (i - 1) - 1 + i]
              /\ Len(r) = Len(free) /\ DOMAIN r = 1 .. Len(r)
          BY <1>0, <2>2, <3>3 DEF Exchanged
        <5>2. k \in Int /\ k - (i - 1) - 1 + i = k /\ k \in DOMAIN free
          BY <1>0, <2>2, <5>1
        <5>3. CASE k = i
          <6>1. r[k] = e
            BY <2>2, <5>1, <5>2, <5>3
          <6> QED BY <3>2, <6>1 DEF Apart
        <5>4. CASE k # i
          <6>1. r[k] = free[k]
            BY <2>2, <5>1, <5>2, <5>4
          <6>2. End(free[k]) < room.at \/ End(room) < free[k].at
            <7>1. k < i \/ i < k
              BY <2>2, <5>2, <5>4
            <7> QED BY <2>1, <5>2, <7>1 DEF Tidy
          <6>3. free[k].at \in Nat /\ End(free[k]) \in Nat
            BY <1>1, <5>2
          <6> HIDE DEF room
          <6> QED BY <2>2, <2>3, <3>2, <6>1, <6>2, <6>3 DEF Apart
        <5> QED BY <5>3, <5>4
      <4> QED BY <4>1 DEF Clear
    <3>8. ASSUME NEW u \in Nat, NEW k \in DOMAIN free, InBlock(free[k], u)
          PROVE  InBlock(to, u) \/ \E m \in DOMAIN r : InBlock(r[m], u)
      <4>1. CASE k = i
        <5>1. InBlock(room, u)
          BY <3>8, <4>1
        <5>2. InBlock(to, u) \/ InBlock(e, u)
          <6> HIDE DEF room
          <6> QED BY <2>2, <2>3, <3>2, <5>1 DEF InBlock
        <5> QED BY <3>3, <3>4, <5>2, ExchangeCovers
      <4>2. CASE k # i
        <5>1. k <= i - 1 \/ k > i
          BY <1>1, <2>2, <4>2
        <5> QED BY <3>3, <3>4, <3>8, <5>1, ExchangeCovers
      <4> QED BY <4>1, <4>2
    <3> QED BY <2>3, <2>4, <3>5, <3>6, <3>7, <3>8 DEF r
  <2> QED BY <2>5, <2>6
<1> QED BY <1>3, <1>4

-----------------------------------------------------------------------------
(* What a block shrunk does to the list *)

\* Between two blocks of the list there is something, whatever their order on it.
Spaced(list) ==
    /\ list \in Seq(Blocks)
    /\ \A i \in DOMAIN list : Sound(list[i])
    /\ \A i, j \in DOMAIN list : i # j => End(list[i]) < list[j].at \/ End(list[j]) < list[i].at

LEMMA TidyIsSpaced ==
    ASSUME NEW list, Tidy(list)
    PROVE  Spaced(list)
<1>1. ASSUME NEW i \in DOMAIN list, NEW j \in DOMAIN list, i # j
      PROVE  End(list[i]) < list[j].at \/ End(list[j]) < list[i].at
  <2>1. i \in Int /\ j \in Int
    BY TidyNumbers
  <2>2. i < j \/ j < i
    BY <1>1, <2>1
  <2> QED BY <2>2 DEF Tidy
<1> QED BY <1>1 DEF Tidy, Spaced

\* The search for the first free block from some place on.
LEMMA FirstFrom ==
    ASSUME NEW list, Tidy(list), NEW at \in Nat, NEW i,
           i = SelectInSeq(list, LAMBDA f : f.at >= at)
    PROVE  \/ i = 0 /\ \A k \in DOMAIN list : list[k].at < at
           \/ i \in DOMAIN list /\ list[i].at >= at /\ \A k \in 1 .. i - 1 : list[k].at < at
<1> DEFINE I == {k \in 1 .. Len(list) : list[k].at >= at}
<1>1. i = IF I # {} THEN Min(I) ELSE 0
  BY DEF SelectInSeq
<1>2. Len(list) \in Nat /\ DOMAIN list = 1 .. Len(list)
  BY DEF Tidy
<1>3. ASSUME NEW k \in DOMAIN list, k \notin I PROVE list[k].at < at
  <2>1. list[k].at \in Nat
    BY TidyNumbers
  <2> QED BY <1>2, <1>3, <2>1
<1>4. CASE I = {}
  BY <1>1, <1>3, <1>4
<1>5. CASE I # {}
  <2>1. I \in SUBSET Nat
    BY <1>2
  <2>2. i \in I /\ \A k \in I : i <= k
    <3> HIDE DEF I
    <3>1. \E x \in I : \A y \in I : x <= y
      BY <1>5, <2>1, LeastExists
    <3>2. i = CHOOSE x \in I : \A y \in I : x <= y
      BY <1>1, <1>5 DEF Min
    <3> QED BY <3>1, <3>2
  <2>3. i \in DOMAIN list /\ list[i].at >= at
    BY <1>2, <2>2
  <2>4. ASSUME NEW k \in 1 .. i - 1 PROVE list[k].at < at
    <3>1. k \in DOMAIN list /\ ~(i <= k)
      BY <1>2, <2>3
    <3> QED BY <1>3, <2>2, <3>1
  <2> QED BY <2>3, <2>4
<1> QED BY <1>4, <1>5

\* The end cut off a block b is put between the free blocks, or at the head of the list; it
\* takes no unit from elsewhere, and none of its units is lost.
LEMMA ShrunkKeeps ==
    ASSUME NEW list, Tidy(list), NEW b, Sound(b), Clear(list, b),
           NEW rest, Sound(rest), b.at < rest.at, End(rest) = End(b), NEW r, r = Shrunk(list, rest)
    PROVE  /\ Spaced(r)
           /\ \A c \in Blocks : Apart(rest, c) /\ Clear(list, c) => Clear(r, c)
           /\ \A u \in Nat : InBlock(rest, u) \/ (\E k \in DOMAIN list : InBlock(list[k], u))
                             => \E k \in DOMAIN r : InBlock(r[k], u)
<1>0. list \in Seq(Blocks) /\ Len(list) \in Nat /\ DOMAIN list = 1 .. Len(list)
  BY DEF Tidy
<1>a. list \in Seq(Blocks)
  BY <1>0
<1>b. rest \in Blocks
  BY DEF Sound
<1>1. /\ b.at \in Nat /\ End(b) \in Nat /\ rest.at \in Nat /\ rest.len \in Nat /\ rest.len >= 1
      /\ End(rest) \in Nat /\ End(rest) = rest.at + rest.len
  <2>1. b \in Blocks /\ rest \in Blocks
    BY DEF Sound
  <2> QED BY <2>1, BlockNumbers
<1>2. \A k \in DOMAIN list :
        /\ list[k] \in Blocks /\ list[k].at \in Nat /\ list[k].len \in Nat /\ list[k].len >= 1
        /\ End(list[k]) = list[k].at + list[k].len /\ End(list[k]) \in Nat
        /\ End(list[k]) <= Size /\ k \in Int
  BY TidyNumbers
<1>3. ASSUME NEW k \in DOMAIN list
      PROVE  IF list[k].at < rest.at THEN End(list[k]) < rest.at ELSE End(rest) <= list[k].at
  <2>1. Apart(list[k], b)
    BY DEF Clear
  <2> QED BY <1>1, <1>2, <2>1 DEF Apart
<1> DEFINE i == SelectInSeq(list, LAMBDA f : f.at >= rest.at)
<1>4. \/ i = 0 /\ \A k \in DOMAIN list : list[k].at < rest.at
      \/ i \in DOMAIN list /\ list[i].at >= rest.at /\ \A k \in 1 .. i - 1 : list[k].at < rest.at
  <2> HIDE DEF i
  <2>1. ASSUME NEW m, m = SelectInSeq(list, LAMBDA f : f.at >= rest.at)
        PROVE  \/ m = 0 /\ \A k \in DOMAIN list : list[k].at < rest.at
               \/ m \in DOMAIN list /\ list[m].at >= rest.at /\ \A k \in 1 .. m - 1 : list[k].at < rest.at
    BY <1>1, <2>1, FirstFrom
  <2> QED BY <2>1 DEF i
<1>5. CASE i = 0
  <2>1. r = <<rest>> \o list
    BY <1>5 DEF Shrunk
  <2>2. Exchanged(list, 0, 0, rest, r)
    BY <1>a, <1>b, <2>1, PrependExchanges
  <2>3. 0 \in 0 .. Len(list) /\ 0 \in 0 .. Len(list)
    BY <1>0
  <2>4. \A k \in DOMAIN list : End(list[k]) < rest.at
    <3>1. \A k \in DOMAIN list : list[k].at < rest.at
      BY <1>4, <1>5, <1>0
    <3> QED BY <1>3, <3>1
  <2>5. /\ r \in Seq(Blocks) /\ DOMAIN r = 1 .. Len(list) + 1
        /\ \A k \in DOMAIN r : \/ k = 1 /\ r[k] = rest
                               \/ k # 1 /\ k \in Int /\ k - 1 \in DOMAIN list /\ r[k] = list[k - 1]
    <3>1. /\ r \in Seq(Blocks) /\ Len(r) = Len(list) + 1 + 0 - 0 /\ DOMAIN r = 1 .. Len(r)
          /\ \A k \in 1 .. Len(r) : r[k] = IF k <= 0 THEN list[k] ELSE IF k = 0 + 1 THEN rest
                                           ELSE list[k - 0 - 1 + 0]
      BY <2>2 DEF Exchanged
    <3>2. ASSUME NEW k \in 1 .. Len(r)
          PROVE  \/ k = 1 /\ r[k] = rest
                 \/ k # 1 /\ k \in Int /\ k - 1 \in DOMAIN list /\ r[k] = list[k - 1]
      <4>1. k \in Int /\ k - 0 - 1 + 0 = k - 1 /\ ~(k <= 0) /\ (k # 1 => k - 1 \in DOMAIN list)
        BY <1>0, <3>1
      <4> QED BY <3>1, <4>1
    <3> QED BY <1>0, <3>1, <3>2
  <2>6. Spaced(r)
    <3>1. \A k \in DOMAIN r : Sound(r[k])
      BY <2>5 DEF Tidy
    <3>2. ASSUME NEW j \in DOMAIN r, NEW k \in DOMAIN r, j # k
          PROVE  End(r[j]) < r[k].at \/ End(r[k]) < r[j].at
      <4>1. CASE j = 1 \/ k = 1
        BY <2>4, <2>5, <3>2, <4>1
      <4>2. CASE j # 1 /\ k # 1
        <5>1. /\ j - 1 \in DOMAIN list /\ r[j] = list[j - 1] /\ k - 1 \in DOMAIN list
              /\ r[k] = list[k - 1] /\ j - 1 # k - 1
          BY <2>5, <3>2, <4>2
        <5> QED BY <5>1, TidyIsSpaced DEF Spaced
      <4> QED BY <4>1, <4>2
    <3> QED BY <2>5, <3>1, <3>2 DEF Spaced
  <2>7. \A c \in Blocks : Apart(rest, c) /\ Clear(list, c) => Clear(r, c)
    BY <2>5 DEF Clear
  <2>8. ASSUME NEW u \in Nat, InBlock(rest, u) \/ \E k \in DOMAIN list : InBlock(list[k], u)
        PROVE  \E k \in DOMAIN r : InBlock(r[k], u)
    <3>1. InBlock(rest, u) \/ \E k \in DOMAIN list : InBlock(list[k], u) /\ (k <= 0 \/ k > 0)
      BY <1>0, <2>8
    <3> QED BY <2>2, <2>3, <3>1, ExchangeCovers
  <2> QED BY <2>6, <2>7, <2>8
<1>6. CASE i # 0
  <2>1. /\ i \in DOMAIN list /\ list[i].at >= rest.at /\ i \in Int /\ End(rest) <= list[i].at
        /\ \A k \in 1 .. i - 1 : list[k].at < rest.at
    <3>1. /\ i \in DOMAIN list /\ list[i].at >= rest.at
          /\ \A k \in 1 .. i - 1 : list[k].at < rest.at
      BY <1>4, <1>6
    <3> HIDE DEF i
    <3> QED BY <1>1, <1>2, <1>3, <3>1
  <2>2. \A k \in 1 .. i - 1 : End(list[k]) < rest.at
    <3> HIDE DEF i
    <3>1. \A k \in 1 .. i - 1 : k \in DOMAIN list
      BY <1>0, <2>1
    <3> QED BY <1>3, <2>1, <3>1
  <2> DEFINE above == list[i]
  <2>3. /\ above \in Blocks /\ above.at \in Nat /\ above.len \in Nat /\ above.len >= 1
        /\ End(above) = above.at + above.len /\ End(above) <= Size /\ End(rest) <= above.at
    BY <1>2, <2>1
  <2>4. \A k \in i + 1 .. Len(list) : k \in DOMAIN list /\ End(above) < list[k].at
    <3> HIDE DEF i
    <3>1. \A k \in i + 1 .. Len(list) : k \in DOMAIN list /\ i < k
      BY <1>0, <2>1
    <3> QED BY <2>1, <3>1 DEF Tidy
  <2>5. CASE list[i].at = End(rest)
    <3> DEFINE e == Block(rest.at, rest.len + above.len)
    <3>1. r = ReplaceAt(list, i, e)
      BY <1>6, <2>5 DEF Shrunk
    <3> HIDE DEF i
    <3>2. Sound(e) /\ e.at = rest.at /\ End(e) = End(above) /\ e \in Blocks
      <4>1. above.at = End(rest)
        BY <2>5
      <4> HIDE DEF above
      <4>2. /\ rest.len + above.len \in Nat /\ rest.len + above.len >= 1
            /\ rest.at + (rest.len + above.len) = End(above)
        BY <1>1, <2>3, <4>1
      <4>3. Sound(e) /\ e.at = rest.at /\ End(e) = End(above)
        BY <1>1, <2>3, <4>2, BlockSound
      <4> QED BY <4>3 DEF Sound
    <3> HIDE DEF e
    <3>3. Exchanged(list, i - 1, i, e, r)
      BY <1>a, <2>1, <3>1, <3>2, ReplaceExchanges
    <3>4. i - 1 \in 0 .. Len(list) /\ i \in i - 1 .. Len(list)
      BY <1>0, <2>1
    <3>5. Tidy(r)
      <4>1. \A k \in 1 .. i - 1 : End(list[k]) < e.at
        BY <2>2, <3>2
      <4>2. \A k \in i + 1 .. Len(list) : End(e) < list[k].at
        BY <2>4, <3>2
      <4> QED BY <3>2, <3>3, <3>4, <4>1, <4>2, ExchangeKeepsTidy
    <3>6. ASSUME NEW c \in Blocks, Apart(rest, c), Clear(list, c) PROVE Clear(r, c)
      <4>1. Apart(above, c) /\ above.at = End(rest)
        BY <2>1, <2>5, <3>6 DEF Clear
      <4> HIDE DEF above
      <4>2. Apart(e, c)
        BY <1>b, <2>3, <3>2, <3>6, <4>1, JoinApart
      <4> QED BY <3>3, <3>4, <3>6, <4>2, ExchangeKeepsClear
    <3>7. ASSUME NEW u \in Nat, InBlock(rest, u) \/ \E k \in DOMAIN list : InBlock(list[k], u)
          PROVE  \E k \in DOMAIN r : InBlock(r[k], u)
      <4>1. InBlock(rest, u) \/ InBlock(above, u) => InBlock(e, u)
        <5> HIDE DEF above
        <5> QED BY <1>1, <2>3, <3>2 DEF InBlock
      <4>2. InBlock(e, u) \/ \E k \in DOMAIN list : InBlock(list[k], u) /\ (k <= i - 1 \/ k > i)
        <5>1. CASE InBlock(rest, u)
          BY <4>1, <5>1
        <5>2. ASSUME NEW k \in DOMAIN list, InBlock(list[k], u)
              PROVE  InBlock(e, u) \/ (InBlock(list[k], u) /\ (k <= i - 1 \/ k > i))
          <6>1. k = i \/ k <= i - 1 \/ k > i
            BY <1>2, <2>1
          <6>2. CASE k = i
            <7>1. InBlock(above, u)
              BY <5>2, <6>2
            <7> QED BY <4>1, <7>1
          <6> QED BY <5>2, <6>1, <6>2
        <5> QED BY <3>7, <5>1, <5>2
      <4> QED BY <3>3, <3>4, <4>2, ExchangeCovers
    <3> QED BY <3>5, <3>6, <3>7, TidyIsSpaced
  <2>6. CASE list[i].at # End(rest)
    <3>1. r = InsertAt(list, i, rest)
      BY <1>6, <2>6 DEF Shrunk
    <3> HIDE DEF i
    <3>2. Exchanged(list, i - 1, i - 1, rest, r)
      <4>1. i \in 1 .. Len(list) + 1
        BY <1>0, <2>1
      <4> QED BY <1>a, <1>b, <3>1, <4>1, InsertExchanges
    <3>3. i - 1 \in 0 .. Len(list) /\ i - 1 \in i - 1 .. Len(list)
      BY <1>0, <2>1
    <3>4. Tidy(r)
      <4>1. ASSUME NEW k \in (i - 1) + 1 .. Len(list) PROVE End(rest) < list[k].at
        <5>1. End(rest) < above.at
          <6>1. above.at # End(rest)
            BY <2>6
          <6> HIDE DEF above
          <6> QED BY <1>1, <2>3, <6>1
        <5>2. k = i \/ k \in i + 1 .. Len(list)
          BY <1>0, <2>1
        <5>3. CASE k \in i + 1 .. Len(list)
          <6>1. End(above) < list[k].at /\ list[k].at \in Nat
            BY <1>2, <2>4, <5>3
          <6> HIDE DEF above
          <6> QED BY <1>1, <2>3, <5>1, <6>1
        <5> QED BY <5>1, <5>2, <5>3
      <4> QED BY <2>2, <3>2, <3>3, <4>1, ExchangeKeepsTidy
    <3>5. ASSUME NEW c \in Blocks, Apart(rest, c), Clear(list, c) PROVE Clear(r, c)
      BY <3>2, <3>3, <3>5, ExchangeKeepsClear
    <3>6. ASSUME NEW u \in Nat, InBlock(rest, u) \/ \E k \in DOMAIN list : InBlock(list[k], u)
          PROVE  \E k \in DOMAIN r : InBlock(r[k], u)
      <4>1. InBlock(rest, u) \/ \E k \in DOMAIN list : InBlock(list[k], u) /\ (k <= i - 1 \/ k > i - 1)
        BY <1>2, <2>1, <3>6
      <4> QED BY <3>2, <3>3, <4>1, ExchangeCovers
    <3> QED BY <3>4, <3>5, <3>6, TidyIsSpaced
  <2> QED BY <2>5, <2>6
<1> QED BY <1>5, <1>6

-----------------------------------------------------------------------------
(* The allocator until top moves back or the list gets out of order *)

\* The behaviours whose steps all start where neither has happened: the step that breaks
\* the order is the last one.
UnbrokenSpec == Init /\ [][NotYetBroken /\ Next]_vars

\* Nothing overlaps anything, and no two free blocks touch.
MInv ==
    /\ TypeOK
    /\ Spaced(free)
    /\ \A b \in live : Sound(b) /\ Clear(free, b)
    /\ LiveBlocksDistinct

LEMMA MInvIsTidy ==
    ASSUME MInv, FreeListOrdered
    PROVE  Tidy(free)
<1>1. free \in Seq(Blocks) /\ \A i \in DOMAIN free : Sound(free[i])
  BY DEF MInv, Spaced
<1>2. ASSUME NEW i \in DOMAIN free, NEW j \in DOMAIN free, i < j
      PROVE  End(free[i]) < free[j].at
  <2>1. free[i].at < free[j].at
    BY <1>1, <1>2, OrderIsGlobal
  <2>2. i # j
    <3>1. i \in Int
      BY <1>1
    <3> QED BY <1>2, <3>1
  <2>3. End(free[i]) < free[j].at \/ End(free[j]) < free[i].at
    BY <2>2 DEF MInv, Spaced
  <2>4. free[i].at \in Nat /\ free[j].at \in Nat /\ End(free[j]) \in Nat /\ free[j].at < End(free[j])
    <3>1. free[i] \in Blocks /\ free[j] \in Blocks
      BY <1>1 DEF Sound
    <3> QED BY <3>1, BlockNumbers
  <2> QED BY <2>1, <2>3, <2>4
<1> QED BY <1>1, <1>2 DEF Tidy

LEMMA TidyIsOrdered ==
    ASSUME NEW list, Tidy(list), NEW i \in 1 .. Len(list) - 1
    PROVE  list[i].at < list[i + 1].at
<1>1. Len(list) \in Nat /\ DOMAIN list = 1 .. Len(list)
  BY DEF Tidy
<1>2. i \in DOMAIN list /\ i + 1 \in DOMAIN list /\ i < i + 1
  BY <1>1
<1>3. End(list[i]) < list[i + 1].at
  BY <1>2 DEF Tidy
<1>4. /\ list[i].at \in Nat /\ End(list[i]) \in Nat /\ list[i].at < End(list[i])
      /\ \A k \in DOMAIN list : list[k].at \in Nat
  BY <1>2, TidyNumbers
<1> QED BY <1>2, <1>3, <1>4

\* A unit of a held or a free block.
Accounted(held, list, u) ==
    (\E b \in held : InBlock(b, u)) \/ \E k \in DOMAIN list : InBlock(list[k], u)

LEMMA UnitsAre ==
    UnitsAccounted <=> \A u \in 0 .. top - 1 : Accounted(live, free, u)
BY DEF UnitsAccounted, Accounted, InBlock

\* If a block lies between two free ones as the list is left by the block taken, and swallows
\* the upper one, then the block taken is below it, or it lies between the two on the list
\* as it was.
LEMMA TakenSwallows ==
    ASSUME TypeOK, Tidy(free), NEW len \in Lengths, NEW to \in Placed(len), to.len = len, Sound(to),
           NEW b, Sound(b), Apart(b, to), NEW p, Swallows(Taken(to), b, p)
    PROVE  End(to) <= b.at \/ Swallows(free, b, p)
<1>0. free \in Seq(Blocks) /\ Len(free) \in Nat /\ DOMAIN free = 1 .. Len(free)
  BY DEF Tidy
<1>a. free \in Seq(Blocks)
  BY <1>0
<1>1. SUFFICES ASSUME End(b) <= to.at PROVE Swallows(free, b, p)
  BY DEF Apart
<1>2. /\ to.at \in Nat /\ End(to) \in Nat /\ to.at < End(to) /\ End(to) = to.at + to.len
      /\ End(b) \in Nat /\ len \in Nat /\ len >= 1
  <2>1. to \in Blocks /\ b \in Blocks
    BY DEF Sound
  <2>2. len \in Nat /\ len >= 1
    BY NativeMemoryAssumption
  <2> QED BY <2>1, <2>2, BlockNumbers
<1>3. CASE top + len <= Size
  BY <1>3 DEF Taken
<1>4. CASE ~(top + len <= Size)
  <2> DEFINE i == FirstFit(len)
             room == free[i]
             rest == room.len - len
             r == Taken(to)
  <2>0. i # 0 /\ to = Block(room.at, len)
    BY <1>4 DEF Placed
  <2>1. i \in DOMAIN free /\ room.len >= len
    BY <1>0, <2>0, FirstFitFits
  <2>2. /\ room \in Blocks /\ room.at \in Nat /\ room.len \in Nat
        /\ End(room) = room.at + room.len /\ i \in Int
    BY <2>1, TidyNumbers
  <2>3. to.at = room.at /\ End(to) <= End(room)
    <3>1. to.at = room.at
      BY <2>0 DEF Block
    <3> HIDE DEF room
    <3> QED BY <1>2, <2>1, <2>2, <3>1
  <2> HIDE DEF i
  <2>4. /\ p \in 1 .. Len(r) - 1 /\ r[p].at < b.at /\ End(r[p]) # b.at /\ End(b) = r[p + 1].at
    BY DEF Swallows
  <2>5. ASSUME NEW k \in DOMAIN free, i < k PROVE ~(free[k].at <= to.at)
    <3>1. End(room) < free[k].at
      BY <2>1, <2>5 DEF Tidy
    <3>2. free[k].at \in Nat
      BY TidyNumbers
    <3> HIDE DEF room
    <3> QED BY <1>2, <2>2, <2>3, <3>1, <3>2
  <2>6. CASE rest = 0
    <3>1. r = RemoveAt(free, i)
      BY <1>4, <2>6 DEF Taken, i
    <3> HIDE DEF r
    <3>2. /\ Len(r) = Len(free) - 1
          /\ \A k \in 1 .. Len(free) - 1 : r[k] = IF k < i THEN free[k] ELSE free[k + 1]
      <4>1. IsWithout(free, i, r)
        BY <1>a, <2>1, <3>1, Removed
      <4> QED BY <4>1 DEF IsWithout
    <3>3. p \in Int /\ p \in 1 .. Len(free) - 1 /\ p + 1 \in 1 .. Len(free) - 1
      BY <1>0, <2>4, <3>2
    <3>4. p + 1 < i
      <4>1. SUFFICES ASSUME ~(p + 1 < i) PROVE FALSE
        OBVIOUS
      <4>2. r[p + 1] = free[(p + 1) + 1] /\ (p + 1) + 1 \in DOMAIN free /\ i < (p + 1) + 1
        BY <1>0, <2>2, <3>2, <3>3, <4>1
      <4> QED BY <1>1, <2>4, <2>5, <4>2
    <3>5. r[p + 1] = free[p + 1] /\ r[p] = free[p]
      BY <2>2, <3>2, <3>3, <3>4
    <3> QED BY <2>4, <3>3, <3>5 DEF Swallows
  <2>7. CASE rest # 0
    <3> DEFINE e == Block(End(to), rest)
    <3>1. r = ReplaceAt(free, i, e)
      BY <1>4, <2>7 DEF Taken, i
    <3>2. e.at = End(to)
      BY DEF Block
    <3> HIDE DEF r, e
    <3>3. e \in Blocks
      <4>1. End(to) + rest = End(room) /\ rest \in Nat /\ rest >= 1
        <5>1. End(to) = room.at + len
          BY <1>2, <2>3
        <5> HIDE DEF room
        <5> QED BY <1>2, <2>1, <2>2, <2>7, <5>1
      <4>2. End(room) <= Size
        BY <2>1, TidyNumbers
      <4> HIDE DEF rest, room
      <4> QED BY <1>2, <4>1, <4>2, BlockSound DEF e
    <3>4. Len(r) = Len(free) /\ \A k \in DOMAIN free : r[k] = IF k = i THEN e ELSE free[k]
      <4>1. IsChanged(free, i, e, r)
        BY <1>a, <2>1, <3>1, <3>3, Replaced
      <4> QED BY <4>1 DEF IsChanged
    <3>5. p \in Int /\ p \in 1 .. Len(free) - 1 /\ p \in DOMAIN free /\ p + 1 \in DOMAIN free
      BY <1>0, <2>4, <3>4
    <3>6. p + 1 # i
      <4>1. SUFFICES ASSUME p + 1 = i PROVE FALSE
        OBVIOUS
      <4>2. r[p + 1] = e
        BY <3>4, <3>5, <4>1
      <4> QED BY <1>1, <1>2, <2>4, <3>2, <4>2
    <3>7. p + 1 < i
      <4>1. r[p + 1] = free[p + 1]
        BY <3>4, <3>5, <3>6
      <4>2. ~(i < p + 1)
        BY <1>1, <2>4, <2>5, <3>5, <4>1
      <4> QED BY <2>2, <3>5, <3>6, <4>2
    <3>8. r[p + 1] = free[p + 1] /\ r[p] = free[p]
      BY <2>2, <3>4, <3>5, <3>7
    <3> QED BY <2>4, <3>5, <3>8 DEF Swallows
  <2> QED BY <2>6, <2>7
<1> QED BY <1>3, <1>4

-----------------------------------------------------------------------------
(* The steps *)

\* What a step leaves: nothing overlaps, and every unit below top is still in a block, unless
\* a block freed swallows the next one.
Sane ==
    /\ MInv'
    /\ UnitsAccounted => UnitsAccounted' \/ \E b \in live \ live' : TouchesUpperOnly(b)

LEMMA SwallowsTouch ==
    ASSUME NEW b, NEW p, Swallows(free, b, p)
    PROVE  TouchesUpperOnly(b)
BY DEF Swallows, TouchesUpperOnly

LEMMA AllocStep ==
    ASSUME MInv, NotYetBroken, NEW len \in Lengths, Alloc(len)
    PROVE  Sane /\ FreeListOrdered'
<1>1. TypeOK /\ LiveBlocksDistinct /\ TopAboveBlocks /\ live \subseteq Blocks /\ top \in 0 .. Size
  BY DEF MInv, NotYetBroken, TypeOK
<1>2. Tidy(free)
  BY MInvIsTidy DEF NotYetBroken
<1>3. PICK to \in Placed(len) : /\ top' = End(to) /\ free' = Taken(to) /\ live' = live \cup {to}
  BY DEF Alloc, TopAfter
<1>4. /\ Sound(to) /\ to.len = len /\ Tidy(free') /\ Clear(free', to)
      /\ \A c \in Blocks : Clear(free, c) => Clear(free', c)
      /\ \A c \in Blocks : Clear(free, c) /\ End(c) <= top => Apart(c, to)
      /\ \A u \in Nat : (\E k \in DOMAIN free : InBlock(free[k], u))
                        => InBlock(to, u) \/ \E k \in DOMAIN free' : InBlock(free'[k], u)
  BY <1>1, <1>2, <1>3, TakenKeeps
<1>5. \A b \in live : Sound(b) /\ Clear(free, b) /\ End(b) <= top /\ b \in Blocks
  BY <1>1 DEF MInv, TopAboveBlocks
<1>6. to \in Blocks /\ End(to) \in Nat /\ End(to) <= Size
  <2>1. to \in Blocks /\ End(to) <= Size
    BY <1>4 DEF Sound
  <2> QED BY <2>1, BlockNumbers
<1>7. TypeOK'
  <2>1. top' \in 0 .. Size
    BY <1>1, <1>3, <1>6
  <2>2. live' \subseteq Blocks
    BY <1>1, <1>3, <1>6
  <2> QED BY <1>4, <2>1, <2>2 DEF TypeOK, Tidy
<1>8. \A b \in live' : Sound(b) /\ Clear(free', b)
  BY <1>3, <1>4, <1>5
<1>9. LiveBlocksDistinct'
  <2>1. \A b \in live : Apart(b, to) /\ Apart(to, b)
    BY <1>4, <1>5 DEF Apart
  <2> QED BY <1>1, <1>3, <2>1 DEF LiveBlocksDistinct
<1>10. MInv'
  BY <1>4, <1>7, <1>8, <1>9, TidyIsSpaced DEF MInv
<1>11. UnitsAccounted => UnitsAccounted'
  <2>1. SUFFICES ASSUME \A u \in 0 .. top - 1 : Accounted(live, free, u)
                 PROVE  \A u \in 0 .. top' - 1 : Accounted(live', free', u)
    BY DEF UnitsAccounted, Accounted, InBlock
  <2>2. ASSUME NEW u \in 0 .. top' - 1 PROVE Accounted(live', free', u)
    <3>1. u \in Nat /\ u < End(to)
      BY <1>3, <1>6
    <3>2. CASE u < top
      <4>1. Accounted(live, free, u)
        BY <1>1, <2>1, <3>1, <3>2
      <4> QED BY <1>3, <1>4, <3>1, <4>1 DEF Accounted
    <3>3. CASE ~(u < top)
      <4>1. top + len <= Size
        <5>1. SUFFICES ASSUME ~(top + len <= Size) PROVE FALSE
          OBVIOUS
        <5>2. FirstFit(len) # 0 /\ to = Block(free[FirstFit(len)].at, len)
          BY <1>3, <5>1 DEF Placed
        <5>3. FirstFit(len) \in DOMAIN free /\ free[FirstFit(len)].len >= len
          <6>1. free \in Seq(Blocks)
            BY <1>2 DEF Tidy
          <6> QED BY <5>2, <6>1, FirstFitFits
        <5>4. End(to) <= End(free[FirstFit(len)]) /\ End(free[FirstFit(len)]) <= top
          <6> DEFINE room == free[FirstFit(len)]
          <6>1. /\ room.at \in Nat /\ room.len \in Nat /\ End(room) = room.at + room.len
                /\ End(room) <= top
            BY <1>1, <1>2, <5>3, TidyNumbers DEF TopAboveBlocks
          <6>2. End(to) = room.at + len /\ len \in Nat
            BY <5>2, NativeMemoryAssumption DEF Block, End
          <6>3. room.len >= len
            BY <5>3
          <6> HIDE DEF room
          <6>4. End(to) <= End(room)
            BY <6>1, <6>2, <6>3
          <6> QED BY <6>1, <6>4 DEF room
        <5>5. End(free[FirstFit(len)]) \in Nat
          BY <1>2, <5>3, TidyNumbers
        <5> QED BY <1>1, <1>6, <3>1, <3>3, <5>4, <5>5
      <4>2. to.at = top
        BY <1>3, <4>1 DEF Placed, Block
      <4>3. InBlock(to, u)
        BY <1>1, <3>1, <3>3, <4>2 DEF InBlock
      <4> QED BY <1>3, <4>3 DEF Accounted
    <3> QED BY <3>2, <3>3
  <2> QED BY <2>2
<1>12. FreeListOrdered'
  BY <1>4, TidyIsOrdered DEF FreeListOrdered
<1> QED BY <1>10, <1>11, <1>12 DEF Sane

LEMMA FreeStep ==
    ASSUME MInv, NotYetBroken, NEW b \in live, Free(b)
    PROVE  Sane /\ FreeListOrdered'
<1>1. TypeOK /\ LiveBlocksDistinct /\ live \subseteq Blocks /\ top \in 0 .. Size
  BY DEF MInv, TypeOK
<1>2. Tidy(free)
  BY MInvIsTidy DEF NotYetBroken
<1>3. live' = live \ {b} /\ free' \in Freed(free, b) /\ top' = top
  BY DEF Free
<1>4. Sound(b) /\ Clear(free, b)
  BY DEF MInv
<1>5. Tidy(free') /\ \A c \in Blocks : Apart(b, c) /\ Clear(free, c) => Clear(free', c)
  BY <1>2, <1>3, <1>4, FreedKeeps
<1>6. TypeOK'
  BY <1>1, <1>3, <1>5 DEF TypeOK, Tidy
<1>7. \A c \in live' : Sound(c) /\ Clear(free', c)
  <2>1. ASSUME NEW c \in live, c # b PROVE Sound(c) /\ Clear(free', c)
    <3>1. Apart(b, c) /\ Clear(free, c) /\ Sound(c) /\ c \in Blocks
      BY <1>1, <2>1 DEF MInv, LiveBlocksDistinct
    <3> QED BY <1>5, <3>1
  <2> QED BY <1>3, <2>1
<1>8. LiveBlocksDistinct'
  BY <1>1, <1>3 DEF LiveBlocksDistinct
<1>9. MInv'
  BY <1>5, <1>6, <1>7, <1>8, TidyIsSpaced DEF MInv
<1>10. UnitsAccounted => UnitsAccounted' \/ \E c \in live \ live' : TouchesUpperOnly(c)
  <2>1. SUFFICES ASSUME \A u \in 0 .. top - 1 : Accounted(live, free, u), ~TouchesUpperOnly(b)
                 PROVE  \A u \in 0 .. top' - 1 : Accounted(live', free', u)
    BY <1>3 DEF UnitsAccounted, Accounted, InBlock
  <2>2. ASSUME NEW u \in 0 .. top' - 1 PROVE Accounted(live', free', u)
    <3>1. u \in Nat /\ Accounted(live, free, u)
      BY <1>1, <1>3, <2>1
    <3>2. CASE \E c \in live \ {b} : InBlock(c, u)
      BY <1>3, <3>2 DEF Accounted
    <3>3. CASE InBlock(b, u) \/ \E k \in DOMAIN free : InBlock(free[k], u)
      <4>1. \A p : ~Swallows(free, b, p)
        BY <2>1, SwallowsTouch
      <4>2. \E k \in DOMAIN free' : InBlock(free'[k], u)
        BY <1>2, <1>3, <1>4, <3>1, <3>3, <4>1, FreedCovers
      <4> QED BY <4>2 DEF Accounted
    <3> QED BY <3>1, <3>2, <3>3 DEF Accounted
  <2> QED BY <2>2
<1>11. FreeListOrdered'
  BY <1>5, TidyIsOrdered DEF FreeListOrdered
<1> QED BY <1>9, <1>10, <1>11 DEF Sane

LEMMA ShrinkStep ==
    ASSUME MInv, NotYetBroken, NEW b \in live, NEW len \in Lengths, Shrink(b, len)
    PROVE  Sane
<1>1. TypeOK /\ LiveBlocksDistinct /\ live \subseteq Blocks /\ top \in 0 .. Size
  BY DEF MInv, TypeOK
<1>2. Tidy(free)
  BY MInvIsTidy DEF NotYetBroken
<1> DEFINE rest == Block(b.at + len, b.len - len)
           kept == Block(b.at, len)
<1>3. live' = (live \ {b}) \cup {kept} /\ free' = Shrunk(free, rest) /\ top' = top /\ len < b.len
  BY DEF Shrink
<1>4. Sound(b) /\ Clear(free, b) /\ b \in Blocks
  BY <1>1 DEF MInv
<1>5. /\ b.at \in Nat /\ b.len \in Nat /\ End(b) = b.at + b.len /\ End(b) \in Nat /\ End(b) <= Size
      /\ len \in Nat /\ len >= 1 /\ Size \in Nat
  BY <1>4, BlockNumbers, NativeMemoryAssumption DEF Sound
<1>6. Sound(rest) /\ rest.at = b.at + len /\ End(rest) = End(b)
  <2>1. /\ b.at + len \in Nat /\ b.len - len \in Nat /\ b.len - len >= 1
        /\ (b.at + len) + (b.len - len) = End(b)
    BY <1>3, <1>5
  <2> QED BY <1>5, <2>1, BlockSound
<1>7. Sound(kept) /\ kept \in Blocks /\ kept.at = b.at /\ End(kept) = b.at + len
  <2>1. b.at + len <= Size
    BY <1>3, <1>5
  <2> QED BY <1>5, <2>1, BlockSound
<1> HIDE DEF rest, kept
<1>8. /\ Spaced(free')
      /\ \A c \in Blocks : Apart(rest, c) /\ Clear(free, c) => Clear(free', c)
      /\ \A u \in Nat : InBlock(rest, u) \/ (\E k \in DOMAIN free : InBlock(free[k], u))
                        => \E k \in DOMAIN free' : InBlock(free'[k], u)
  <2>1. b.at < rest.at
    BY <1>5, <1>6
  <2> QED BY <1>2, <1>3, <1>4, <1>6, <2>1, ShrunkKeeps
<1>9. \A c \in Blocks : Apart(b, c) => Apart(rest, c) /\ Apart(kept, c)
  BY <1>3, <1>5, <1>6, <1>7, BlockNumbers DEF Apart
<1>10. TypeOK'
  BY <1>1, <1>3, <1>7, <1>8 DEF TypeOK, Spaced
<1>11. \A c \in live' : Sound(c) /\ Clear(free', c)
  <2>1. ASSUME NEW c \in live, c # b PROVE Sound(c) /\ Clear(free', c)
    <3>1. Apart(b, c) /\ Clear(free, c) /\ Sound(c) /\ c \in Blocks
      BY <1>1, <2>1 DEF MInv, LiveBlocksDistinct
    <3> QED BY <1>8, <1>9, <3>1
  <2>2. Clear(free', kept)
    <3>1. Apart(rest, kept)
      BY <1>5, <1>6, <1>7 DEF Apart
    <3>2. Clear(free, kept)
      <4>1. ASSUME NEW k \in DOMAIN free PROVE Apart(free[k], kept)
        <5>1. Apart(free[k], b) /\ free[k] \in Blocks
          BY <1>2, <1>4, TidyNumbers DEF Clear
        <5> QED BY <1>9, <5>1 DEF Apart
      <4> QED BY <4>1 DEF Clear
    <3> QED BY <1>7, <1>8, <3>1, <3>2
  <2> QED BY <1>3, <1>7, <2>1, <2>2
<1>12. LiveBlocksDistinct'
  <2>1. \A c \in live \ {b} : Apart(kept, c) /\ Apart(c, kept)
    BY <1>1, <1>9 DEF LiveBlocksDistinct, Apart
  <2> QED BY <1>1, <1>3, <2>1 DEF LiveBlocksDistinct
<1>13. MInv'
  BY <1>8, <1>10, <1>11, <1>12 DEF MInv
<1>14. UnitsAccounted => UnitsAccounted'
  <2>1. SUFFICES ASSUME \A u \in 0 .. top - 1 : Accounted(live, free, u)
                 PROVE  \A u \in 0 .. top' - 1 : Accounted(live', free', u)
    BY DEF UnitsAccounted, Accounted, InBlock
  <2>2. ASSUME NEW u \in 0 .. top' - 1 PROVE Accounted(live', free', u)
    <3>1. u \in Nat /\ Accounted(live, free, u)
      BY <1>1, <1>3, <2>1
    <3>2. CASE \E c \in live \ {b} : InBlock(c, u)
      BY <1>3, <3>2 DEF Accounted
    <3>3. CASE InBlock(b, u)
      <4>1. InBlock(kept, u) \/ InBlock(rest, u)
        BY <1>5, <1>6, <1>7, <3>1, <3>3 DEF InBlock
      <4> QED BY <1>3, <1>8, <3>1, <4>1 DEF Accounted
    <3>4. CASE \E k \in DOMAIN free : InBlock(free[k], u)
      BY <1>8, <3>1, <3>4 DEF Accounted
    <3> QED BY <3>1, <3>2, <3>3, <3>4 DEF Accounted
  <2> QED BY <2>2
<1> QED BY <1>13, <1>14 DEF Sane

LEMMA GrowStep ==
    ASSUME MInv, NotYetBroken, NEW b \in live, NEW len \in Lengths, Grow(b, len)
    PROVE  Sane /\ FreeListOrdered'
<1>1. TypeOK /\ LiveBlocksDistinct /\ TopAboveBlocks /\ live \subseteq Blocks /\ top \in 0 .. Size
  BY DEF MInv, NotYetBroken, TypeOK
<1>2. Tidy(free)
  BY MInvIsTidy DEF NotYetBroken
<1>3. PICK to \in Placed(len) : /\ top' = End(to) /\ free' \in Freed(Taken(to), b)
                                /\ live' = (live \ {b}) \cup {to}
  BY DEF Grow, TopAfter
<1> DEFINE list == Taken(to)
<1>4. /\ Sound(to) /\ to.len = len /\ Tidy(list) /\ Clear(list, to)
      /\ \A c \in Blocks : Clear(free, c) => Clear(list, c)
      /\ \A c \in Blocks : Clear(free, c) /\ End(c) <= top => Apart(c, to)
      /\ \A u \in Nat : (\E k \in DOMAIN free : InBlock(free[k], u))
                        => InBlock(to, u) \/ \E k \in DOMAIN list : InBlock(list[k], u)
  BY <1>1, <1>2, <1>3, TakenKeeps
<1>5. free' \in Freed(list, b)
  BY <1>3
<1>6. \A c \in live : /\ Sound(c) /\ Clear(free, c) /\ End(c) <= top /\ c \in Blocks
                      /\ Apart(c, to) /\ Clear(list, c)
  BY <1>1, <1>4 DEF MInv, TopAboveBlocks
<1>7. to \in Blocks /\ End(to) \in Nat /\ to.at \in Nat /\ End(to) <= Size /\ to.at < End(to)
  <2>1. to \in Blocks /\ End(to) <= Size
    BY <1>4 DEF Sound
  <2> QED BY <2>1, BlockNumbers
<1>8. b.at \in Nat /\ End(b) \in Nat /\ b.at < End(b)
  BY <1>6, BlockNumbers
<1>9. Tidy(free') /\ \A c \in Blocks : Apart(b, c) /\ Clear(list, c) => Clear(free', c)
  <2> HIDE DEF list
  <2> QED BY <1>4, <1>5, <1>6, FreedKeeps
<1>10. TypeOK'
  <2>1. top' \in 0 .. Size
    BY <1>1, <1>3, <1>7
  <2>2. live' \subseteq Blocks
    BY <1>1, <1>3, <1>7
  <2> QED BY <1>9, <2>1, <2>2 DEF TypeOK, Tidy
<1>11. \A c \in live' : Sound(c) /\ Clear(free', c)
  <2> HIDE DEF list
  <2>1. ASSUME NEW c \in live, c # b PROVE Sound(c) /\ Clear(free', c)
    <3>1. Apart(b, c)
      BY <1>1, <2>1 DEF LiveBlocksDistinct
    <3> QED BY <1>6, <1>9, <2>1, <3>1
  <2>2. Sound(to) /\ Clear(free', to)
    BY <1>4, <1>6, <1>7, <1>9
  <2> QED BY <1>3, <2>1, <2>2
<1>12. LiveBlocksDistinct'
  <2>1. \A c \in live : Apart(c, to) /\ Apart(to, c)
    BY <1>6 DEF Apart
  <2> QED BY <1>1, <1>3, <2>1 DEF LiveBlocksDistinct
<1>13. MInv'
  BY <1>9, <1>10, <1>11, <1>12, TidyIsSpaced DEF MInv
<1>14. UnitsAccounted => UnitsAccounted' \/ \E c \in live \ live' : TouchesUpperOnly(c)
  <2>1. b \in live \ live'
    <3>1. b # to
      BY <1>6, <1>7 DEF Apart
    <3> QED BY <1>3, <3>1
  <2>2. SUFFICES ASSUME \A u \in 0 .. top - 1 : Accounted(live, free, u), ~TouchesUpperOnly(b)
                 PROVE  \A u \in 0 .. top' - 1 : Accounted(live', free', u)
    BY <2>1 DEF UnitsAccounted, Accounted, InBlock
  <2>3. \A p : ~Swallows(free, b, p)
    BY <2>2, SwallowsTouch
  <2>4. ASSUME NEW u \in 0 .. top' - 1 PROVE Accounted(live', free', u)
    <3>1. u \in Nat /\ u < End(to)
      BY <1>3, <1>7
    <3>2. CASE InBlock(to, u)
      BY <1>3, <3>2 DEF Accounted
    <3>3. CASE ~InBlock(to, u)
      <4>1. u < top
        <5>1. u < to.at
          BY <1>7, <3>1, <3>3 DEF InBlock
        <5>2. to.at <= top
          <6>1. CASE top + len <= Size
            BY <1>1, <1>3, <6>1 DEF Placed, Block
          <6>2. CASE ~(top + len <= Size)
            <7>1. FirstFit(len) # 0 /\ to = Block(free[FirstFit(len)].at, len)
              BY <1>3, <6>2 DEF Placed
            <7>2. FirstFit(len) \in DOMAIN free
              <8>1. free \in Seq(Blocks)
                BY <1>2 DEF Tidy
              <8> QED BY <7>1, <8>1, FirstFitFits
            <7> DEFINE room == free[FirstFit(len)]
            <7>3. room.at \in Nat /\ End(room) \in Nat /\ room.at < End(room) /\ End(room) <= top
              BY <1>1, <1>2, <7>2, TidyNumbers DEF TopAboveBlocks
            <7>4. to.at = room.at
              BY <7>1 DEF Block
            <7> HIDE DEF room
            <7> QED BY <1>1, <7>3, <7>4
          <6> QED BY <6>1, <6>2
        <5> QED BY <1>1, <1>7, <3>1, <5>1, <5>2
      <4>2. Accounted(live, free, u)
        BY <1>1, <2>2, <3>1, <4>1
      <4>3. CASE \E c \in live \ {b} : InBlock(c, u)
        BY <1>3, <4>3 DEF Accounted
      <4>4. CASE InBlock(b, u) \/ \E k \in DOMAIN free : InBlock(free[k], u)
        <5>1. InBlock(b, u) \/ \E k \in DOMAIN list : InBlock(list[k], u)
          BY <1>4, <3>1, <3>3, <4>4
        <5> HIDE DEF list
        <5>2. \/ \E k \in DOMAIN free' : InBlock(free'[k], u)
              \/ \E p : Swallows(list, b, p) /\ End(b) <= u
          BY <1>4, <1>5, <1>6, <3>1, <5>1, FreedCovers
        <5>3. ASSUME NEW p, Swallows(list, b, p), End(b) <= u PROVE FALSE
          <6>1. End(to) <= b.at \/ Swallows(free, b, p)
            BY <1>1, <1>2, <1>3, <1>4, <1>6, <5>3, TakenSwallows DEF list
          <6>2. End(to) <= b.at
            BY <2>3, <6>1
          <6> QED BY <1>7, <1>8, <3>1, <5>3, <6>2
        <5> QED BY <5>2, <5>3 DEF Accounted
      <4> QED BY <4>2, <4>3, <4>4 DEF Accounted
    <3> QED BY <3>2, <3>3
  <2> QED BY <2>4
<1>15. FreeListOrdered'
  BY <1>9, TidyIsOrdered DEF FreeListOrdered
<1> QED BY <1>13, <1>14, <1>15 DEF Sane

-----------------------------------------------------------------------------
(* What the allocator keeps *)

LEMMA MInvInit ==
    ASSUME Init
    PROVE  MInv
<1>1. TypeOK
  BY NativeMemoryAssumption DEF Init, TypeOK
<1>2. Spaced(free)
  BY DEF Init, Spaced
<1> QED BY <1>1, <1>2 DEF Init, MInv, LiveBlocksDistinct

LEMMA UnbrokenStep ==
    ASSUME MInv, NotYetBroken, Next
    PROVE  Sane /\ (FreeListOrdered' \/ \E len \in Lengths, b \in live : Shrink(b, len))
<1>1. CASE \E len \in Lengths : Alloc(len)
  BY <1>1, AllocStep
<1>2. ASSUME NEW len \in Lengths, NEW b \in live, Shrink(b, len)
      PROVE  Sane /\ \E l \in Lengths, c \in live : Shrink(c, l)
  BY <1>2, ShrinkStep
<1>3. ASSUME NEW len \in Lengths, NEW b \in live, Grow(b, len)
      PROVE  Sane /\ FreeListOrdered'
  BY <1>3, GrowStep
<1>4. CASE \E b \in live : Free(b)
  BY <1>4, FreeStep
<1> QED BY <1>1, <1>2, <1>3, <1>4 DEF Next

LEMMA MInvStep ==
    ASSUME MInv, [NotYetBroken /\ Next]_vars
    PROVE  MInv'
<1>1. CASE NotYetBroken /\ Next
  BY <1>1, UnbrokenStep DEF Sane
<1>2. CASE UNCHANGED vars
  <2>1. top' = top /\ free' = free /\ live' = live
    BY <1>2 DEF vars
  <2> QED BY <2>1 DEF MInv, TypeOK, LiveBlocksDistinct
<1> QED BY <1>1, <1>2

LEMMA MInvAlways == UnbrokenSpec => []MInv
<1>1. Init => MInv
  BY MInvInit
<1>2. MInv /\ [NotYetBroken /\ Next]_vars => MInv'
  BY MInvStep
<1> QED BY <1>1, <1>2, PTL DEF UnbrokenSpec

\* As long as every allocation has found top above all blocks and the list in address order,
\* no two blocks handed out overlap, in a region of any size and for any lengths.
THEOREM UnbrokenBlocksDistinct == UnbrokenSpec => []LiveBlocksDistinct
<1>1. MInv => LiveBlocksDistinct
  BY DEF MInv
<1> QED BY <1>1, MInvAlways, PTL

\* What is on the free list is held by no one, and on the list once.
THEOREM UnbrokenFreeIsNotHeld == UnbrokenSpec => []FreeIsNotHeld
<1>1. ASSUME MInv PROVE FreeIsNotHeld
  <2>1. \A i \in DOMAIN free : \A b \in live : Apart(free[i], b)
    BY <1>1 DEF MInv, Clear
  <2>2. ASSUME NEW i \in DOMAIN free, NEW j \in DOMAIN free, i # j PROVE Apart(free[i], free[j])
    <3>1. End(free[i]) < free[j].at \/ End(free[j]) < free[i].at
      BY <1>1, <2>2 DEF MInv, Spaced
    <3>2. free[i] \in Blocks /\ free[j] \in Blocks
      BY <1>1 DEF MInv, Spaced, Sound
    <3>3. free[i].at \in Nat /\ free[j].at \in Nat /\ End(free[i]) \in Nat /\ End(free[j]) \in Nat
      BY <3>2, BlockNumbers
    <3> QED BY <3>1, <3>3 DEF Apart
  <2> QED BY <2>1, <2>2 DEF FreeIsNotHeld
<1> QED BY <1>1, MInvAlways, PTL

\* Free blocks that touch have been merged, by every branch of the free and of the shrink.
THEOREM UnbrokenFreeListMerged == UnbrokenSpec => []FreeListMerged
<1>1. ASSUME MInv PROVE FreeListMerged
  <2>1. ASSUME NEW i \in DOMAIN free, NEW j \in DOMAIN free PROVE End(free[i]) # free[j].at
    <3>1. free[i] \in Blocks /\ free[j] \in Blocks
      BY <1>1 DEF MInv, Spaced, Sound
    <3>2. /\ free[i].at \in Nat /\ free[j].at \in Nat /\ End(free[i]) \in Nat /\ End(free[j]) \in Nat
          /\ free[i].at < End(free[i]) /\ free[j].at < End(free[j])
      BY <3>1, BlockNumbers
    <3>3. i # j => End(free[i]) < free[j].at \/ End(free[j]) < free[i].at
      BY <1>1 DEF MInv, Spaced
    <3> QED BY <3>2, <3>3
  <2> QED BY <2>1 DEF FreeListMerged
<1> QED BY <1>1, MInvAlways, PTL

\* Of the steps that start with top above all blocks and the list in order, only a shrink
\* puts the list out of address order.
THEOREM UnbrokenOnlyShrinkDisorders == UnbrokenSpec => OnlyShrinkDisorders
<1>1. ASSUME MInv, [NotYetBroken /\ Next]_vars
      PROVE  [TopAboveBlocks => FreeListOrdered' \/ \E len \in Lengths, b \in live : Shrink(b, len)]_vars
  BY <1>1, UnbrokenStep
<1> QED BY <1>1, MInvAlways, PTL DEF UnbrokenSpec, OnlyShrinkDisorders

\* Of those steps, only the free of a block that lies against the free block above it, and
\* not against the one below, loses a unit: one that is neither held nor free.
THEOREM UnbrokenOnlySuchFreesLoseUnits == UnbrokenSpec => OnlySuchFreesLoseUnits
<1>1. ASSUME MInv, [NotYetBroken /\ Next]_vars
      PROVE  [UnitsAccounted => UnitsAccounted' \/ \E b \in live \ live' : TouchesUpperOnly(b)]_vars
  BY <1>1, UnbrokenStep DEF Sane
<1> QED BY <1>1, MInvAlways, PTL DEF UnbrokenSpec, OnlySuchFreesLoseUnits
=============================================================================
