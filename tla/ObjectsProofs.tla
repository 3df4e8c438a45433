---------------------------- MODULE ObjectsProofs ----------------------------
(***************************************************************************)
(* Proofs about Objects, for every set of names with any hash codes, of    *)
(* objects and of tables, and whatever capacities tables take.  First what *)
(* PropertyTable's operators do to a table that is well formed; then the   *)
(* invariant, which says of an addition in progress what the C functions   *)
(* rely on: the slot found is the slot a search would find, and a copy     *)
(* under way holds keys of the slots already copied.                       *)
(***************************************************************************)
EXTENDS Objects, FiniteSetTheorems, TLAPS

-----------------------------------------------------------------------------
(* Numbers *)

\* A set of naturals that is not empty has a least element.
LEMMA LeastExists ==
    ASSUME NEW T \in SUBSET Nat, T # {}
    PROVE  \E x \in T : \A y \in T : x <= y
<1> DEFINE U == {0 .. x : x \in T}
<1>1. IsWellFoundedOn(StrictSubsetOrdering(Nat), FiniteSubsetsOf(Nat))
  BY FS_StrictSubsetOrderingWellFounded
<1>2. U \subseteq FiniteSubsetsOf(Nat) /\ U # {}
  <2>1. ASSUME NEW x \in T PROVE 0 .. x \in SUBSET Nat /\ IsFiniteSet(0 .. x)
    BY FS_Interval
  <2> QED BY <2>1 DEF FiniteSubsetsOf
<1>3. PICK m \in U : \A u \in U : <<u, m>> \notin StrictSubsetOrdering(Nat)
  <2> HIDE DEF U
  <2> QED BY <1>1, <1>2, WFMin
<1>4. PICK x \in T : m = 0 .. x
  OBVIOUS
<1>5. ASSUME NEW y \in T, y < x PROVE FALSE
  <2>1. 0 .. y \in U /\ 0 .. y \subseteq m /\ x \in m /\ x \notin 0 .. y
    BY <1>4, <1>5
  <2>2. <<0 .. y, m>> \in StrictSubsetOrdering(Nat)
    BY <2>1, <1>4 DEF StrictSubsetOrdering
  <2> QED BY <1>3, <2>1, <2>2
<1> QED BY <1>5

Entries == [key : Name, property : Properties]
SlotMaps == UNION {[D -> Entries] : D \in SUBSET Nat}
IsTable(t) == /\ t \in [capacity : 1 .. MaxCapacity, length : Nat, slots : SlotMaps]
              /\ Used(t) \subseteq 0 .. t.capacity - 1
Slot == [valid : BOOLEAN, found : BOOLEAN, id : Nat]

-----------------------------------------------------------------------------
(* Tables *)

\* First gives the least of some distances.
LEMMA FirstIsLeast ==
    ASSUME NEW ds \in SUBSET Nat, ds # {}
    PROVE  First(ds) \in ds /\ \A e \in ds : First(ds) <= e
BY LeastExists DEF First

\* The parts of a table.
LEMMA TableFacts ==
    ASSUME NEW t, IsTable(t)
    PROVE  /\ t.capacity \in Nat /\ t.capacity > 0 /\ t.capacity <= MaxCapacity
           /\ t.slots \in [Used(t) -> Entries] /\ Used(t) \subseteq Nat
           /\ t.length \in Nat
<1>1. t.slots \in SlotMaps /\ t.capacity \in 1 .. MaxCapacity /\ MaxCapacity \in Nat /\ t.length \in Nat
  BY TableAssumption DEF IsTable
<1>2. PICK D \in SUBSET Nat : t.slots \in [D -> Entries]
  BY <1>1 DEF SlotMaps
<1>3. Used(t) = D
  BY <1>2 DEF Used
<1> QED BY <1>1, <1>2, <1>3

\* Probing never leaves the table.
LEMMA ProbeInTable ==
    ASSUME NEW t, IsTable(t), NEW key \in Name, NEW d \in Nat
    PROVE  Probe(t, key, d) \in 0 .. t.capacity - 1
<1>1. t.capacity \in Nat /\ t.capacity > 0 /\ Hash[key] \in Nat
  BY TableFacts, TableAssumption
<1>2. \A x, c \in Nat : c > 0 => x % c \in 0 .. c - 1
  OBVIOUS
<1> QED BY <1>1, <1>2 DEF Probe

\* A search ends at a slot of the table, in use if it has the key and free if not, past
\* none that is free or has the key.
LEMMA FindSlot ==
    ASSUME NEW t, IsTable(t), NEW key \in Name, Find(t, key).valid
    PROVE  LET s == Find(t, key)
           IN  /\ s.id \in 0 .. t.capacity - 1
               /\ s.found <=> s.id \in Used(t)
               /\ s.found => t.slots[s.id].key = key
               /\ \E d \in Distances(t) : /\ s.id = Probe(t, key, d)
                                          /\ \A e \in 0 .. d - 1 : /\ Probe(t, key, e) \in Used(t)
                                                                   /\ t.slots[Probe(t, key, e)].key # key
<1> DEFINE stops == {d \in Distances(t) : \/ Probe(t, key, d) \notin Used(t)
                                          \/ t.slots[Probe(t, key, d)].key = key}
           id == Probe(t, key, First(stops))
<1>1. stops # {} /\ Find(t, key) = [valid |-> TRUE, found |-> id \in Used(t), id |-> id]
  BY DEF Find, NoSlot
<1>2. stops \in SUBSET Nat /\ stops \subseteq Distances(t)
  BY TableFacts DEF Distances
<1>3. First(stops) \in stops /\ \A e \in stops : First(stops) <= e
  <2> HIDE DEF stops
  <2> QED BY <1>1, <1>2, FirstIsLeast
<1>4. First(stops) \in Nat /\ First(stops) \in Distances(t)
  <2> HIDE DEF stops
  <2> QED BY <1>2, <1>3
<1>5. id \in 0 .. t.capacity - 1
  BY <1>4, ProbeInTable
<1>6. id \in Used(t) => t.slots[id].key = key
  BY <1>3
<1>7. ASSUME NEW e \in 0 .. First(stops) - 1
      PROVE  Probe(t, key, e) \in Used(t) /\ t.slots[Probe(t, key, e)].key # key
  <2>1. e \in Distances(t) /\ ~(First(stops) <= e)
    BY <1>4, TableFacts DEF Distances
  <2>2. e \notin stops
    BY <1>3, <2>1
  <2> QED BY <2>1, <2>2
<1> DEFINE d == First(stops)
<1>8. /\ d \in Distances(t) /\ id = Probe(t, key, d)
      /\ \A e \in 0 .. d - 1 : Probe(t, key, e) \in Used(t) /\ t.slots[Probe(t, key, e)].key # key
  BY <1>4, <1>7
<1>9. Find(t, key).id = id /\ (Find(t, key).found <=> id \in Used(t))
  <2> HIDE DEF d, id, stops
  <2>1. Find(t, key).id = id
    BY <1>1
  <2>2. Find(t, key).found = (id \in Used(t))
    BY <1>1
  <2>3. CASE id \in Used(t)
    BY <2>1, <2>2, <2>3
  <2>4. CASE id \notin Used(t)
    BY <2>1, <2>2, <2>4
  <2> QED BY <2>3, <2>4
<1> HIDE DEF d, id
<1> QED BY <1>5, <1>6, <1>8, <1>9

\* A search gives a slot, and finds only valid ones.
LEMMA FindType ==
    ASSUME NEW t, IsTable(t), NEW key \in Name
    PROVE  Find(t, key) \in Slot /\ (Find(t, key).found => Find(t, key).valid)
<1>1. CASE Find(t, key) = NoSlot
  BY <1>1 DEF NoSlot, Slot
<1>2. CASE Find(t, key) # NoSlot
  <2>1. PICK id : Find(t, key) = [valid |-> TRUE, found |-> id \in Used(t), id |-> id]
    BY <1>2 DEF Find
  <2>2. Find(t, key).valid
    BY <2>1
  <2>3. id \in Nat
    <3>1. Find(t, key).id \in 0 .. t.capacity - 1
      BY <2>2, FindSlot
    <3> QED BY <2>1, <3>1, TableFacts
  <2> QED BY <2>1, <2>3 DEF Slot
<1> QED BY <1>1, <1>2

\* To write a slot changes that slot.
LEMMA WriteTable ==
    ASSUME NEW t, IsTable(t), NEW id \in 0 .. t.capacity - 1, NEW entry \in Entries
    PROVE  LET u == Write(t, id, entry)
           IN  /\ IsTable(u) /\ u.capacity = t.capacity /\ u.length = t.length
               /\ Used(u) = Used(t) \cup {id} /\ u.slots[id] = entry
               /\ \A i \in Used(t) : i # id => u.slots[i] = t.slots[i]
<1> DEFINE m == [i \in Used(t) \cup {id} |-> IF i = id THEN entry ELSE t.slots[i]]
           u == Write(t, id, entry)
<1>1. t \in [capacity : 1 .. MaxCapacity, length : Nat, slots : SlotMaps]
  BY DEF IsTable
<1>2. /\ t.slots \in [Used(t) -> Entries] /\ Used(t) \subseteq Nat /\ Used(t) \subseteq 0 .. t.capacity - 1
      /\ t.capacity \in Nat /\ id \in Nat
  BY TableFacts DEF IsTable
<1>3. m \in [Used(t) \cup {id} -> Entries] /\ Used(t) \cup {id} \in SUBSET Nat
  BY <1>2
<1>4. m \in SlotMaps
  BY <1>3 DEF SlotMaps
<1>5. u = [t EXCEPT !.slots = m]
  BY DEF Write
<1>6. u \in [capacity : 1 .. MaxCapacity, length : Nat, slots : SlotMaps] /\ u.slots = m
      /\ u.capacity = t.capacity /\ u.length = t.length
  <2> HIDE DEF m, u
  <2> QED BY <1>1, <1>4, <1>5
<1>7. Used(u) = Used(t) \cup {id}
  BY <1>6 DEF Used
<1>8. u.slots[id] = entry /\ \A i \in Used(t) : i # id => u.slots[i] = t.slots[i]
  BY <1>6
<1>9. IsTable(u)
  BY <1>2, <1>6, <1>7 DEF IsTable
<1> QED BY <1>6, <1>7, <1>8, <1>9

\* A slot that the search of a key may end at, and that no other slot of the key
\* contradicts, can be given the key.
LEMMA PutWellFormed ==
    ASSUME NEW t, IsTable(t), WellFormed(t), NEW entry \in Entries, NEW d \in Distances(t),
           \A e \in 0 .. d - 1 : Probe(t, entry.key, e) \in Used(t),
           \A j \in Used(t) : t.slots[j].key = entry.key => j = Probe(t, entry.key, d)
    PROVE  LET u == Write(t, Probe(t, entry.key, d), entry)
           IN  /\ IsTable(u) /\ WellFormed(u) /\ u.capacity = t.capacity /\ u.length = t.length
               /\ KeysOf(u) \subseteq KeysOf(t) \cup {entry.key}
<1> DEFINE id == Probe(t, entry.key, d)
           u == Write(t, id, entry)
<1>1. entry.key \in Name /\ d \in Nat /\ id \in 0 .. t.capacity - 1
  <2>1. entry.key \in Name /\ d \in Nat
    BY TableFacts DEF Entries, Distances
  <2> QED BY <2>1, ProbeInTable
<1>2. /\ IsTable(u) /\ u.capacity = t.capacity /\ u.length = t.length
      /\ Used(u) = Used(t) \cup {id} /\ u.slots[id] = entry
      /\ \A i \in Used(t) : i # id => u.slots[i] = t.slots[i]
  BY <1>1, WriteTable
<1>3. \A key, e : Probe(u, key, e) = Probe(t, key, e)
  BY <1>2 DEF Probe
<1>4. Distances(u) = Distances(t)
  BY <1>2 DEF Distances
<1>5. id = Probe(t, entry.key, d)
  OBVIOUS
<1> HIDE DEF u, id
<1>6. KeysOnce(u)
  <2> SUFFICES ASSUME NEW i \in Used(u), NEW j \in Used(u), u.slots[i].key = u.slots[j].key
               PROVE  i = j
    BY DEF KeysOnce
  <2>1. CASE i # id /\ j # id
    BY <2>1, <1>2 DEF WellFormed, KeysOnce
  <2>2. CASE i = id /\ j # id
    BY <2>2, <1>2, <1>5
  <2>3. CASE i # id /\ j = id
    BY <2>3, <1>2, <1>5
  <2> QED BY <2>1, <2>2, <2>3
<1>7. ProbeOrderKept(u)
  <2> SUFFICES ASSUME NEW i \in Used(u)
               PROVE  \E c \in Distances(u) : /\ i = Probe(u, u.slots[i].key, c)
                                              /\ \A e \in 0 .. c - 1 : Probe(u, u.slots[i].key, e) \in Used(u)
    BY DEF ProbeOrderKept
  <2>1. CASE i = id
    BY <2>1, <1>2, <1>3, <1>4, <1>5
  <2>2. CASE i # id
    <3>1. i \in Used(t) /\ u.slots[i] = t.slots[i]
      BY <2>2, <1>2
    <3>2. PICK c \in Distances(t) : /\ i = Probe(t, t.slots[i].key, c)
                                    /\ \A e \in 0 .. c - 1 : Probe(t, t.slots[i].key, e) \in Used(t)
      BY <3>1 DEF WellFormed, ProbeOrderKept
    <3> QED BY <3>1, <3>2, <1>2, <1>3, <1>4
  <2> QED BY <2>1, <2>2
<1>8. KeysOf(u) \subseteq KeysOf(t) \cup {entry.key}
  <2> SUFFICES ASSUME NEW i \in Used(u) PROVE u.slots[i].key \in KeysOf(t) \cup {entry.key}
    BY DEF KeysOf
  <2>1. CASE i = id
    BY <2>1, <1>2
  <2>2. CASE i # id
    BY <2>2, <1>2 DEF KeysOf
  <2> QED BY <2>1, <2>2
<1> QED BY <1>2, <1>6, <1>7, <1>8 DEF WellFormed, u, id

\* What is written at the slot a search gives leaves a table well formed.
LEMMA WriteWellFormed ==
    ASSUME NEW t, IsTable(t), WellFormed(t), NEW entry \in Entries, Find(t, entry.key).valid
    PROVE  LET u == Write(t, Find(t, entry.key).id, entry)
           IN  IsTable(u) /\ WellFormed(u) /\ u.length = t.length
<1> DEFINE key == entry.key
           id == Find(t, key).id
<1>1. key \in Name
  BY DEF Entries
<1>2. PICK d \in Distances(t) : /\ id = Probe(t, key, d)
                                /\ \A e \in 0 .. d - 1 : /\ Probe(t, key, e) \in Used(t)
                                                         /\ t.slots[Probe(t, key, e)].key # key
  BY <1>1, FindSlot
<1>3. id \in Used(t) => t.slots[id].key = key
  BY <1>1, FindSlot
<1>4. ASSUME NEW j \in Used(t), t.slots[j].key = key
      PROVE  j = id
  <2>1. PICK c \in Distances(t) : j = Probe(t, key, c) /\ \A e \in 0 .. c - 1 : Probe(t, key, e) \in Used(t)
    BY <1>4 DEF WellFormed, ProbeOrderKept
  <2>2. c \in Nat /\ d \in Nat
    BY TableFacts DEF Distances
  <2>3. CASE c < d
    <3>1. c \in 0 .. d - 1
      BY <2>2, <2>3
    <3> QED BY <3>1, <1>2, <1>4, <2>1
  <2>4. CASE c > d
    <3>1. d \in 0 .. c - 1
      BY <2>2, <2>4
    <3>2. id \in Used(t)
      BY <3>1, <1>2, <2>1
    <3> QED BY <3>2, <1>3, <1>4 DEF WellFormed, KeysOnce
  <2> QED BY <1>2, <2>1, <2>2, <2>3, <2>4
<1> HIDE DEF id
<1>5. IsTable(Write(t, Probe(t, key, d), entry)) /\ WellFormed(Write(t, Probe(t, key, d), entry))
      /\ Write(t, Probe(t, key, d), entry).length = t.length
  BY <1>2, <1>4, PutWellFormed
<1> QED BY <1>2, <1>5 DEF id

\* So does an entry copied to the first free slot, when the table lacks its key.
LEMMA CopyWellFormed ==
    ASSUME NEW t, IsTable(t), WellFormed(t), NEW entry \in Entries, entry.key \notin KeysOf(t)
    PROVE  LET u == CopyProperty(t, entry)
           IN  IsTable(u) /\ WellFormed(u) /\ KeysOf(u) \subseteq KeysOf(t) \cup {entry.key}
<1> DEFINE free == {d \in Distances(t) : Probe(t, entry.key, d) \notin Used(t)}
<1>1. CASE free = {}
  BY <1>1 DEF CopyProperty
<1>2. CASE free # {}
  <2>1. CopyProperty(t, entry) = Write(t, Probe(t, entry.key, First(free)), entry)
    BY <1>2 DEF CopyProperty
  <2>2. free \in SUBSET Nat
    BY TableFacts DEF Distances
  <2>3. First(free) \in free /\ \A e \in free : First(free) <= e
    <3> HIDE DEF free
    <3> QED BY <1>2, <2>2, FirstIsLeast
  <2>4. First(free) \in Distances(t)
    BY <2>3
  <2>5. ASSUME NEW e \in 0 .. First(free) - 1
        PROVE  Probe(t, entry.key, e) \in Used(t)
    <3>1. First(free) \in Nat /\ First(free) <= t.capacity - 1 /\ t.capacity \in Nat
      BY <2>4, TableFacts DEF Distances
    <3>2. e \in Distances(t) /\ ~(First(free) <= e)
      BY <3>1 DEF Distances
    <3>3. e \notin free
      BY <2>3, <3>2
    <3> QED BY <3>2, <3>3
  <2>6. \A j \in Used(t) : t.slots[j].key = entry.key => j = Probe(t, entry.key, First(free))
    BY DEF KeysOf
  <2> HIDE DEF free
  <2> QED BY <2>1, <2>4, <2>5, <2>6, PutWellFormed
<1> QED BY <1>1, <1>2

\* The length of a table says nothing of its slots.
LEMMA LengthWellFormed ==
    ASSUME NEW t, IsTable(t), WellFormed(t), NEW n \in Nat
    PROVE  LET u == [t EXCEPT !.length = n]
           IN  IsTable(u) /\ WellFormed(u) /\ u.slots = t.slots /\ u.capacity = t.capacity
<1> DEFINE u == [t EXCEPT !.length = n]
<1>1. t \in [capacity : 1 .. MaxCapacity, length : Nat, slots : SlotMaps]
  BY DEF IsTable
<1>2. /\ u \in [capacity : 1 .. MaxCapacity, length : Nat, slots : SlotMaps]
      /\ u.slots = t.slots /\ u.capacity = t.capacity
  BY <1>1
<1> HIDE DEF u
<1>3. Used(u) = Used(t) /\ Distances(u) = Distances(t) /\ \A key, e : Probe(u, key, e) = Probe(t, key, e)
  BY <1>2 DEF Used, Distances, Probe
<1>4. IsTable(u)
  BY <1>2, <1>3 DEF IsTable
<1>5. KeysOnce(u)
  BY <1>2, <1>3 DEF WellFormed, KeysOnce
<1>6. ProbeOrderKept(u)
  BY <1>2, <1>3 DEF WellFormed, ProbeOrderKept
<1> QED BY <1>2, <1>4, <1>5, <1>6 DEF WellFormed, u

\* A table begins empty, with a capacity that fits.
LEMMA EmptyWellFormed ==
    ASSUME NEW c \in 1 .. MaxCapacity
    PROVE  IsTable(EmptyTable(c)) /\ WellFormed(EmptyTable(c)) /\ KeysOf(EmptyTable(c)) = {}
           /\ EmptyTable(c).capacity = c
<1>1. [i \in {} |-> 0] \in [{} -> Entries]
  OBVIOUS
<1>2. [i \in {} |-> 0] \in SlotMaps
  BY <1>1 DEF SlotMaps
<1>3. EmptyTable(c) \in [capacity : 1 .. MaxCapacity, length : Nat, slots : SlotMaps]
  BY <1>2 DEF EmptyTable
<1>4. Used(EmptyTable(c)) = {}
  BY DEF EmptyTable, Used
<1> QED BY <1>3, <1>4 DEF IsTable, WellFormed, KeysOnce, ProbeOrderKept, KeysOf, EmptyTable

\* The capacities asked for are positive, and the first fits.
LEMMA Capacities ==
    /\ FirstCapacity \in 1 .. MaxCapacity
    /\ \A c \in 1 .. MaxCapacity : NextCapacity(c) <= MaxCapacity => NextCapacity(c) \in 1 .. MaxCapacity
<1>1. Steps \in SUBSET Nat /\ Steps # {} /\ MaxCapacity \in Nat
  BY TableAssumption
<1>2. FirstCapacity \in Steps /\ \A s \in Steps : FirstCapacity <= s
  BY <1>1, LeastExists DEF FirstCapacity
<1>3. FirstCapacity \in 1 .. MaxCapacity
  <2>1. PICK s \in Steps : s <= MaxCapacity
    BY TableAssumption
  <2>2. FirstCapacity \in Nat \ {0} /\ s \in Nat /\ FirstCapacity <= s
    BY <1>2, TableAssumption
  <2> QED BY <2>1, <2>2, <1>1
<1>4. ASSUME NEW c \in 1 .. MaxCapacity, NextCapacity(c) <= MaxCapacity
      PROVE  NextCapacity(c) \in 1 .. MaxCapacity
  <2>1. NextCapacity(c) \in Nat /\ NextCapacity(c) > c
    BY TableAssumption
  <2> QED BY <1>1, <1>4, <2>1
<1> QED BY <1>3, <1>4

-----------------------------------------------------------------------------
(* The tables in use *)

Good(ts) == /\ DOMAIN ts \subseteq TableId
            /\ \A t \in DOMAIN ts : IsTable(ts[t]) /\ WellFormed(ts[t])

\* One table more.
LEMMA TableAdded ==
    ASSUME NEW ts, Good(ts), NEW t \in TableId \ DOMAIN ts, NEW c \in 1 .. MaxCapacity
    PROVE  LET us == [u \in DOMAIN ts \cup {t} |-> IF u = t THEN EmptyTable(c) ELSE ts[u]]
           IN  /\ Good(us) /\ DOMAIN us = DOMAIN ts \cup {t} /\ us[t] = EmptyTable(c)
               /\ \A u \in DOMAIN ts : u # t /\ us[u] = ts[u]
BY EmptyWellFormed DEF Good

\* A table replaced.
LEMMA TableReplaced ==
    ASSUME NEW ts, Good(ts), NEW t \in DOMAIN ts, NEW x, IsTable(x), WellFormed(x)
    PROVE  LET us == [ts EXCEPT ![t] = x]
           IN  /\ Good(us) /\ DOMAIN us = DOMAIN ts /\ us[t] = x
               /\ \A u \in DOMAIN ts : u # t => us[u] = ts[u]
BY DEF Good

\* The tables that something names.
LEMMA TablesKept ==
    ASSUME NEW ts, Good(ts), NEW roots
    PROVE  LET us == Collected(ts, roots)
           IN  /\ Good(us) /\ DOMAIN us = DOMAIN ts \cap roots
               /\ \A u \in DOMAIN us : us[u] = ts[u]
BY DEF Good, Collected

-----------------------------------------------------------------------------
(* The invariant *)

\* What is left of an object: its own table, or one that no object has yet.
TableOfOwner(table) == ~through => (table = body[pend.obj] \/ table \notin Bodies(body))

AddingOK ==
    /\ pend = Adding(pend.obj, pend.table, pend.slot, pend.key, pend.property, pend.value)
    /\ pend.obj \in Obj /\ pend.table \in DOMAIN tables /\ pend.slot \in Slot
    /\ pend.key \in Name /\ pend.property \in Properties /\ pend.value \in Value \cup {NULL}
    /\ pend.slot.valid => pend.slot = Find(tables[pend.table], pend.key)
    /\ TableOfOwner(pend.table)

CopyingOK ==
    /\ pend = [phase |-> "copying", obj |-> pend.obj, table |-> pend.table, new |-> pend.new,
               index |-> pend.index, key |-> pend.key, property |-> pend.property, value |-> pend.value]
    /\ pend.obj \in Obj /\ pend.table \in DOMAIN tables /\ pend.new \in DOMAIN tables
    /\ pend.key \in Name /\ pend.property \in Properties /\ pend.value \in Value \cup {NULL}
    /\ pend.index \in Nat
    /\ pend.new # pend.table /\ pend.new \notin Bodies(body)
    /\ KeysOf(tables[pend.new]) \subseteq
           {tables[pend.table].slots[i].key : i \in {j \in Used(tables[pend.table]) : j < pend.index}}

PendOK == pend = Idle \/ AddingOK \/ CopyingOK

Typed == /\ kind \in [Obj -> {"object", "global"}]
         /\ proto \in [Obj -> Obj \cup {NULL}]
         /\ globals \in [Globals -> Value \cup {NULL}]
         /\ through \in BOOLEAN

BodyOK == body \in [Obj -> DOMAIN tables \cup {NULL}]

Inv == Typed /\ Good(tables) /\ BodyOK /\ BodiesDistinct /\ PendOK

\* What is known of an addition in each of its phases.
LEMMA Phases ==
    ASSUME PendOK
    PROVE  /\ pend.phase = "adding" => AddingOK
           /\ pend.phase = "copying" => CopyingOK
           /\ pend.phase \in {"idle", "adding", "copying"}
<1>1. CASE pend = Idle
  BY <1>1 DEF Idle
<1>2. CASE AddingOK
  <2>1. pend.phase = "adding"
    BY <1>2 DEF AddingOK, Adding
  <2> QED BY <1>2, <2>1
<1>3. CASE CopyingOK
  <2>1. pend.phase = "copying"
    BY <1>3 DEF CopyingOK
  <2> QED BY <1>3, <2>1
<1> QED BY <1>1, <1>2, <1>3 DEF PendOK

\* The properties that operations add.
LEMMA PropertiesTyped ==
    /\ \A v \in Value : PlainValue(v) \in Properties
    /\ \A c \in BOOLEAN, v \in {NULL} \cup Globals : Native(c, v) \in Properties
    /\ \A n \in Name : \A d \in Definitions[n] : Defined(d) \in Properties
<1>1. ASSUME NEW n \in Name, NEW d \in Definitions[n]
      PROVE  Defined(d) \in Properties
  <2>1. /\ d.configurable \in BOOLEAN /\ d.writeable \in BOOLEAN /\ d.get \in BOOLEAN /\ d.set \in BOOLEAN
        /\ d.value \in Value \cup {NULL}
    BY ObjectsAssumption
  <2> QED BY <2>1 DEF Defined, Property, Properties
<1> QED BY <1>1 DEF PlainValue, Native, Property, Properties

\* An object's own entry is a property, at the slot a search of its table gives.
LEMMA OwnEntry ==
    ASSUME Inv, NEW o \in Obj, NEW n \in Name
    PROVE  /\ OwnSlot(o, n) \in Slot
           /\ body[o] # NULL => body[o] \in DOMAIN tables /\ OwnSlot(o, n) = Find(tables[body[o]], n)
           /\ OwnSlot(o, n).found => body[o] # NULL /\ OwnSlot(o, n).valid /\ Entry(o, n) \in Properties
<1>1. CASE body[o] = NULL
  BY <1>1 DEF OwnSlot, NoSlot, Slot
<1>2. CASE body[o] # NULL
  <2>1. body[o] \in DOMAIN tables /\ OwnSlot(o, n) = Find(tables[body[o]], n)
    BY <1>2 DEF Inv, BodyOK, OwnSlot
  <2>2. IsTable(tables[body[o]])
    BY <2>1 DEF Inv, Good
  <2>3. OwnSlot(o, n) \in Slot /\ (OwnSlot(o, n).found => OwnSlot(o, n).valid)
    BY <2>1, <2>2, FindType
  <2>4. ASSUME OwnSlot(o, n).found
        PROVE  Entry(o, n) \in Properties
    <3>1. Find(tables[body[o]], n).id \in Used(tables[body[o]])
      BY <2>1, <2>2, <2>3, <2>4, FindSlot
    <3>2. tables[body[o]].slots[Find(tables[body[o]], n).id] \in Entries
      BY <2>2, <3>1, TableFacts
    <3> QED BY <2>1, <3>2 DEF Entry, Entries
  <2> QED BY <1>2, <2>1, <2>3, <2>4
<1> QED BY <1>1, <1>2

\* Objects begin without tables.
THEOREM InvInit == Init => Inv
<1> SUFFICES ASSUME Init PROVE Inv
  OBVIOUS
<1>1. Typed
  BY DEF Init, Typed
<1>2. DOMAIN tables = {}
  BY DEF Init
<1>3. Good(tables)
  BY <1>2 DEF Good
<1>4. BodyOK /\ BodiesDistinct
  BY <1>2 DEF Init, BodyOK, BodiesDistinct
<1>5. PendOK
  BY DEF Init, PendOK
<1> QED BY <1>1, <1>3, <1>4, <1>5 DEF Inv

-----------------------------------------------------------------------------
(* Each action keeps the invariant *)

\* An addition that has begun, or begun again.
LEMMA AddingBegun ==
    ASSUME NEW o \in Obj, NEW n \in Name, NEW property \in Properties, NEW value \in Value \cup {NULL},
           NEW t \in DOMAIN tables', NEW slot \in Slot,
           pend' = Adding(o, t, slot, n, property, value),
           slot.valid => slot = Find(tables'[t], n),
           ~through' => (t = body'[o] \/ t \notin Bodies(body'))
    PROVE  AddingOK'
<1>1. /\ pend'.obj = o /\ pend'.table = t /\ pend'.slot = slot /\ pend'.key = n
      /\ pend'.property = property /\ pend'.value = value
  BY DEF Adding
<1> QED BY <1>1 DEF AddingOK, TableOfOwner

\* A first table is allocated, or the object's is taken.
LEMMA BeginAddKeeps ==
    ASSUME Inv, NEW o \in Obj, NEW n \in Name, NEW property \in Properties,
           NEW value \in Value \cup {NULL}, BeginAdd(o, n, property, value)
    PROVE  Inv'
<1>1. UNCHANGED <<kind, proto, body, globals, through>>
  BY DEF BeginAdd
<1>2. CASE body[o] # NULL /\ pend' = Adding(o, body[o], OwnSlot(o, n), n, property, value) /\ UNCHANGED tables
  <2>1. body[o] \in DOMAIN tables /\ OwnSlot(o, n) = Find(tables[body[o]], n) /\ OwnSlot(o, n) \in Slot
    BY <1>2, OwnEntry
  <2>2. AddingOK'
    BY <1>1, <1>2, <2>1, AddingBegun
  <2> QED BY <1>1, <1>2, <2>2 DEF Inv, Typed, Good, BodyOK, BodiesDistinct, PendOK
<1>3. ASSUME NEW t \in TableId \ DOMAIN tables,
             pend' = Adding(o, t, NoSlot, n, property, value),
             tables' = [u \in DOMAIN tables \cup {t} |-> IF u = t THEN EmptyTable(FirstCapacity) ELSE tables[u]]
      PROVE  Inv'
  <2>1. Good(tables') /\ DOMAIN tables' = DOMAIN tables \cup {t}
    BY <1>3, TableAdded, Capacities DEF Inv
  <2>2. t \notin Bodies(body)
    BY ObjectsAssumption DEF Inv, BodyOK, Bodies
  <2>3. AddingOK'
    BY <1>1, <1>3, <2>1, <2>2, AddingBegun DEF NoSlot, Slot
  <2>4. BodyOK'
    BY <1>1, <2>1 DEF Inv, BodyOK
  <2> QED BY <1>1, <2>1, <2>3, <2>4 DEF Inv, Typed, BodiesDistinct, PendOK
<1> QED BY <1>2, <1>3 DEF BeginAdd

\* The property is written where a search finds it or its place.
LEMMA WritePropertyKeeps == Inv /\ WriteProperty => Inv'
<1> SUFFICES ASSUME Inv, WriteProperty PROVE Inv'
  OBVIOUS
<1> DEFINE T == tables[pend.table]
           entry == [key |-> pend.key, property |-> pend.property]
           after == AddAt(T, PendSlot.id, entry)
           ts == [tables EXCEPT ![pend.table] = after]
<1>1. AddingOK /\ ~MustGrow
  BY Phases DEF Inv, WriteProperty
<1>2. IsTable(T) /\ WellFormed(T)
  BY <1>1 DEF Inv, Good, AddingOK
<1>3. PendSlot.valid /\ PendSlot = Find(T, pend.key)
  BY <1>1 DEF MustGrow, PendSlot, PendTable, AddingOK
<1>4. entry \in Entries /\ entry.key = pend.key
  BY <1>1 DEF AddingOK, Entries
<1>5. IsTable(after) /\ WellFormed(after)
  <2> DEFINE w == Write(T, PendSlot.id, entry)
  <2>1. IsTable(w) /\ WellFormed(w)
    BY <1>2, <1>3, <1>4, WriteWellFormed
  <2>2. after = [w EXCEPT !.length = T.length + 1]
    BY DEF AddAt
  <2>3. T.length + 1 \in Nat
    BY <1>2, TableFacts
  <2> HIDE DEF w
  <2> QED BY <2>1, <2>2, <2>3, LengthWellFormed
<1>6. Good(ts) /\ DOMAIN ts = DOMAIN tables
  BY <1>1, <1>5, TableReplaced DEF Inv, AddingOK
<1>7. /\ body' = [body EXCEPT ![pend.obj] = pend.table] /\ tables' = Collected(ts, Bodies(body'))
      /\ pend' = Idle /\ UNCHANGED <<kind, proto, through>>
  BY DEF WriteProperty, PendTable
<1>8. Good(tables') /\ DOMAIN tables' = DOMAIN tables \cap Bodies(body')
  <2> HIDE DEF ts
  <2>1. tables' = Collected(ts, Bodies(body'))
    BY <1>7
  <2>2. ASSUME NEW roots
        PROVE  Good(Collected(ts, roots)) /\ DOMAIN Collected(ts, roots) = DOMAIN ts \cap roots
    BY <1>6, TablesKept
  <2> QED BY <1>6, <2>1, <2>2
<1>9. BodyOK'
  <2>1. body' \in [Obj -> DOMAIN tables \cup {NULL}]
    BY <1>1, <1>7 DEF Inv, BodyOK, AddingOK
  <2>2. ASSUME NEW o \in Obj PROVE body'[o] \in (DOMAIN tables \cap Bodies(body')) \cup {NULL}
    BY <2>1 DEF Bodies
  <2> QED BY <1>8, <2>1, <2>2 DEF BodyOK
<1>10. BodiesDistinct'
  <2> SUFFICES ASSUME ~through, NEW o \in Obj, NEW x \in Obj, body'[o] = body'[x], body'[o] # NULL
               PROVE  o = x
    BY <1>7 DEF BodiesDistinct
  <2>1. pend.table = body[pend.obj] \/ pend.table \notin Bodies(body)
    BY <1>1 DEF AddingOK, TableOfOwner
  <2>2. pend.obj \in Obj /\ body \in [Obj -> DOMAIN tables \cup {NULL}]
    BY <1>1 DEF AddingOK, Inv, BodyOK
  <2>3. \A y \in Obj : body'[y] = IF y = pend.obj THEN pend.table ELSE body[y]
    BY <1>7, <2>2
  <2>4. \A y \in Obj : body[y] \in Bodies(body)
    BY DEF Bodies
  <2> QED BY <2>1, <2>2, <2>3, <2>4 DEF Inv, BodiesDistinct
<1>11. Typed'
  <2>1. globals' \in [Globals -> Value \cup {NULL}]
    BY <1>1 DEF Inv, Typed, WriteProperty, AddingOK
  <2> QED BY <1>7, <2>1 DEF Inv, Typed
<1> QED BY <1>7, <1>8, <1>9, <1>10, <1>11 DEF Inv, PendOK

\* A larger table is allocated.
LEMMA GrowKeeps == Inv /\ Grow => Inv'
<1> SUFFICES ASSUME Inv, Grow PROVE Inv'
  OBVIOUS
<1>1. AddingOK
  BY Phases DEF Inv, Grow
<1>2. PICK t \in TableId \ DOMAIN tables :
        /\ tables' = [u \in DOMAIN tables \cup {t} |->
                         IF u = t THEN EmptyTable(NextCapacity(PendTable.capacity)) ELSE tables[u]]
        /\ pend' = [phase |-> "copying", obj |-> pend.obj, table |-> pend.table, new |-> t,
                    index |-> 0, key |-> pend.key, property |-> pend.property, value |-> pend.value]
  BY DEF Grow
<1>3. UNCHANGED <<kind, proto, body, globals, through>>
  BY DEF Grow
<1>4. NextCapacity(PendTable.capacity) \in 1 .. MaxCapacity
  <2>1. PendTable.capacity \in 1 .. MaxCapacity
    <3>1. IsTable(PendTable)
      BY <1>1 DEF Inv, Good, AddingOK, PendTable
    <3> QED BY <3>1 DEF IsTable
  <2> QED BY <2>1, Capacities DEF Grow
<1>5. /\ Good(tables') /\ DOMAIN tables' = DOMAIN tables \cup {t}
      /\ tables'[t] = EmptyTable(NextCapacity(PendTable.capacity))
  BY <1>2, <1>4, TableAdded DEF Inv
<1>6. KeysOf(tables'[t]) = {}
  BY <1>4, <1>5, EmptyWellFormed
<1>7. t \notin Bodies(body)
  BY ObjectsAssumption DEF Inv, BodyOK, Bodies
<1>8. /\ pend'.obj = pend.obj /\ pend'.table = pend.table /\ pend'.new = t /\ pend'.index = 0
      /\ pend'.key = pend.key /\ pend'.property = pend.property /\ pend'.value = pend.value
  BY <1>2
<1>9. CopyingOK'
  BY <1>1, <1>2, <1>3, <1>5, <1>6, <1>7, <1>8 DEF AddingOK, CopyingOK
<1>10. BodyOK'
  BY <1>3, <1>5 DEF Inv, BodyOK
<1> QED BY <1>3, <1>5, <1>9, <1>10 DEF Inv, Typed, BodiesDistinct, PendOK

\* A slot of the old table is copied: its key is not among those copied before it.
LEMMA CopySlotKeeps == Inv /\ CopySlot => Inv'
<1> SUFFICES ASSUME Inv, CopySlot PROVE Inv'
  OBVIOUS
<1> DEFINE T == tables[pend.table]
           N == tables[pend.new]
           keys(k) == {T.slots[i].key : i \in {j \in Used(T) : j < k}}
<1>1. CopyingOK
  BY Phases DEF Inv, CopySlot
<1>2. /\ UNCHANGED <<kind, proto, body, globals, through>> /\ pend' = [pend EXCEPT !.index = pend.index + 1]
      /\ tables' = IF pend.index \in Used(T)
                   THEN [tables EXCEPT ![pend.new] = CopyProperty(N, T.slots[pend.index])] ELSE tables
  BY DEF CopySlot, PendTable
<1>3. /\ IsTable(T) /\ WellFormed(T) /\ IsTable(N) /\ WellFormed(N)
      /\ pend.index \in Nat /\ pend.table \in DOMAIN tables /\ pend.new \in DOMAIN tables
      /\ pend.table # pend.new /\ KeysOf(N) \subseteq keys(pend.index)
  BY <1>1 DEF Inv, Good, CopyingOK
<1>4. Used(T) \subseteq Nat /\ T.slots \in [Used(T) -> Entries]
  BY <1>3, TableFacts
<1>5. /\ Good(tables') /\ DOMAIN tables' = DOMAIN tables /\ tables'[pend.table] = T
      /\ KeysOf(tables'[pend.new]) \subseteq keys(pend.index + 1)
  <2>1. CASE pend.index \notin Used(T)
    <3>1. keys(pend.index) \subseteq keys(pend.index + 1)
      BY <1>3, <1>4
    <3> QED BY <1>2, <1>3, <2>1, <3>1 DEF Inv
  <2>2. CASE pend.index \in Used(T)
    <3> DEFINE entry == T.slots[pend.index]
               copy == CopyProperty(N, entry)
    <3>1. entry \in Entries
      BY <1>4, <2>2
    <3>2. entry.key \notin KeysOf(N)
      <4> SUFFICES ASSUME entry.key \in keys(pend.index) PROVE FALSE
        BY <1>3
      <4>1. PICK i \in Used(T) : i < pend.index /\ T.slots[i].key = entry.key
        OBVIOUS
      <4>2. i = pend.index
        BY <1>3, <2>2, <4>1 DEF WellFormed, KeysOnce
      <4> QED BY <1>3, <4>1, <4>2
    <3>3. IsTable(copy) /\ WellFormed(copy) /\ KeysOf(copy) \subseteq KeysOf(N) \cup {entry.key}
      BY <1>3, <3>1, <3>2, CopyWellFormed
    <3>4. keys(pend.index) \cup {entry.key} \subseteq keys(pend.index + 1)
      BY <1>3, <1>4, <2>2
    <3>5. tables' = [tables EXCEPT ![pend.new] = copy]
      BY <1>2, <2>2
    <3> HIDE DEF copy
    <3>6. Good(tables') /\ DOMAIN tables' = DOMAIN tables /\ tables'[pend.table] = T /\ tables'[pend.new] = copy
      BY <1>3, <3>3, <3>5, TableReplaced DEF Inv
    <3> QED BY <1>3, <3>3, <3>4, <3>6
  <2> QED BY <2>1, <2>2
<1>6. /\ pend' = [phase |-> "copying", obj |-> pend.obj, table |-> pend.table, new |-> pend.new,
                  index |-> pend.index + 1, key |-> pend.key, property |-> pend.property, value |-> pend.value]
  BY <1>1, <1>2 DEF CopyingOK
<1>7. /\ pend'.obj = pend.obj /\ pend'.table = pend.table /\ pend'.new = pend.new
      /\ pend'.index = pend.index + 1
      /\ pend'.key = pend.key /\ pend'.property = pend.property /\ pend'.value = pend.value
  BY <1>6
<1>8. CopyingOK'
  <2>1. pend.index + 1 \in Nat
    BY <1>3
  <2>2. KeysOf(tables'[pend'.new]) \subseteq
           {tables'[pend'.table].slots[i].key : i \in {j \in Used(tables'[pend'.table]) : j < pend'.index}}
    BY <1>5, <1>7
  <2> QED BY <1>1, <1>2, <1>5, <1>6, <1>7, <2>1, <2>2 DEF CopyingOK
<1>9. BodyOK'
  BY <1>2, <1>5 DEF Inv, BodyOK
<1> QED BY <1>2, <1>5, <1>8, <1>9 DEF Inv, Typed, BodiesDistinct, PendOK

\* The copy takes the old table's length, and the addition begins again with it.
LEMMA FinishCopyKeeps == Inv /\ FinishCopy => Inv'
<1> SUFFICES ASSUME Inv, FinishCopy PROVE Inv'
  OBVIOUS
<1> DEFINE N == tables[pend.new]
           n == PendTable.length
           after == [N EXCEPT !.length = n]
           ts == [tables EXCEPT ![pend.new] = after]
<1>1. CopyingOK
  BY Phases DEF Inv, FinishCopy
<1>2. /\ UNCHANGED <<kind, proto, body, globals, through>>
      /\ pend' = Adding(pend.obj, pend.new, NoSlot, pend.key, pend.property, pend.value)
  BY DEF FinishCopy
<1>3. IsTable(N) /\ WellFormed(N) /\ n \in Nat
  <2>1. IsTable(PendTable)
    BY <1>1 DEF Inv, Good, CopyingOK, PendTable
  <2> QED BY <1>1, <2>1, TableFacts DEF Inv, Good, CopyingOK
<1>4. tables' = Collected(ts, Bodies(body) \cup {pend.new})
  BY DEF FinishCopy
<1> HIDE DEF n
<1>5. IsTable(after) /\ WellFormed(after)
  BY <1>3, LengthWellFormed
<1> HIDE DEF after
<1>6. Good(ts) /\ DOMAIN ts = DOMAIN tables
  BY <1>1, <1>5, TableReplaced DEF Inv, CopyingOK
<1> HIDE DEF ts
<1>7. Good(tables') /\ DOMAIN tables' = DOMAIN tables \cap (Bodies(body) \cup {pend.new})
  BY <1>4, <1>6, TablesKept
<1>8. AddingOK'
  <2>1. NoSlot \in Slot /\ ~NoSlot.valid
    BY DEF NoSlot, Slot
  <2>2. /\ pend.obj \in Obj /\ pend.key \in Name /\ pend.property \in Properties
        /\ pend.value \in Value \cup {NULL} /\ pend.new \in DOMAIN tables'
        /\ pend.new \notin Bodies(body')
    BY <1>1, <1>2, <1>7 DEF CopyingOK
  <2> QED BY <1>2, <2>1, <2>2, AddingBegun
<1>9. BodyOK'
  <2>1. \A o \in Obj : body[o] \in (DOMAIN tables \cap Bodies(body)) \cup {NULL}
    BY DEF Inv, BodyOK, Bodies
  <2> QED BY <1>2, <1>7, <2>1 DEF Inv, BodyOK
<1> QED BY <1>2, <1>7, <1>8, <1>9 DEF Inv, Typed, BodiesDistinct, PendOK

\* The addition is given up.
LEMMA OutOfMemoryKeeps == Inv /\ OutOfMemory => Inv'
<1> SUFFICES ASSUME Inv, OutOfMemory PROVE Inv'
  OBVIOUS
<1>1. /\ UNCHANGED <<kind, proto, body, globals, through>> /\ pend' = Idle
      /\ tables' = Collected(tables, Bodies(body))
  BY DEF OutOfMemory
<1>2. Good(tables') /\ DOMAIN tables' = DOMAIN tables \cap Bodies(body)
  BY <1>1, TablesKept DEF Inv
<1>3. BodyOK'
  <2>1. \A o \in Obj : body[o] \in (DOMAIN tables \cap Bodies(body)) \cup {NULL}
    BY DEF Inv, BodyOK, Bodies
  <2> QED BY <1>1, <1>2, <2>1 DEF Inv, BodyOK
<1> QED BY <1>1, <1>2, <1>3 DEF Inv, Typed, BodiesDistinct, PendOK

\* A value the object has is written, or the property is added.
LEMMA SetMemberKeeps ==
    ASSUME Inv, NEW o \in Obj, NEW n \in Name, NEW v \in Value, SetMember(o, n, v)
    PROVE  Inv'
<1>1. CASE SetAdds(o, n, v)
  BY <1>1, BeginAddKeeps, PropertiesTyped DEF SetAdds
<1>2. CASE SetValue(o, n, v)
  <2> DEFINE T == tables[body[o]]
             entry == [key |-> n, property |-> [Entry(o, n) EXCEPT !.value = v]]
             after == Write(T, OwnSlot(o, n).id, entry)
  <2>1. /\ body[o] \in DOMAIN tables /\ OwnSlot(o, n) = Find(T, n) /\ OwnSlot(o, n).valid
        /\ Entry(o, n) \in Properties
    BY <1>2, OwnEntry DEF SetValue
  <2>2. IsTable(T) /\ WellFormed(T)
    BY <2>1 DEF Inv, Good
  <2>3. entry \in Entries /\ entry.key = n
    <3>1. [Entry(o, n) EXCEPT !.value = v] \in Properties
      BY <2>1 DEF Properties
    <3> QED BY <3>1 DEF Entries
  <2>4. IsTable(after) /\ WellFormed(after)
    <3> HIDE DEF entry
    <3> QED BY <2>1, <2>2, <2>3, WriteWellFormed
  <2>5. tables' = [tables EXCEPT ![body[o]] = after] /\ UNCHANGED <<kind, proto, body, globals, pend, through>>
    BY <1>2 DEF SetValue
  <2> HIDE DEF after
  <2>6. Good(tables') /\ DOMAIN tables' = DOMAIN tables
    BY <2>1, <2>4, <2>5, TableReplaced DEF Inv
  <2>7. pend' = Idle
    BY <2>5 DEF SetMember
  <2> QED BY <2>5, <2>6, <2>7 DEF Inv, Typed, BodyOK, BodiesDistinct, PendOK
<1> QED BY <1>1, <1>2 DEF SetMember

\* A property found along the chain is replaced where it is, or a new one added.
LEMMA RedefineKeeps ==
    ASSUME Inv, NEW o \in Obj, NEW n \in Name, NEW property \in Properties, Redefine(o, n, property)
    PROVE  Inv'
<1>1. CASE BeginAdd(o, n, property, NULL)
  BY <1>1, BeginAddKeeps
<1>2. ASSUME NEW h \in Obj, OwnSlot(h, n).found,
             pend' = Adding(o, body[h], OwnSlot(h, n), n, property, NULL),
             through' = (through \/ h # o), UNCHANGED <<kind, proto, body, tables, globals>>
      PROVE  Inv'
  <2>1. body[h] \in DOMAIN tables /\ OwnSlot(h, n) = Find(tables[body[h]], n) /\ OwnSlot(h, n) \in Slot
    BY <1>2, OwnEntry
  <2>2. through \in BOOLEAN /\ through' \in BOOLEAN /\ (~through' => ~through /\ h = o)
    BY <1>2 DEF Inv, Typed
  <2>3. AddingOK'
    BY <1>2, <2>1, <2>2, AddingBegun
  <2>4. BodiesDistinct'
    BY <1>2, <2>2 DEF Inv, BodiesDistinct
  <2> QED BY <1>2, <2>2, <2>3, <2>4 DEF Inv, Typed, Good, BodyOK, PendOK
<1> QED BY <1>1, <1>2 DEF Redefine

\* The global object gets a table, a native property, or writes a global.
LEMMA GlobalMemberKeeps ==
    ASSUME Inv, NEW o \in Obj, NEW n \in Name, NEW value \in Value \cup {NULL}, GlobalMember(o, n, value)
    PROVE  Inv'
<1>1. CASE GlobalEntered(o, n, value)
  <2>1. Native(TRUE, n) \in Properties
    BY <1>1, PropertiesTyped DEF GlobalEntered
  <2> QED BY <1>1, <2>1, BeginAddKeeps DEF GlobalEntered
<1>2. CASE GlobalWritten(o, n, value)
  <2>1. globals' \in [Globals -> Value \cup {NULL}] /\ UNCHANGED <<kind, proto, body, tables, pend, through>>
    BY <1>2 DEF GlobalWritten, Inv, Typed
  <2>2. pend' = Idle
    BY <2>1 DEF GlobalMember
  <2> QED BY <2>1, <2>2 DEF Inv, Typed, Good, BodyOK, BodiesDistinct, PendOK
<1>3. CASE GlobalTable(o, n, value)
  <2>1. PICK t \in TableId \ DOMAIN tables :
          /\ body' = [body EXCEPT ![o] = t]
          /\ tables' = [u \in DOMAIN tables \cup {t} |->
                           IF u = t THEN EmptyTable(FirstCapacity) ELSE tables[u]]
          /\ pend' = IF n \notin Globals THEN Idle
                     ELSE Adding(o, t, Find(EmptyTable(FirstCapacity), n), n, Native(TRUE, n), value)
    BY <1>3 DEF GlobalTable
  <2>2. UNCHANGED <<kind, proto, globals, through>> /\ body[o] = NULL
    BY <1>3 DEF GlobalTable
  <2>3. /\ Good(tables') /\ DOMAIN tables' = DOMAIN tables \cup {t}
        /\ tables'[t] = EmptyTable(FirstCapacity) /\ IsTable(EmptyTable(FirstCapacity))
    BY <2>1, TableAdded, Capacities, EmptyWellFormed DEF Inv
  <2>4. body \in [Obj -> DOMAIN tables \cup {NULL}] /\ body' \in [Obj -> DOMAIN tables' \cup {NULL}] /\ body'[o] = t
    BY <2>1, <2>3 DEF Inv, BodyOK
  <2>5. BodiesDistinct'
    <3> SUFFICES ASSUME ~through, NEW x \in Obj, NEW y \in Obj, body'[x] = body'[y], body'[x] # NULL
                 PROVE  x = y
      BY <2>2 DEF BodiesDistinct
    <3>1. \A z \in Obj : body'[z] = IF z = o THEN t ELSE body[z]
      BY <2>1, <2>4
    <3>2. \A z \in Obj : body[z] # t
      BY <2>4, ObjectsAssumption
    <3> QED BY <3>1, <3>2 DEF Inv, BodiesDistinct
  <2>6. PendOK'
    <3>1. CASE n \notin Globals
      BY <2>1, <3>1 DEF PendOK
    <3>2. CASE n \in Globals
      <4>1. pend' = Adding(o, t, Find(EmptyTable(FirstCapacity), n), n, Native(TRUE, n), value)
        BY <2>1, <3>2
      <4>2. Find(EmptyTable(FirstCapacity), n) \in Slot /\ Native(TRUE, n) \in Properties
        BY <2>3, <3>2, FindType, PropertiesTyped
      <4>3. AddingOK'
        BY <2>3, <2>4, <4>1, <4>2, AddingBegun
      <4> QED BY <4>3 DEF PendOK
    <3> QED BY <3>1, <3>2
  <2> QED BY <2>2, <2>3, <2>4, <2>5, <2>6 DEF Inv, Typed, BodyOK
<1> QED BY <1>1, <1>2, <1>3 DEF GlobalMember

\* A step that changes nothing.
LEMMA StutterKeeps == Inv /\ UNCHANGED vars => Inv'
BY DEF vars, Inv, Typed, Good, BodyOK, BodiesDistinct, PendOK, AddingOK, CopyingOK, TableOfOwner

\* The invariant holds at first and every step keeps it.
THEOREM InvAlways == Spec => []Inv
<1>1. Inv /\ [Next]_vars => Inv'
  <2> SUFFICES ASSUME Inv, [Next]_vars PROVE Inv'
    OBVIOUS
  <2>1. ASSUME NEW o \in Obj, NEW n \in Name, NEW v \in Value, SetMember(o, n, v)
        PROVE  Inv'
    BY <2>1, SetMemberKeeps
  <2>2. ASSUME NEW o \in Obj, NEW n \in Name, NEW d \in Definitions[n], DefineProperty(o, n, d)
        PROVE  Inv'
    BY <2>2, RedefineKeeps, PropertiesTyped DEF DefineProperty
  <2>3. ASSUME NEW o \in Obj, NEW n \in Name, DefineNative(o, n)
        PROVE  Inv'
    BY <2>3, RedefineKeeps, PropertiesTyped DEF DefineNative
  <2>4. ASSUME NEW o \in Obj, NEW n \in Name, NEW v \in Value \cup {NULL}, GlobalMember(o, n, v)
        PROVE  Inv'
    BY <2>4, GlobalMemberKeeps
  <2> QED BY <2>1, <2>2, <2>3, <2>4, WritePropertyKeeps, GrowKeeps, CopySlotKeeps, FinishCopyKeeps,
             OutOfMemoryKeeps, StutterKeeps DEF Next
<1> QED BY <1>1, InvInit, PTL DEF Spec

\* The types of the objects' state: no index outside its table, whatever the hash
\* codes and the capacities (property.c:97-141).
THEOREM ObjectsTypeCorrect == Spec => []TypeOK
<1>1. Inv => TypeOK
  <2> SUFFICES ASSUME Inv PROVE TypeOK
    OBVIOUS
  <2>1. ASSUME NEW t \in DOMAIN tables
        PROVE  /\ tables[t].capacity \in 1 .. MaxCapacity /\ tables[t].length \in Nat
               /\ Used(tables[t]) \subseteq 0 .. tables[t].capacity - 1
               /\ \A i \in Used(tables[t]) : /\ tables[t].slots[i].key \in Name
                                             /\ tables[t].slots[i].property \in Properties
    <3>1. IsTable(tables[t])
      BY DEF Inv, Good
    <3>2. tables[t].slots \in [Used(tables[t]) -> Entries] /\ tables[t].length \in Nat
      BY <3>1, TableFacts
    <3> QED BY <3>1, <3>2 DEF IsTable, Entries
  <2>2. pend.phase \in {"idle", "adding", "copying"}
    BY Phases DEF Inv
  <2> QED BY <2>1, <2>2 DEF Inv, Typed, Good, BodyOK, TypeOK
<1> QED BY <1>1, InvAlways, PTL

\* A search ends at a key's slot in every table, through growth and half-made copies.
THEOREM TablesStayWellFormed == Spec => []TablesWellFormed
<1>1. Inv => TablesWellFormed
  BY DEF Inv, Good, TablesWellFormed
<1> QED BY <1>1, InvAlways, PTL

\* No two objects share a table until one redefines what it inherits.
THEOREM BodiesStayDistinct == Spec => []BodiesDistinct
<1>1. Inv => BodiesDistinct
  BY DEF Inv
<1> QED BY <1>1, InvAlways, PTL

-----------------------------------------------------------------------------
(* What a table holds *)

\* A property is found under its key, and nothing under a key that no slot has.
LEMMA ContentsAt ==
    ASSUME NEW t, WellFormed(t)
    PROVE  /\ \A i \in Used(t) : Contents(t, t.slots[i].key) = t.slots[i].property
           /\ \A n : n \notin KeysOf(t) => Contents(t, n) = NULL
<1>1. ASSUME NEW i \in Used(t)
      PROVE  Contents(t, t.slots[i].key) = t.slots[i].property
  <2> DEFINE n == t.slots[i].key
             j == CHOOSE k \in Used(t) : t.slots[k].key = n
  <2>1. j \in Used(t) /\ t.slots[j].key = n
    OBVIOUS
  <2>2. j = i
    BY <2>1 DEF WellFormed, KeysOnce
  <2>3. n \in KeysOf(t)
    BY DEF KeysOf
  <2> QED BY <2>2, <2>3 DEF Contents
<1> QED BY <1>1 DEF Contents

\* The properties of a table are properties.
LEMMA ContentsTyped ==
    ASSUME NEW t, IsTable(t), WellFormed(t), NEW n \in KeysOf(t)
    PROVE  Contents(t, n) \in Properties /\ Contents(t, n) # NULL
<1>1. PICK i \in Used(t) : t.slots[i].key = n
  BY DEF KeysOf
<1>2. t.slots[i] \in Entries
  BY TableFacts
<1>3. Contents(t, n) = t.slots[i].property
  BY <1>1, ContentsAt
<1> QED BY <1>2, <1>3, NullIsNoProperty DEF Entries

\* A search finds a key if the table has it, and then at the slot of its property.
LEMMA FindFinds ==
    ASSUME NEW t, IsTable(t), WellFormed(t), NEW n \in Name
    PROVE  /\ Find(t, n).found <=> n \in KeysOf(t)
           /\ Find(t, n).found => Contents(t, n) = t.slots[Find(t, n).id].property
<1>1. ASSUME Find(t, n).found
      PROVE  n \in KeysOf(t) /\ Contents(t, n) = t.slots[Find(t, n).id].property
  <2>1. Find(t, n).valid
    BY <1>1, FindType
  <2>2. Find(t, n).id \in Used(t) /\ t.slots[Find(t, n).id].key = n
    BY <1>1, <2>1, FindSlot
  <2> QED BY <2>2, ContentsAt DEF KeysOf
<1>2. ASSUME n \in KeysOf(t)
      PROVE  Find(t, n).found
  <2>1. PICK i \in Used(t) : t.slots[i].key = n
    BY <1>2 DEF KeysOf
  <2>2. PICK c \in Distances(t) : i = Probe(t, n, c) /\ \A e \in 0 .. c - 1 : Probe(t, n, e) \in Used(t)
    BY <2>1 DEF WellFormed, ProbeOrderKept
  <2>3. Find(t, n).valid
    <3> DEFINE stops == {d \in Distances(t) : \/ Probe(t, n, d) \notin Used(t)
                                              \/ t.slots[Probe(t, n, d)].key = n}
    <3>1. c \in stops
      BY <2>1, <2>2
    <3>2. stops # {}
      BY <3>1
    <3> QED BY <3>2 DEF Find
  <2>4. PICK d \in Distances(t) : /\ Find(t, n).id = Probe(t, n, d)
                                  /\ \A e \in 0 .. d - 1 : /\ Probe(t, n, e) \in Used(t)
                                                           /\ t.slots[Probe(t, n, e)].key # n
    BY <2>3, FindSlot
  <2>5. c \in Nat /\ d \in Nat
    BY TableFacts DEF Distances
  <2>6. ~(c < d)
    <3> SUFFICES ASSUME c < d PROVE FALSE
      OBVIOUS
    <3>1. c \in 0 .. d - 1
      BY <2>5
    <3> QED BY <3>1, <2>1, <2>2, <2>4
  <2>7. Probe(t, n, d) \in Used(t)
    <3>1. CASE d < c
      <4>1. d \in 0 .. c - 1
        BY <2>5, <3>1
      <4> QED BY <4>1, <2>2
    <3>2. CASE d = c
      BY <3>2, <2>1, <2>2
    <3> QED BY <3>1, <3>2, <2>5, <2>6
  <2>8. Find(t, n).found <=> Find(t, n).id \in Used(t)
    BY <2>3, FindSlot
  <2> QED BY <2>4, <2>7, <2>8
<1> QED BY <1>1, <1>2

\* An object's own property is the one a search of its table finds.
LEMMA OwnFound ==
    ASSUME Inv, NEW o \in Obj, NEW n \in Name
    PROVE  /\ OwnSlot(o, n).found <=> Own(o, n) # NULL
           /\ OwnSlot(o, n).found => Own(o, n) = Entry(o, n)
           /\ Own(o, n) # NULL => Own(o, n) \in Properties
<1>1. CASE body[o] = NULL
  BY <1>1 DEF OwnSlot, NoSlot, Own
<1>2. CASE body[o] # NULL
  <2> DEFINE T == tables[body[o]]
  <2>1. OwnSlot(o, n) = Find(T, n) /\ body[o] \in DOMAIN tables
    BY <1>2, OwnEntry
  <2>2. IsTable(T) /\ WellFormed(T)
    BY <2>1 DEF Inv, Good
  <2>3. Own(o, n) = Contents(T, n)
    BY <1>2 DEF Own
  <2>4. CASE OwnSlot(o, n).found
    <3>1. n \in KeysOf(T) /\ Contents(T, n) = T.slots[Find(T, n).id].property
      BY <2>1, <2>2, <2>4, FindFinds
    <3>2. Contents(T, n) \in Properties /\ Contents(T, n) # NULL
      BY <2>2, <3>1, ContentsTyped
    <3> QED BY <2>1, <2>3, <2>4, <3>1, <3>2 DEF Entry
  <2>5. CASE ~OwnSlot(o, n).found
    <3>1. n \notin KeysOf(T)
      BY <2>1, <2>2, <2>5, FindFinds
    <3> QED BY <2>2, <2>3, <2>5, <3>1, ContentsAt
  <2> QED BY <2>4, <2>5
<1> QED BY <1>1, <1>2

-----------------------------------------------------------------------------
(* What a search along the prototypes reads *)

\* Along prototypes without a cycle every search ends, at NULL or where it stops.
LEMMA SearchEnds ==
    ASSUME NEW p \in [Obj -> Obj \cup {NULL}], Acyclic(p), NEW stop \in SUBSET Obj
    PROVE  \E h \in [Obj \cup {NULL} -> Obj \cup {NULL}] :
              h = [x \in Obj \cup {NULL} |-> IF x = NULL \/ x \in stop THEN x ELSE h[p[x]]]
<1> DEFINE S == Obj \cup {NULL}
           Ends == stop \cup {NULL}
           Closed(R) == /\ \A s \in Ends : <<s, s>> \in R
                        /\ \A x \in S \ Ends : \A y \in S : <<p[x], y>> \in R => <<x, y>> \in R
           L == {z \in S \X S : \A R \in SUBSET (S \X S) : Closed(R) => z \in R}
<1>1. NULL \notin Obj /\ Ends \subseteq S /\ \A x \in S \ Ends : x \in Obj /\ p[x] \in S
  BY ObjectsAssumption
<1>2. Closed(L) /\ L \in SUBSET (S \X S)
  <2>1. ASSUME NEW s \in Ends PROVE <<s, s>> \in L
    BY <1>1
  <2>2. ASSUME NEW x \in S \ Ends, NEW y \in S, <<p[x], y>> \in L
        PROVE  <<x, y>> \in L
    BY <2>2, <1>1
  <2> QED BY <2>1, <2>2
<1>3. \A z \in L : \/ z[1] \in Ends /\ z[2] = z[1]
                   \/ z[1] \in S \ Ends /\ <<p[z[1]], z[2]>> \in L
  <2> DEFINE R == {z \in L : \/ z[1] \in Ends /\ z[2] = z[1]
                             \/ z[1] \in S \ Ends /\ <<p[z[1]], z[2]>> \in L}
  <2>1. ASSUME NEW s \in Ends PROVE <<s, s>> \in R
    BY <2>1, <1>2
  <2>2. ASSUME NEW x \in S \ Ends, NEW y \in S, <<p[x], y>> \in R
        PROVE  <<x, y>> \in R
    <3>1. <<p[x], y>> \in L
      BY <2>2
    <3>2. <<x, y>> \in L
      BY <3>1, <1>2
    <3> HIDE DEF L, Closed, Ends
    <3> QED BY <3>1, <3>2
  <2>3. R \in SUBSET (S \X S) /\ Closed(R)
    <3>1. R \subseteq L
      OBVIOUS
    <3> HIDE DEF L, R
    <3> QED BY <2>1, <2>2, <3>1, <1>2
  <2>4. L \subseteq R
    <3> HIDE DEF Closed, R
    <3> QED BY <2>3
  <2> QED BY <2>4
<1>4. \A x, y \in S : <<x, y>> \in L => \/ x \in Ends /\ y = x
                                        \/ x \in S \ Ends /\ <<p[x], y>> \in L
  <2> TAKE x, y \in S
  <2> HAVE <<x, y>> \in L
  <2> DEFINE z == <<x, y>>
  <2>1. z[1] = x /\ z[2] = y
    OBVIOUS
  <2>2. \/ z[1] \in Ends /\ z[2] = z[1]
        \/ z[1] \in S \ Ends /\ <<p[z[1]], z[2]>> \in L
    <3> HIDE DEF L, Ends, S
    <3> QED BY <1>3
  <2> HIDE DEF z, L, Ends, S
  <2> QED BY <2>1, <2>2
<1> HIDE DEF L, Closed
<1>5. \A x \in S : \E y \in S : /\ <<x, y>> \in L
                                /\ \A u \in S : <<x, u>> \in L => u = y
  <2> DEFINE Ended(x) == \E y \in S : <<x, y>> \in L /\ \A u \in S : <<x, u>> \in L => u = y
             T == {o \in Obj : ~Ended(o)}
  <2>1. ASSUME NEW x \in Ends PROVE Ended(x)
    <3>1. <<x, x>> \in L
      BY <1>2 DEF Closed
    <3>2. ASSUME NEW u \in S, <<x, u>> \in L PROVE u = x
      BY <3>2, <1>4
    <3> QED BY <3>1, <3>2, <1>1
  <2>2. ASSUME NEW x \in S \ Ends, Ended(p[x]) PROVE Ended(x)
    <3>1. PICK y \in S : <<p[x], y>> \in L /\ \A u \in S : <<p[x], u>> \in L => u = y
      BY <2>2
    <3>2. <<x, y>> \in L
      BY <3>1, <1>2 DEF Closed
    <3>3. ASSUME NEW u \in S, <<x, u>> \in L PROVE u = y
      BY <3>1, <3>3, <1>4
    <3> QED BY <3>2, <3>3
  <2>3. ASSUME T # {} PROVE FALSE
    <3>1. PICK o \in T : p[o] \notin T
      BY <2>3 DEF Acyclic
    <3>2. o \in Obj /\ o \notin Ends
      BY <2>1
    <3>3. Ended(p[o])
      <4> HIDE DEF Ended
      <4>1. p[o] = NULL \/ p[o] \in Obj
        BY <3>2
      <4> QED BY <3>1, <4>1, <2>1
    <3> HIDE DEF Ended
    <3> QED BY <2>2, <3>2, <3>3, <1>1
  <2> HIDE DEF Ended
  <2>4. \A x \in S : Ended(x)
    BY <2>1, <2>3
  <2> QED BY <2>4 DEF Ended
<1> DEFINE h == [x \in S |-> CHOOSE y \in S : <<x, y>> \in L]
<1>6. \A x \in S : h[x] \in S /\ <<x, h[x]>> \in L /\ \A u \in S : <<x, u>> \in L => u = h[x]
  <2> HIDE DEF S
  <2> QED BY <1>5
<1>7. h \in [S -> S]
  <2> HIDE DEF S
  <2> QED BY <1>5
<1>8. \A x \in S : h[x] = IF x = NULL \/ x \in stop THEN x ELSE h[p[x]]
  <2> HIDE DEF h
  <2> TAKE x \in S
  <2>1. CASE x \in Ends
    BY <2>1, <1>6, <1>4
  <2>2. CASE x \notin Ends
    <3>1. p[x] \in S /\ <<p[x], h[x]>> \in L
      BY <2>2, <1>1, <1>4, <1>6
    <3> QED BY <3>1, <2>2, <1>6
  <2> QED BY <2>1, <2>2
<1>9. h = [x \in S |-> IF x = NULL \/ x \in stop THEN x ELSE h[p[x]]]
  <2> HIDE DEF h
  <2>1. h = [x \in S |-> h[x]]
    BY <1>7
  <2> QED BY <1>8, <2>1
<1> HIDE DEF h
<1> QED BY <1>7, <1>9

\* An object has the property itself, or the search goes to its prototype.
LEMMA HolderFollows ==
    ASSUME proto \in [Obj -> Obj \cup {NULL}], Acyclic(proto), NEW n
    PROVE  \A x \in Obj \cup {NULL} :
              Holder(x, n) = IF x = NULL \/ OwnSlot(x, n).found THEN x ELSE Holder(proto[x], n)
<1> DEFINE S == Obj \cup {NULL}
           stop == {x \in Obj : OwnSlot(x, n).found}
           f == CHOOSE h : h = [x \in S |-> IF x = NULL \/ OwnSlot(x, n).found THEN x ELSE h[proto[x]]]
<1>1. PICK h \in [S -> S] : h = [x \in S |-> IF x = NULL \/ x \in stop THEN x ELSE h[proto[x]]]
  <2> HIDE DEF stop
  <2>1. stop \in SUBSET Obj
    BY DEF stop
  <2> QED BY <2>1, SearchEnds
<1>2. h = [x \in S |-> IF x = NULL \/ OwnSlot(x, n).found THEN x ELSE h[proto[x]]]
  BY <1>1
<1>9. f = [x \in S |-> IF x = NULL \/ OwnSlot(x, n).found THEN x ELSE f[proto[x]]]
  BY <1>2
<1>4. \A x : Holder(x, n) = f[x]
  BY DEF Holder
<1> HIDE DEF f
<1> QED BY <1>9, <1>4

\* Prototypes are set once and make no cycle, and a global object is nobody's.
Shape == /\ proto \in [Obj -> Obj \cup {NULL}]
         /\ Acyclic(proto)
         /\ \A o \in Obj : kind[o] = "global" => proto[o] = NULL /\ \A x \in Obj : proto[x] # o

\* No operation changes what an object is or its prototype.
LEMMA PrototypesStay == [Next]_vars => UNCHANGED <<kind, proto>>
<1>1. ASSUME NEW o \in Obj, NEW n \in Name, NEW property, Redefine(o, n, property)
      PROVE  UNCHANGED <<kind, proto>>
  BY <1>1 DEF Redefine, BeginAdd
<1>2. ASSUME NEW o \in Obj, NEW n \in Name, NEW v \in Value, SetMember(o, n, v)
      PROVE  UNCHANGED <<kind, proto>>
  BY <1>2 DEF SetMember, SetValue, SetAdds, BeginAdd
<1>3. ASSUME NEW o \in Obj, NEW n \in Name, NEW v \in Value \cup {NULL}, GlobalMember(o, n, v)
      PROVE  UNCHANGED <<kind, proto>>
  BY <1>3 DEF GlobalMember, GlobalTable, GlobalEntered, GlobalWritten, BeginAdd
<1>4. WriteProperty \/ Grow \/ CopySlot \/ FinishCopy \/ OutOfMemory => UNCHANGED <<kind, proto>>
  BY DEF WriteProperty, Grow, CopySlot, FinishCopy, OutOfMemory
<1>5. UNCHANGED vars => UNCHANGED <<kind, proto>>
  BY DEF vars
<1> QED BY <1>1, <1>2, <1>3, <1>4, <1>5 DEF Next, DefineProperty, DefineNative

\* So prototypes never make a cycle.
THEOREM ShapeAlways == Spec => []Shape
<1>1. Init => Shape
  BY DEF Init, Shape
<1>2. Shape /\ [Next]_vars => Shape'
  <2> SUFFICES ASSUME Shape, UNCHANGED <<kind, proto>> PROVE Shape'
    BY PrototypesStay
  <2> QED BY DEF Shape, Acyclic
<1> QED BY <1>1, <1>2, PTL DEF Spec

\* The search ends at NULL or at an object that has the name.
LEMMA HolderHas ==
    ASSUME Shape, NEW n
    PROVE  \A x \in Obj \cup {NULL} : /\ Holder(x, n) \in Obj \cup {NULL}
                                     /\ \A h \in Obj : h = Holder(x, n) => OwnSlot(h, n).found
<1> DEFINE Ends(x) == /\ Holder(x, n) \in Obj \cup {NULL}
                      /\ \A h \in Obj : h = Holder(x, n) => OwnSlot(h, n).found
           T == {o \in Obj : ~Ends(o)}
<1>1. \A x \in Obj \cup {NULL} :
         Holder(x, n) = IF x = NULL \/ OwnSlot(x, n).found THEN x ELSE Holder(proto[x], n)
  BY HolderFollows DEF Shape
<1>2. Ends(NULL)
  BY <1>1, ObjectsAssumption
<1>3. ASSUME NEW o \in Obj, proto[o] \notin T
      PROVE  Ends(o)
  <2>1. proto[o] \in Obj \cup {NULL}
    BY DEF Shape
  <2>2. Ends(proto[o])
    BY <2>1, <1>2, <1>3
  <2>3. CASE OwnSlot(o, n).found
    <3>1. Holder(o, n) = o
      BY <1>1, <2>3
    <3> QED BY <2>3, <3>1
  <2>4. CASE ~OwnSlot(o, n).found
    <3>1. Holder(o, n) = Holder(proto[o], n)
      BY <1>1, <2>4, ObjectsAssumption
    <3> QED BY <3>1, <2>2
  <2> QED BY <2>3, <2>4
<1>4. T = {}
  <2> HIDE DEF Ends
  <2> SUFFICES ASSUME T # {} PROVE FALSE
    OBVIOUS
  <2>1. PICK o \in T : proto[o] \notin T
    BY DEF Shape, Acyclic
  <2> QED BY <2>1, <1>3
<1> HIDE DEF Ends
<1>5. \A x \in Obj \cup {NULL} : Ends(x)
  BY <1>2, <1>4
<1> QED BY <1>5 DEF Ends

\* What the search along the prototypes reads is what the nearest object has under the
\* name, wherever its table keeps it (object.c:98), redefinitions through prototypes and
\* copies half made included.
THEOREM ReadsStayNearest == Spec => []ReadsNearest
<1>1. Inv /\ Shape => ReadsNearest
  <2> SUFFICES ASSUME Inv, Shape, NEW o \in Obj, NEW n \in Name
               PROVE  LET nearest[x \in Obj \cup {NULL}] ==
                              IF x = NULL THEN NULL ELSE IF Own(x, n) # NULL THEN Own(x, n) ELSE nearest[proto[x]]
                      IN  GetMember(o, n) = IF nearest[o] = NULL THEN <<"thrown">>
                                            ELSE IF nearest[o].kind = "accessor" /\ ~nearest[o].get THEN <<"thrown">>
                                            ELSE <<nearest[o].kind, nearest[o].value>>
    BY DEF ReadsNearest
  <2> DEFINE S == Obj \cup {NULL}
             f == CHOOSE f : f = [x \in S |-> IF x = NULL THEN NULL
                                              ELSE IF Own(x, n) # NULL THEN Own(x, n) ELSE f[proto[x]]]
             g == [x \in S |-> IF Holder(x, n) = NULL THEN NULL ELSE Own(Holder(x, n), n)]
  <2>1. \A x \in S : Holder(x, n) = IF x = NULL \/ OwnSlot(x, n).found THEN x ELSE Holder(proto[x], n)
    BY HolderFollows DEF Shape
  <2>2. \A x \in S : /\ Holder(x, n) \in S
                     /\ \A h \in Obj : h = Holder(x, n) => OwnSlot(h, n).found
    <3> HIDE DEF f, g
    <3> QED BY HolderHas
  <2>3. \A x \in Obj : /\ OwnSlot(x, n).found <=> Own(x, n) # NULL
                       /\ OwnSlot(x, n).found => Own(x, n) = Entry(x, n)
    BY OwnFound
  <2>4. \A x \in Obj : x # NULL /\ proto[x] \in S
    BY ObjectsAssumption DEF Shape
  <2>5. g = [x \in S |-> IF x = NULL THEN NULL ELSE IF Own(x, n) # NULL THEN Own(x, n) ELSE g[proto[x]]]
    <3>1. g = [x \in S |-> g[x]]
      OBVIOUS
    <3>2. \A x \in S : g[x] = IF Holder(x, n) = NULL THEN NULL ELSE Own(Holder(x, n), n)
      OBVIOUS
    <3> HIDE DEF g
    <3>3. ASSUME NEW x \in S
          PROVE  g[x] = IF x = NULL THEN NULL ELSE IF Own(x, n) # NULL THEN Own(x, n) ELSE g[proto[x]]
      <4>1. CASE x = NULL
        BY <4>1, <3>2, <2>1
      <4>2. CASE x \in Obj /\ Own(x, n) # NULL
        BY <4>2, <3>2, <2>1, <2>3, <2>4
      <4>3. CASE x \in Obj /\ Own(x, n) = NULL
        BY <4>3, <3>2, <2>1, <2>3, <2>4
      <4> QED BY <4>1, <4>2, <4>3
    <3> QED BY <3>1, <3>3
  <2>6. f = [x \in S |-> IF x = NULL THEN NULL ELSE IF Own(x, n) # NULL THEN Own(x, n) ELSE f[proto[x]]]
    <3> HIDE DEF g
    <3> QED BY <2>5
  <2>7. \A x \in Obj : f[x] = g[x]
    <3> DEFINE T == {x \in Obj : f[x] # g[x]}
    <3> HIDE DEF f, g
    <3> SUFFICES ASSUME T # {} PROVE FALSE
      OBVIOUS
    <3>1. PICK x \in T : proto[x] \notin T
      BY DEF Shape, Acyclic
    <3>2. f[proto[x]] = g[proto[x]]
      <4>1. f[NULL] = NULL /\ g[NULL] = NULL
        BY <2>5, <2>6
      <4> QED BY <4>1, <3>1, <2>4
    <3> QED BY <3>1, <3>2, <2>5, <2>6
  <2>8. GetMember(o, n) = IF g[o] = NULL THEN <<"thrown">>
                          ELSE IF g[o].kind = "accessor" /\ ~g[o].get THEN <<"thrown">>
                          ELSE <<g[o].kind, g[o].value>>
    <3> DEFINE h == Holder(o, n)
    <3>1. g[o] = IF h = NULL THEN NULL ELSE Own(h, n)
      OBVIOUS
    <3>2. h # NULL => h \in Obj /\ Own(h, n) # NULL /\ Own(h, n) = Entry(h, n)
      BY <2>2, <2>3
    <3>3. GetMember(o, n) = IF h = NULL \/ (Entry(h, n).kind = "accessor" /\ ~Entry(h, n).get) THEN <<"thrown">>
                            ELSE <<Entry(h, n).kind, Entry(h, n).value>>
      BY DEF GetMember
    <3> HIDE DEF h, g
    <3> QED BY <3>1, <3>2, <3>3
  <2> HIDE DEF g
  <2> QED BY <2>7, <2>8
<1> QED BY <1>1, InvAlways, ShapeAlways, PTL

-----------------------------------------------------------------------------
(* Probing reaches every slot, and what it fills is all that changes *)

\* A remainder is the only number below the divisor that differs by a multiple.
LEMMA Remainder ==
    ASSUME NEW c \in Nat \ {0}, NEW a \in Int, NEW q \in Int, NEW r \in 0 .. c - 1, a = c * q + r
    PROVE  a % c = r
<1>1. a % c \in 0 .. c - 1 /\ a \div c \in Int /\ a = c * (a \div c) + (a % c)
  <2>1. a % c \in 0 .. c - 1
    OBVIOUS
  <2>2. a \div c \in Int
    OBVIOUS
  <2>3. a = c * (a \div c) + (a % c)
    OBVIOUS
  <2> QED BY <2>1, <2>2, <2>3
<1> DEFINE k == q - (a \div c)
<1>2. k \in Int /\ c * k = (a % c) - r
  BY <1>1
<1> HIDE DEF k
<1>3. k >= 1 => c * k >= c
  BY <1>2
<1>4. k <= -1 => c * k <= -c
  BY <1>2
<1>5. k = 0
  BY <1>1, <1>2, <1>3, <1>4
<1> QED BY <1>1, <1>2, <1>5

\* Probing for any key reaches every slot of a table.
LEMMA ProbeReaches ==
    ASSUME NEW t, IsTable(t), NEW key \in Name, NEW i \in 0 .. t.capacity - 1
    PROVE  \E d \in Distances(t) : Probe(t, key, d) = i
<1> DEFINE c == t.capacity
           h == Hash[key]
           d == (i - h) % c
           q == (i - h) \div c
<1>1. c \in Nat \ {0} /\ h \in Nat
  BY TableFacts, TableAssumption
<1>2. d \in 0 .. c - 1 /\ q \in Int /\ i - h = c * q + d
  <2> HIDE DEF c, h
  <2>1. i - h \in Int
    BY <1>1
  <2>2. ASSUME NEW x \in Int
        PROVE  x % c \in 0 .. c - 1 /\ x \div c \in Int /\ x = c * (x \div c) + (x % c)
    <3>1. x % c \in 0 .. c - 1
      BY <1>1
    <3>2. x \div c \in Int
      BY <1>1
    <3>3. x = c * (x \div c) + (x % c)
      BY <1>1
    <3> QED BY <3>1, <3>2, <3>3
  <2> QED BY <2>1, <2>2
<1>3. h + d = c * (0 - q) + i
  <2> HIDE DEF c, h, d, q
  <2>1. c * (0 - q) = 0 - c * q
    BY <1>1, <1>2
  <2> QED BY <2>1, <1>1, <1>2
<1>4. (h + d) % c = i
  <2> HIDE DEF c, h, d, q
  <2>1. h + d \in Int /\ 0 - q \in Int
    BY <1>1, <1>2
  <2>2. i \in 0 .. c - 1
    BY DEF c
  <2> QED BY <2>1, <2>2, <1>1, <1>3, Remainder
<1> HIDE DEF d, q
<1> QED BY <1>2, <1>4 DEF Distances, Probe

\* So a table with fewer entries than slots has room for any key.
LEMMA RoomLeft ==
    ASSUME NEW t, IsTable(t), NEW key \in Name, Cardinality(Used(t)) < t.capacity
    PROVE  \E d \in Distances(t) : Probe(t, key, d) \notin Used(t)
<1> SUFFICES ASSUME \A d \in Distances(t) : Probe(t, key, d) \in Used(t) PROVE FALSE
  OBVIOUS
<1>1. 0 .. t.capacity - 1 \subseteq Used(t)
  BY ProbeReaches
<1>2. Used(t) = 0 .. t.capacity - 1
  BY <1>1 DEF IsTable
<1>3. Cardinality(0 .. t.capacity - 1) = t.capacity
  <2>1. t.capacity \in Nat /\ t.capacity > 0
    BY TableFacts
  <2>2. Cardinality(0 .. t.capacity - 1) = (t.capacity - 1) - 0 + 1
    BY <2>1, FS_Interval
  <2> QED BY <2>1, <2>2
<1>4. t.capacity \in Nat
  BY TableFacts
<1> QED BY <1>2, <1>3, <1>4

\* The contents of a table are those of its slots.
LEMMA SameSlots ==
    ASSUME NEW t, NEW u, u.slots = t.slots
    PROVE  /\ Used(u) = Used(t) /\ KeysOf(u) = KeysOf(t)
           /\ \A n : Contents(u, n) = Contents(t, n)
BY DEF Used, KeysOf, Contents

\* To fill a slot, or write the slot of the key, changes what is under that key.
LEMMA PutContents ==
    ASSUME NEW t, IsTable(t), WellFormed(t), NEW id \in 0 .. t.capacity - 1, NEW entry \in Entries,
           id \in Used(t) => t.slots[id].key = entry.key, WellFormed(Write(t, id, entry))
    PROVE  \A n : Contents(Write(t, id, entry), n) =
                      IF n = entry.key THEN entry.property ELSE Contents(t, n)
<1> DEFINE u == Write(t, id, entry)
<1>1. /\ Used(u) = Used(t) \cup {id} /\ u.slots[id] = entry
      /\ \A i \in Used(t) : i # id => u.slots[i] = t.slots[i]
  BY WriteTable
<1>2. WellFormed(u)
  OBVIOUS
<1> HIDE DEF u
<1> SUFFICES ASSUME NEW n
             PROVE  Contents(u, n) = IF n = entry.key THEN entry.property ELSE Contents(t, n)
  BY DEF u
<1>3. CASE n = entry.key
  <2>1. id \in Used(u) /\ u.slots[id].key = n
    BY <1>1, <1>3
  <2> QED BY <2>1, <1>1, <1>2, <1>3, ContentsAt
<1>4. CASE n # entry.key /\ n \in KeysOf(t)
  <2>1. PICK i \in Used(t) : t.slots[i].key = n
    BY <1>4 DEF KeysOf
  <2>2. i \in Used(u) /\ u.slots[i] = t.slots[i]
    BY <2>1, <1>1, <1>4
  <2>3. Contents(u, n) = u.slots[i].property /\ Contents(t, n) = t.slots[i].property
    BY <2>1, <2>2, <1>2, ContentsAt
  <2> QED BY <2>2, <2>3, <1>4
<1>5. CASE n # entry.key /\ n \notin KeysOf(t)
  <2>1. n \notin KeysOf(u)
    <3> SUFFICES ASSUME NEW i \in Used(u), u.slots[i].key = n PROVE FALSE
      BY DEF KeysOf
    <3>1. i # id
      BY <1>1, <1>5
    <3> QED BY <3>1, <1>1, <1>5 DEF KeysOf
  <2>2. Contents(u, n) = NULL /\ Contents(t, n) = NULL
    BY <2>1, <1>2, <1>5, ContentsAt
  <2> QED BY <2>2, <1>5
<1> QED BY <1>3, <1>4, <1>5

\* What is written at the slot a search gives is then under the key.
LEMMA WriteContents ==
    ASSUME NEW t, IsTable(t), WellFormed(t), NEW entry \in Entries, Find(t, entry.key).valid
    PROVE  \A n : Contents(Write(t, Find(t, entry.key).id, entry), n) =
                      IF n = entry.key THEN entry.property ELSE Contents(t, n)
<1>1. entry.key \in Name
  BY DEF Entries
<1> DEFINE id == Find(t, entry.key).id
<1>2. id \in 0 .. t.capacity - 1 /\ (id \in Used(t) => t.slots[id].key = entry.key)
  BY <1>1, FindSlot
<1>3. WellFormed(Write(t, id, entry))
  BY WriteWellFormed
<1> HIDE DEF id
<1>4. \A n : Contents(Write(t, id, entry), n) = IF n = entry.key THEN entry.property ELSE Contents(t, n)
  BY <1>2, <1>3, PutContents
<1> QED BY <1>4 DEF id

\* A copy goes to a free slot when there is one, and takes one slot.
LEMMA CopyContents ==
    ASSUME NEW t, IsTable(t), WellFormed(t), NEW entry \in Entries, entry.key \notin KeysOf(t),
           Cardinality(Used(t)) < t.capacity
    PROVE  LET u == CopyProperty(t, entry)
           IN  /\ \A n : Contents(u, n) = IF n = entry.key THEN entry.property ELSE Contents(t, n)
               /\ u.capacity = t.capacity
               /\ Cardinality(Used(u)) <= Cardinality(Used(t)) + 1
<1> DEFINE free == {d \in Distances(t) : Probe(t, entry.key, d) \notin Used(t)}
           id == Probe(t, entry.key, First(free))
           u == CopyProperty(t, entry)
<1>1. entry.key \in Name
  BY DEF Entries
<1>2. free # {}
  BY <1>1, RoomLeft
<1>3. u = Write(t, id, entry)
  BY <1>2 DEF CopyProperty
<1>4. First(free) \in free
  <2>1. free \in SUBSET Nat
    BY TableFacts DEF Distances
  <2> HIDE DEF free
  <2> QED BY <1>2, <2>1, FirstIsLeast
<1>5. id \in 0 .. t.capacity - 1 /\ id \notin Used(t)
  <2>1. First(free) \in Nat /\ id \notin Used(t)
    BY <1>4, TableFacts DEF Distances
  <2> HIDE DEF free
  <2> QED BY <1>1, <2>1, ProbeInTable
<1>6. WellFormed(u)
  BY CopyWellFormed
<1> HIDE DEF id, free, u
<1>7. \A n : Contents(u, n) = IF n = entry.key THEN entry.property ELSE Contents(t, n)
  BY <1>3, <1>5, <1>6, PutContents
<1>8. u.capacity = t.capacity /\ Used(u) = Used(t) \cup {id}
  BY <1>3, <1>5, WriteTable
<1>9. Cardinality(Used(u)) <= Cardinality(Used(t)) + 1
  <2>1. IsFiniteSet(Used(t))
    <3>1. IsFiniteSet(0 .. t.capacity - 1)
      BY TableFacts, FS_Interval
    <3> QED BY <3>1, FS_Subset DEF IsTable
  <2>2. Cardinality(Used(t) \cup {id}) = Cardinality(Used(t)) + 1
    BY <2>1, <1>5, FS_AddElement
  <2>3. Cardinality(Used(t)) \in Nat
    BY <2>1, FS_CardinalityType
  <2> QED BY <1>8, <2>2, <2>3
<1> QED BY <1>7, <1>8, <1>9 DEF u

-----------------------------------------------------------------------------
(* What an object is as a map, and what an addition in progress will do to it *)

\* An object's own property, by the bodies and tables there are.
OwnIn(b, ts, o, n) == IF b[o] = NULL THEN NULL ELSE Contents(ts[b[o]], n)
Maps == [o \in Obj |-> [n \in Name |-> IF kind[o] = "object" THEN Own(o, n) ELSE NULL]]
MapDefinitions == [n \in Name |-> {Defined(d) : d \in Definitions[n]}
                                      \cup {Native(TRUE, NULL) : m \in {n} \cap Natives}]

\* The nearest object with the name, of maps m along the prototypes p.
Nearest(p, m, o, n) == LET holder[x \in Obj \cup {NULL}] ==
                               IF x = NULL \/ m[x][n] # NULL THEN x ELSE holder[p[x]]
                       IN  holder[o]

\* A property that an operation may still add: what it found along the prototypes stands.
MayAdd(h, m, o, n, property) ==
    \/ /\ \E x \in Value : property = PlainValue(x)
       /\ h = NULL \/ (h \notin {o, NULL} /\ m[h][n].kind = "value" /\ m[h][n].writeable)
    \/ /\ property \in MapDefinitions[n]
       /\ h # NULL => m[h][n].configurable
Allowed(p, m, o, n, property) == MayAdd(Nearest(p, m, o, n), m, o, n, property)

\* The table an addition is about to fill holds what the object does; the property
\* may be added to an object, or is native to a global one.
AddsToOwn ==
    pend.phase # "idle" =>
        /\ \A n \in Name : Contents(tables[pend.table], n) = OwnIn(body, tables, pend.obj, n)
        /\ kind[pend.obj] = "object" => pend.value = NULL /\ Allowed(proto, Maps, pend.obj, pend.key, pend.property)
        /\ kind[pend.obj] = "global" => pend.key \in Globals /\ pend.property = Native(TRUE, pend.key)

\* A copy under way has all of the slots it has passed, and room for the others.
CopiesAll ==
    pend.phase = "copying" =>
        LET T == tables[pend.table]
            N == tables[pend.new]
        IN  /\ T.capacity < N.capacity /\ pend.index <= T.capacity
            /\ Cardinality(Used(N)) <= pend.index
            /\ \A i \in Used(T) : i < pend.index => Contents(N, T.slots[i].key) = T.slots[i].property

\* What a global object holds names globals.
HoldsGlobals == \A o \in Obj, n \in Name :
                    LET p == OwnIn(body, tables, o, n)
                    IN  kind[o] = "global" /\ p # NULL => p.value \in Globals

MapInv == ~through => AddsToOwn /\ CopiesAll /\ HoldsGlobals

\* In the maps too the search goes from an object to its prototype.
LEMMA NearestFollows ==
    ASSUME NEW p \in [Obj -> Obj \cup {NULL}], Acyclic(p), NEW m, NEW n
    PROVE  \A x \in Obj \cup {NULL} :
              Nearest(p, m, x, n) = IF x = NULL \/ m[x][n] # NULL THEN x ELSE Nearest(p, m, p[x], n)
<1> DEFINE S == Obj \cup {NULL}
           stop == {x \in Obj : m[x][n] # NULL}
           f == CHOOSE h : h = [x \in S |-> IF x = NULL \/ m[x][n] # NULL THEN x ELSE h[p[x]]]
<1>1. PICK h \in [S -> S] : h = [x \in S |-> IF x = NULL \/ x \in stop THEN x ELSE h[p[x]]]
  <2> HIDE DEF stop
  <2>1. stop \in SUBSET Obj
    BY DEF stop
  <2> QED BY <2>1, SearchEnds
<1>2. h = [x \in S |-> IF x = NULL \/ m[x][n] # NULL THEN x ELSE h[p[x]]]
  BY <1>1
<1>3. f = [x \in S |-> IF x = NULL \/ m[x][n] # NULL THEN x ELSE f[p[x]]]
  BY <1>2
<1>4. \A x : Nearest(p, m, x, n) = f[x]
  BY DEF Nearest
<1> HIDE DEF f
<1> QED BY <1>3, <1>4

\* It is the search of the specification of maps.
LEMMA NearestIsHolder == \A o, n : ObjectMaps!Holder(o, n) = Nearest(proto, Maps, o, n)
BY DEF ObjectMaps!Holder, Nearest, Maps

\* From an object a search of its tables and of its map end at the same object.
LEMMA HoldersAgree ==
    ASSUME Inv, Shape, NEW o \in Obj, NEW n \in Name, kind[o] = "object"
    PROVE  /\ Nearest(proto, Maps, o, n) = Holder(o, n)
           /\ \A h \in Obj : h = Holder(o, n) =>
                 /\ kind[h] = "object" /\ OwnSlot(h, n).found
                 /\ Maps[h][n] = Entry(h, n) /\ Maps[h][n] \in Properties
<1>1. \A x \in Obj \cup {NULL} :
         Nearest(proto, Maps, x, n) = IF x = NULL \/ Maps[x][n] # NULL THEN x ELSE Nearest(proto, Maps, proto[x], n)
  BY NearestFollows DEF Shape
<1>2. \A x \in Obj \cup {NULL} :
         Holder(x, n) = IF x = NULL \/ OwnSlot(x, n).found THEN x ELSE Holder(proto[x], n)
  BY HolderFollows DEF Shape
<1>3. \A x \in Obj : kind[x] = "object" => (Maps[x][n] # NULL <=> OwnSlot(x, n).found)
  BY OwnFound DEF Maps
<1>4. \A x \in Obj : /\ x # NULL
                     /\ kind[x] = "object" /\ proto[x] # NULL => proto[x] \in Obj /\ kind[proto[x]] = "object"
  BY ObjectsAssumption DEF Shape, Inv, Typed
<1> DEFINE Agree(x) == /\ Nearest(proto, Maps, x, n) = Holder(x, n)
                       /\ \A h \in Obj : h = Holder(x, n) => kind[h] = "object"
           T == {x \in Obj : kind[x] = "object" /\ ~Agree(x)}
<1>5. Agree(NULL)
  BY <1>1, <1>2, <1>4
<1>6. ASSUME NEW x \in Obj, kind[x] = "object", Agree(proto[x])
      PROVE  Agree(x)
  <2>1. CASE OwnSlot(x, n).found
    BY <2>1, <1>1, <1>2, <1>3, <1>6
  <2>2. CASE ~OwnSlot(x, n).found
    <3>1. /\ Nearest(proto, Maps, x, n) = Nearest(proto, Maps, proto[x], n)
          /\ Holder(x, n) = Holder(proto[x], n)
      BY <2>2, <1>1, <1>2, <1>3, <1>4, <1>6
    <3> QED BY <3>1, <1>6
  <2> QED BY <2>1, <2>2
<1>7. T = {}
  <2> HIDE DEF Agree
  <2> SUFFICES ASSUME T # {} PROVE FALSE
    OBVIOUS
  <2>1. T \in SUBSET Obj
    OBVIOUS
  <2>2. PICK x \in T : proto[x] \notin T
    BY <2>1 DEF Shape, Acyclic
  <2>3. Agree(proto[x])
    BY <2>2, <1>4, <1>5
  <2> QED BY <2>2, <2>3, <1>6
<1>8. Agree(o)
  <2> HIDE DEF Agree
  <2> QED BY <1>7
<1>9. ASSUME NEW h \in Obj, h = Holder(o, n)
      PROVE  /\ kind[h] = "object" /\ OwnSlot(h, n).found
             /\ Maps[h][n] = Entry(h, n) /\ Maps[h][n] \in Properties
  <2>1. kind[h] = "object" /\ OwnSlot(h, n).found
    BY <1>8, <1>9, HolderHas
  <2>2. Own(h, n) = Entry(h, n) /\ Own(h, n) \in Properties
    BY <2>1, OwnFound
  <2> QED BY <2>1, <2>2 DEF Maps
<1> QED BY <1>8, <1>9

\* Steps that leave every object the map it was.
Quiet == /\ UNCHANGED <<kind, proto, globals>>
         /\ \A o \in Obj, n \in Name : OwnIn(body', tables', o, n) = OwnIn(body, tables, o, n)

\* The maps, and all that the specification of maps sees, are then unchanged.
LEMMA QuietMaps == Quiet => Maps' = Maps /\ UNCHANGED ObjectMaps!vars
<1> SUFFICES ASSUME Quiet PROVE Maps' = Maps /\ UNCHANGED ObjectMaps!vars
  OBVIOUS
<1>1. Maps' = Maps
  BY DEF Quiet, Maps, Own, OwnIn
<1> QED BY <1>1 DEF Quiet, Maps, Own, ObjectMaps!vars

\* An object whose table is as it was is the map it was.
LEMMA OwnSame ==
    ASSUME NEW o \in Obj, body'[o] = body[o], body[o] # NULL => tables'[body[o]] = tables[body[o]]
    PROVE  \A n \in Name : OwnIn(body', tables', o, n) = OwnIn(body, tables, o, n)
BY DEF OwnIn

\* So is every object whose table is.
LEMMA QuietTables ==
    ASSUME UNCHANGED <<kind, proto, globals, body>>,
           \A o \in Obj : body[o] # NULL => tables'[body[o]] = tables[body[o]]
    PROVE  Quiet
BY OwnSame DEF Quiet

\* What is left to show of a step that leaves the maps alone.
LEMMA QuietInv ==
    ASSUME Quiet, HoldsGlobals, AddsToOwn', CopiesAll'
    PROVE  MapInv' /\ UNCHANGED ObjectMaps!vars
<1>1. HoldsGlobals'
  BY DEF Quiet, HoldsGlobals
<1> QED BY <1>1, QuietMaps DEF MapInv

\* An addition that may begin.
LEMMA MapBeginAdd ==
    ASSUME Inv, MapInv, ~through, NEW o \in Obj, NEW n \in Name, NEW property, NEW value,
           BeginAdd(o, n, property, value),
           kind[o] = "object" => value = NULL /\ Allowed(proto, Maps, o, n, property),
           kind[o] = "global" => n \in Globals /\ property = Native(TRUE, n)
    PROVE  MapInv' /\ UNCHANGED ObjectMaps!vars
<1>1. UNCHANGED <<kind, proto, body, globals, through>>
  BY DEF BeginAdd
<1>2. /\ \A u \in DOMAIN tables : tables'[u] = tables[u]
      /\ \E t, slot : pend' = Adding(o, t, slot, n, property, value)
      /\ \A m \in Name : Contents(tables'[pend'.table], m) = OwnIn(body, tables, o, m)
  <2>1. CASE body[o] # NULL /\ pend' = Adding(o, body[o], OwnSlot(o, n), n, property, value) /\ UNCHANGED tables
    <3>1. pend'.table = body[o]
      BY <2>1 DEF Adding
    <3> QED BY <2>1, <3>1 DEF OwnIn
  <2>2. ASSUME NEW t \in TableId \ DOMAIN tables, body[o] = NULL,
               pend' = Adding(o, t, NoSlot, n, property, value),
               tables' = [u \in DOMAIN tables \cup {t} |-> IF u = t THEN EmptyTable(FirstCapacity) ELSE tables[u]]
        PROVE  <1>2!1 /\ <1>2!2 /\ <1>2!3
    <3>1. \A u \in DOMAIN tables : tables'[u] = tables[u]
      BY <2>2
    <3>2. pend'.table = t
      BY <2>2 DEF Adding
    <3>3. tables'[t] = EmptyTable(FirstCapacity)
      BY <2>2
    <3>4. \A m : Contents(EmptyTable(FirstCapacity), m) = NULL
      BY EmptyWellFormed, Capacities, ContentsAt
    <3> QED BY <2>2, <3>1, <3>2, <3>3, <3>4 DEF OwnIn
  <2> QED BY <2>1, <2>2 DEF BeginAdd
<1>3. Quiet
  <2>1. \A x \in Obj : body[x] # NULL => body[x] \in DOMAIN tables
    BY DEF Inv, BodyOK
  <2> QED BY <2>1, <1>1, <1>2, QuietTables
<1>4. /\ pend'.phase = "adding" /\ pend'.obj = o /\ pend'.key = n
      /\ pend'.property = property /\ pend'.value = value
  BY <1>2 DEF Adding
<1>5. CopiesAll'
  BY <1>4 DEF CopiesAll
<1>6. AddsToOwn'
  <2>1. Maps' = Maps /\ \A m \in Name : OwnIn(body', tables', o, m) = OwnIn(body, tables, o, m)
    BY <1>3, QuietMaps DEF Quiet
  <2>2. \A m \in Name : Contents(tables'[pend'.table], m) = OwnIn(body', tables', pend'.obj, m)
    BY <1>2, <1>4, <2>1
  <2>3. kind'[pend'.obj] = "object" => /\ pend'.value = NULL
                                       /\ Allowed(proto', Maps', pend'.obj, pend'.key, pend'.property)
    BY <1>1, <1>4, <2>1
  <2>4. kind'[pend'.obj] = "global" => pend'.key \in Globals /\ pend'.property = Native(TRUE, pend'.key)
    BY <1>1, <1>4
  <2> QED BY <2>2, <2>3, <2>4 DEF AddsToOwn
<1> QED BY <1>3, <1>5, <1>6, QuietInv DEF MapInv

\* A larger table changes no map.
LEMMA MapGrow == Inv /\ MapInv /\ ~through /\ Grow => MapInv' /\ UNCHANGED ObjectMaps!vars
<1> SUFFICES ASSUME Inv, MapInv, ~through, Grow PROVE MapInv' /\ UNCHANGED ObjectMaps!vars
  OBVIOUS
<1>1. AddingOK /\ AddsToOwn /\ HoldsGlobals
  BY Phases DEF Inv, Grow, MapInv
<1>2. PICK t \in TableId \ DOMAIN tables :
        /\ tables' = [u \in DOMAIN tables \cup {t} |->
                         IF u = t THEN EmptyTable(NextCapacity(PendTable.capacity)) ELSE tables[u]]
        /\ pend' = [phase |-> "copying", obj |-> pend.obj, table |-> pend.table, new |-> t,
                    index |-> 0, key |-> pend.key, property |-> pend.property, value |-> pend.value]
  BY DEF Grow
<1>3. UNCHANGED <<kind, proto, body, globals, through>> /\ pend.phase = "adding"
  BY DEF Grow
<1>4. /\ pend'.obj = pend.obj /\ pend'.table = pend.table /\ pend'.new = t /\ pend'.index = 0
      /\ pend'.key = pend.key /\ pend'.property = pend.property /\ pend'.value = pend.value
      /\ pend'.phase = "copying"
  BY <1>2
<1>5. /\ \A u \in DOMAIN tables : tables'[u] = tables[u]
      /\ tables'[t] = EmptyTable(NextCapacity(PendTable.capacity))
      /\ pend.table \in DOMAIN tables
  BY <1>1, <1>2 DEF AddingOK
<1>6. Quiet
  <2>1. \A x \in Obj : body[x] # NULL => body[x] \in DOMAIN tables
    BY DEF Inv, BodyOK
  <2> QED BY <2>1, <1>3, <1>5, QuietTables
<1>7. CopiesAll'
  <2> DEFINE T == tables'[pend'.table]
             N == tables'[pend'.new]
  <2>1. T = tables[pend.table] /\ IsTable(T)
    BY <1>1, <1>4, <1>5 DEF Inv, Good, AddingOK
  <2>2. N = EmptyTable(NextCapacity(T.capacity))
    BY <1>4, <1>5, <2>1 DEF PendTable
  <2>3. T.capacity \in 1 .. MaxCapacity /\ Used(T) \subseteq Nat /\ T.capacity \in Nat
    BY <2>1, TableFacts DEF IsTable
  <2>4. T.capacity < N.capacity
    <3>1. T.capacity < NextCapacity(T.capacity)
      BY <2>3, TableAssumption
    <3> QED BY <3>1, <2>2 DEF EmptyTable
  <2>5. Cardinality(Used(N)) = 0
    BY <2>2, FS_EmptySet DEF EmptyTable, Used
  <2> HIDE DEF T, N
  <2>6. /\ T.capacity < N.capacity /\ pend'.index <= T.capacity /\ Cardinality(Used(N)) <= pend'.index
        /\ \A i \in Used(T) : i < pend'.index => Contents(N, T.slots[i].key) = T.slots[i].property
    BY <1>4, <2>3, <2>4, <2>5
  <2> QED BY <2>6 DEF CopiesAll, T, N
<1>8. AddsToOwn'
  <2>1. Maps' = Maps /\ \A m \in Name : OwnIn(body', tables', pend.obj, m) = OwnIn(body, tables, pend.obj, m)
    BY <1>6, QuietMaps, <1>1 DEF Quiet, AddingOK
  <2>2. \A m \in Name : Contents(tables'[pend'.table], m) = OwnIn(body', tables', pend'.obj, m)
    BY <1>1, <1>3, <1>4, <1>5, <2>1 DEF AddsToOwn
  <2> QED BY <1>1, <1>3, <1>4, <2>1, <2>2 DEF AddsToOwn
<1> QED BY <1>1, <1>6, <1>7, <1>8, QuietInv

\* A slot copied: the copy has its property under its key, and room for the slots to come.
LEMMA MapCopySlot == Inv /\ MapInv /\ ~through /\ CopySlot => MapInv' /\ UNCHANGED ObjectMaps!vars
<1> SUFFICES ASSUME Inv, MapInv, ~through, CopySlot PROVE MapInv' /\ UNCHANGED ObjectMaps!vars
  OBVIOUS
<1> DEFINE T == tables[pend.table]
           N == tables[pend.new]
           entry == T.slots[pend.index]
           copy == CopyProperty(N, entry)
<1>1. CopyingOK /\ AddsToOwn /\ CopiesAll /\ HoldsGlobals
  BY Phases DEF Inv, CopySlot, MapInv
<1>2. /\ UNCHANGED <<kind, proto, body, globals, through>> /\ pend' = [pend EXCEPT !.index = pend.index + 1]
      /\ tables' = IF pend.index \in Used(T) THEN [tables EXCEPT ![pend.new] = copy] ELSE tables
      /\ pend.phase = "copying" /\ pend.index < T.capacity
  BY DEF CopySlot, PendTable
<1>3. /\ IsTable(T) /\ WellFormed(T) /\ IsTable(N) /\ WellFormed(N) /\ pend.index \in Nat
      /\ pend.table \in DOMAIN tables /\ pend.new \in DOMAIN tables /\ pend.table # pend.new
      /\ pend.new \notin Bodies(body) /\ pend.obj \in Obj
      /\ KeysOf(N) \subseteq {T.slots[i].key : i \in {j \in Used(T) : j < pend.index}}
  BY <1>1 DEF Inv, Good, CopyingOK
<1>4. Used(T) \subseteq Nat /\ T.slots \in [Used(T) -> Entries] /\ T.capacity \in Nat
  BY <1>3, TableFacts
<1>5. /\ T.capacity < N.capacity /\ Cardinality(Used(N)) <= pend.index
      /\ \A i \in Used(T) : i < pend.index => Contents(N, T.slots[i].key) = T.slots[i].property
  BY <1>1, <1>2 DEF CopiesAll
<1>6. pend' = [phase |-> "copying", obj |-> pend.obj, table |-> pend.table, new |-> pend.new,
               index |-> pend.index + 1, key |-> pend.key, property |-> pend.property, value |-> pend.value]
  BY <1>1, <1>2 DEF CopyingOK
<1>7. /\ pend'.obj = pend.obj /\ pend'.table = pend.table /\ pend'.new = pend.new
      /\ pend'.index = pend.index + 1 /\ pend'.phase = "copying"
      /\ pend'.key = pend.key /\ pend'.property = pend.property /\ pend'.value = pend.value
  BY <1>6
<1>8. /\ \A u \in DOMAIN tables : u # pend.new => tables'[u] = tables[u]
      /\ pend.index \in Used(T) => tables'[pend.new] = copy
      /\ pend.index \notin Used(T) => tables'[pend.new] = N
  <2> HIDE DEF T, copy
  <2>1. CASE pend.index \in Used(T)
    BY <2>1, <1>2, <1>3
  <2>2. CASE pend.index \notin Used(T)
    BY <2>2, <1>2 DEF T
  <2> QED BY <2>1, <2>2
<1>9. Quiet
  <2>1. \A x \in Obj : body[x] # NULL => body[x] \in DOMAIN tables /\ body[x] # pend.new
    BY <1>3 DEF Inv, BodyOK, Bodies
  <2> QED BY <2>1, <1>2, <1>8, QuietTables
<1>10. /\ T.capacity < tables'[pend.new].capacity /\ Cardinality(Used(tables'[pend.new])) <= pend.index + 1
       /\ \A i \in Used(T) : i < pend.index + 1 => Contents(tables'[pend.new], T.slots[i].key) = T.slots[i].property
  <2>1. Cardinality(Used(N)) \in Nat /\ N.capacity \in Nat
    <3>1. IsFiniteSet(0 .. N.capacity - 1) /\ N.capacity \in Nat
      BY <1>3, TableFacts, FS_Interval
    <3> QED BY <3>1, <1>3, FS_Subset, FS_CardinalityType DEF IsTable
  <2>2. CASE pend.index \notin Used(T)
    <3>1. \A i \in Used(T) : i < pend.index + 1 => i < pend.index
      BY <2>2, <1>3, <1>4
    <3> HIDE DEF T, N
    <3> QED BY <2>1, <2>2, <3>1, <1>3, <1>5, <1>8
  <2>3. CASE pend.index \in Used(T)
    <3>1. entry \in Entries
      BY <1>4, <2>3
    <3>2. entry.key \notin KeysOf(N)
      <4> SUFFICES ASSUME entry.key \in KeysOf(N) PROVE FALSE
        OBVIOUS
      <4>1. PICK i \in Used(T) : i < pend.index /\ T.slots[i].key = entry.key
        BY <1>3
      <4>2. i = pend.index
        BY <1>3, <2>3, <4>1 DEF WellFormed, KeysOnce
      <4> QED BY <1>3, <4>1, <4>2
    <3>3. Cardinality(Used(N)) < N.capacity
      <4> HIDE DEF T, N
      <4> QED BY <2>1, <1>2, <1>3, <1>4, <1>5
    <3>4. /\ \A m : Contents(copy, m) = IF m = entry.key THEN entry.property ELSE Contents(N, m)
          /\ copy.capacity = N.capacity /\ Cardinality(Used(copy)) <= Cardinality(Used(N)) + 1
      BY <1>3, <3>1, <3>2, <3>3, CopyContents
    <3>5. Cardinality(Used(copy)) \in Nat
      <4>1. IsTable(copy)
        BY <1>3, <3>1, <3>2, CopyWellFormed
      <4>2. IsFiniteSet(0 .. copy.capacity - 1)
        BY <4>1, TableFacts, FS_Interval
      <4> QED BY <4>1, <4>2, FS_Subset, FS_CardinalityType DEF IsTable
    <3>6. ASSUME NEW i \in Used(T), i < pend.index + 1
          PROVE  Contents(copy, T.slots[i].key) = T.slots[i].property
      <4>1. CASE i = pend.index
        BY <4>1, <3>4
      <4>2. CASE i < pend.index
        <5>1. T.slots[i].key # entry.key
          BY <4>2, <1>3, <1>4, <2>3 DEF WellFormed, KeysOnce
        <5> HIDE DEF copy, entry, N, T
        <5> QED BY <4>2, <5>1, <3>4, <1>5
      <4>3. i \in Nat
        BY <1>4
      <4> QED BY <4>1, <4>2, <4>3, <3>6, <1>3
    <3>7. tables'[pend.new] = copy
      BY <2>3, <1>8
    <3> HIDE DEF T, N, copy, entry
    <3> QED BY <2>1, <3>4, <3>5, <3>6, <3>7, <1>3, <1>5
  <2> QED BY <2>2, <2>3
<1>11. CopiesAll'
  <2>1. tables'[pend'.table] = T
    BY <1>3, <1>7, <1>8
  <2>2. pend.index + 1 <= T.capacity
    <3> HIDE DEF T
    <3> QED BY <1>2, <1>3, <1>4
  <2> HIDE DEF T, N
  <2> QED BY <2>1, <2>2, <1>7, <1>10 DEF CopiesAll
<1>12. AddsToOwn'
  <2>1. Maps' = Maps /\ \A m \in Name : OwnIn(body', tables', pend.obj, m) = OwnIn(body, tables, pend.obj, m)
    BY <1>9, QuietMaps, <1>3 DEF Quiet
  <2>2. tables'[pend'.table] = T
    BY <1>3, <1>7, <1>8
  <2>3. \A m \in Name : Contents(T, m) = OwnIn(body, tables, pend.obj, m)
    BY <1>1, <1>2 DEF AddsToOwn
  <2> HIDE DEF T
  <2>4. \A m \in Name : Contents(tables'[pend'.table], m) = OwnIn(body', tables', pend'.obj, m)
    BY <1>7, <2>1, <2>2, <2>3
  <2> QED BY <1>1, <1>2, <1>7, <2>1, <2>4 DEF AddsToOwn
<1> QED BY <1>1, <1>9, <1>11, <1>12, QuietInv

\* The copy complete holds what the old table held.
LEMMA MapFinishCopy == Inv /\ MapInv /\ ~through /\ FinishCopy => MapInv' /\ UNCHANGED ObjectMaps!vars
<1> SUFFICES ASSUME Inv, MapInv, ~through, FinishCopy PROVE MapInv' /\ UNCHANGED ObjectMaps!vars
  OBVIOUS
<1> DEFINE T == tables[pend.table]
           N == tables[pend.new]
           after == [N EXCEPT !.length = T.length]
           ts == [tables EXCEPT ![pend.new] = after]
<1>1. CopyingOK /\ AddsToOwn /\ CopiesAll /\ HoldsGlobals
  BY Phases DEF Inv, FinishCopy, MapInv
<1>2. /\ UNCHANGED <<kind, proto, body, globals, through>> /\ pend.phase = "copying" /\ pend.index = T.capacity
      /\ pend' = Adding(pend.obj, pend.new, NoSlot, pend.key, pend.property, pend.value)
      /\ tables' = Collected(ts, Bodies(body) \cup {pend.new})
  BY DEF FinishCopy, PendTable
<1>3. /\ IsTable(T) /\ WellFormed(T) /\ IsTable(N) /\ WellFormed(N) /\ pend.index \in Nat
      /\ pend.table \in DOMAIN tables /\ pend.new \in DOMAIN tables /\ pend.table # pend.new
      /\ pend.new \notin Bodies(body) /\ pend.obj \in Obj
      /\ KeysOf(N) \subseteq {T.slots[i].key : i \in {j \in Used(T) : j < pend.index}}
  BY <1>1 DEF Inv, Good, CopyingOK
<1>4. Used(T) \subseteq 0 .. T.capacity - 1 /\ T.capacity \in Nat
  BY <1>3, TableFacts DEF IsTable
<1>5. \A m : Contents(N, m) = Contents(T, m)
  <2>1. \A i \in Used(T) : Contents(N, T.slots[i].key) = T.slots[i].property
    BY <1>1, <1>2, <1>4 DEF CopiesAll
  <2> TAKE m
  <2>2. CASE m \in KeysOf(T)
    <3>1. PICK i \in Used(T) : T.slots[i].key = m
      BY <2>2 DEF KeysOf
    <3> QED BY <3>1, <2>1, <1>3, ContentsAt
  <2>3. CASE m \notin KeysOf(T)
    <3>1. m \notin KeysOf(N)
      BY <2>3, <1>3 DEF KeysOf
    <3> QED BY <2>3, <3>1, <1>3, ContentsAt
  <2> QED BY <2>2, <2>3
<1>6. \A m : Contents(after, m) = Contents(N, m)
  <2>1. T.length \in Nat
    BY <1>3, TableFacts
  <2>2. after.slots = N.slots
    BY <1>3, <2>1, LengthWellFormed
  <2> HIDE DEF after
  <2> QED BY <2>2, SameSlots
<1> HIDE DEF after
<1>7. /\ \A u \in DOMAIN tables \cap Bodies(body) : u # pend.new => tables'[u] = tables[u]
      /\ tables'[pend.new] = after
  <2>1. \A u \in DOMAIN tables \cap (Bodies(body) \cup {pend.new}) : tables'[u] = ts[u]
    BY <1>2 DEF Collected
  <2> HIDE DEF N, T
  <2> QED BY <2>1, <1>3
<1>8. Quiet
  <2>1. \A x \in Obj : body[x] # NULL => body[x] \in DOMAIN tables \cap Bodies(body) /\ body[x] # pend.new
    BY <1>3 DEF Inv, BodyOK, Bodies
  <2> QED BY <2>1, <1>2, <1>7, QuietTables
<1>9. /\ pend'.phase = "adding" /\ pend'.obj = pend.obj /\ pend'.table = pend.new /\ pend'.key = pend.key
      /\ pend'.property = pend.property /\ pend'.value = pend.value
  BY <1>2 DEF Adding
<1>10. CopiesAll'
  BY <1>9 DEF CopiesAll
<1>11. AddsToOwn'
  <2>1. Maps' = Maps /\ \A m \in Name : OwnIn(body', tables', pend.obj, m) = OwnIn(body, tables, pend.obj, m)
    BY <1>8, QuietMaps, <1>3 DEF Quiet
  <2>2. \A m \in Name : Contents(T, m) = OwnIn(body, tables, pend.obj, m)
    BY <1>1, <1>2 DEF AddsToOwn
  <2> HIDE DEF T, N
  <2>3. \A m \in Name : Contents(tables'[pend'.table], m) = OwnIn(body', tables', pend'.obj, m)
    BY <1>5, <1>6, <1>7, <1>9, <2>1, <2>2
  <2> QED BY <1>1, <1>2, <1>9, <2>1, <2>3 DEF AddsToOwn
<1> QED BY <1>1, <1>8, <1>10, <1>11, QuietInv

\* Without memory for a larger table every object stays the map it was.
LEMMA MapOutOfMemory == Inv /\ MapInv /\ ~through /\ OutOfMemory => MapInv' /\ UNCHANGED ObjectMaps!vars
<1> SUFFICES ASSUME Inv, MapInv, ~through, OutOfMemory PROVE MapInv' /\ UNCHANGED ObjectMaps!vars
  OBVIOUS
<1>1. /\ UNCHANGED <<kind, proto, body, globals, through>> /\ pend' = Idle
      /\ tables' = Collected(tables, Bodies(body))
  BY DEF OutOfMemory
<1>2. \A x \in Obj : body[x] # NULL => tables'[body[x]] = tables[body[x]]
  BY <1>1 DEF Collected, Inv, BodyOK, Bodies
<1>3. Quiet
  BY <1>1, <1>2, QuietTables
<1>4. AddsToOwn' /\ CopiesAll'
  BY <1>1 DEF Idle, AddsToOwn, CopiesAll
<1> QED BY <1>3, <1>4, QuietInv DEF MapInv

\* One object has one more property, or another under a name.
LEMMA MapsUpdated ==
    ASSUME UNCHANGED kind, NEW o \in Obj, NEW n \in Name, NEW property, kind[o] = "object",
           \A x \in Obj, m \in Name : OwnIn(body', tables', x, m) =
               IF x = o /\ m = n THEN property ELSE OwnIn(body, tables, x, m)
    PROVE  Maps' = [Maps EXCEPT ![o][n] = property]
<1>1. /\ Maps' = [x \in Obj |-> [m \in Name |-> IF kind[x] = "object" THEN OwnIn(body', tables', x, m) ELSE NULL]]
      /\ Maps = [x \in Obj |-> [m \in Name |-> IF kind[x] = "object" THEN OwnIn(body, tables, x, m) ELSE NULL]]
  BY DEF Maps, Own, OwnIn
<1> DEFINE M == [x \in Obj |-> [m \in Name |-> IF kind[x] = "object" THEN OwnIn(body, tables, x, m) ELSE NULL]]
           U == [M EXCEPT ![o][n] = property]
<1>2. ASSUME NEW x \in Obj PROVE Maps'[x] = U[x]
  <2>1. Maps'[x] = [m \in Name |-> IF kind[x] = "object" THEN OwnIn(body', tables', x, m) ELSE NULL]
    BY <1>1
  <2>2. M[x] = [m \in Name |-> IF kind[x] = "object" THEN OwnIn(body, tables, x, m) ELSE NULL]
    OBVIOUS
  <2>3. U[x] = IF x = o THEN [M[x] EXCEPT ![n] = property] ELSE M[x]
    OBVIOUS
  <2> HIDE DEF M, U
  <2>4. CASE x = o
    BY <2>1, <2>2, <2>3, <2>4
  <2>5. CASE x # o
    BY <2>1, <2>2, <2>3, <2>5
  <2> QED BY <2>4, <2>5
<1>3. U = [x \in Obj |-> U[x]]
  OBVIOUS
<1>4. Maps' = [x \in Obj |-> Maps'[x]]
  BY <1>1
<1> HIDE DEF U
<1>5. Maps' = U
  BY <1>2, <1>3, <1>4
<1> QED BY <1>1, <1>5 DEF U

\* An addition that may be made is a step of the specification of maps.
LEMMA AddIsStep ==
    ASSUME NEW o \in Obj, NEW n \in Name, NEW property, Allowed(proto, Maps, o, n, property),
           Maps' = [Maps EXCEPT ![o][n] = property], UNCHANGED <<proto, globals>>
    PROVE  ObjectMaps!Next
<1> DEFINE h == Nearest(proto, Maps, o, n)
<1>1. ObjectMaps!Becomes(o, n, property)
  BY DEF Maps, ObjectMaps!Becomes
<1>2. ObjectMaps!Holder(o, n) = h
  BY NearestIsHolder
<1>3. CASE \E v \in Value : /\ property = PlainValue(v)
                            /\ h = NULL \/ (h \notin {o, NULL} /\ Maps[h][n].kind = "value" /\ Maps[h][n].writeable)
  <2>1. PICK v \in Value : /\ property = PlainValue(v)
                           /\ h = NULL \/ (h \notin {o, NULL} /\ Maps[h][n].kind = "value" /\ Maps[h][n].writeable)
    BY <1>3
  <2>2. property = ObjectMaps!PlainValue(v)
    BY <2>1 DEF PlainValue, Property, ObjectMaps!PlainValue
  <2>3. ObjectMaps!Becomes(o, n, ObjectMaps!PlainValue(v))
    BY <1>1, <2>2
  <2> HIDE DEF h
  <2>4. ObjectMaps!Set(o, n, v)
    BY <1>2, <2>1, <2>3 DEF ObjectMaps!Set, Maps
  <2> QED BY <2>4 DEF ObjectMaps!Next
<1>4. CASE property \in MapDefinitions[n] /\ (h # NULL => Maps[h][n].configurable)
  <2> HIDE DEF h
  <2>1. ObjectMaps!Define(o, n, property)
    BY <1>1, <1>2, <1>4 DEF ObjectMaps!Define, Maps
  <2>2. property \in [m \in Name |-> {Defined(d) : d \in Definitions[m]}
                                         \cup {Native(TRUE, NULL) : k \in {m} \cap Natives}][n]
    BY <1>4 DEF MapDefinitions
  <2> QED BY <2>1, <2>2 DEF ObjectMaps!Next
<1> QED BY <1>3, <1>4 DEF Allowed, MayAdd

\* The property is written: the addition takes effect, and what the global object is
\* told to set with it is set.
LEMMA MapWriteProperty ==
    ASSUME Inv, MapInv, ~through, WriteProperty
    PROVE  MapInv' /\ (ObjectMaps!Next \/ UNCHANGED ObjectMaps!vars)
<1> DEFINE T == tables[pend.table]
           entry == [key |-> pend.key, property |-> pend.property]
           w == Write(T, PendSlot.id, entry)
           after == AddAt(T, PendSlot.id, entry)
<1>1. AddingOK /\ AddsToOwn /\ HoldsGlobals /\ ~MustGrow /\ pend.phase = "adding"
  BY Phases DEF Inv, WriteProperty, MapInv
<1>2. IsTable(T) /\ WellFormed(T)
  BY <1>1 DEF Inv, Good, AddingOK
<1>3. PendSlot.valid /\ PendSlot = Find(T, pend.key)
  BY <1>1 DEF MustGrow, PendSlot, PendTable, AddingOK
<1>4. entry \in Entries /\ entry.key = pend.key /\ entry.property = pend.property
  BY <1>1 DEF AddingOK, Entries
<1>5. \A m : Contents(after, m) = IF m = pend.key THEN pend.property ELSE Contents(T, m)
  <2> HIDE DEF entry, T
  <2>1. \A m : Contents(w, m) = IF m = pend.key THEN pend.property ELSE Contents(T, m)
    BY <1>2, <1>3, <1>4, WriteContents
  <2>2. IsTable(w) /\ WellFormed(w) /\ T.length + 1 \in Nat
    BY <1>2, <1>3, <1>4, WriteWellFormed, TableFacts
  <2>3. after.slots = w.slots
    <3>1. after = [w EXCEPT !.length = T.length + 1]
      BY DEF AddAt
    <3> HIDE DEF w
    <3> QED BY <3>1, <2>2, LengthWellFormed
  <2> HIDE DEF after, w
  <2> QED BY <2>1, <2>3, SameSlots
<1>6. /\ body' = [body EXCEPT ![pend.obj] = pend.table]
      /\ tables' = Collected([tables EXCEPT ![pend.table] = after], Bodies(body'))
      /\ globals' = IF pend.property.kind = "native" /\ pend.value # NULL
                    THEN [globals EXCEPT ![pend.property.value] = pend.value] ELSE globals
      /\ pend' = Idle /\ UNCHANGED <<kind, proto, through>>
  BY DEF WriteProperty, PendTable
<1> HIDE DEF after
<1>7. /\ pend.obj \in Obj /\ pend.table \in DOMAIN tables /\ pend.key \in Name
      /\ pend.table # NULL /\ body \in [Obj -> DOMAIN tables \cup {NULL}]
      /\ \A x \in Obj : x # pend.obj => body[x] # pend.table
  <2>1. DOMAIN tables \subseteq TableId
    BY DEF Inv, Good
  <2>2. /\ pend.obj \in Obj /\ pend.table \in DOMAIN tables /\ pend.key \in Name
        /\ body \in [Obj -> DOMAIN tables \cup {NULL}]
    BY <1>1 DEF AddingOK, Inv, BodyOK
  <2>3. pend.table # NULL
    BY <2>1, <2>2, ObjectsAssumption
  <2>4. pend.table = body[pend.obj] \/ pend.table \notin Bodies(body)
    BY <1>1 DEF AddingOK, TableOfOwner
  <2>5. \A x \in Obj : x # pend.obj => body[x] # pend.table
    BY <2>2, <2>3, <2>4 DEF Inv, BodiesDistinct, Bodies
  <2> QED BY <2>2, <2>3, <2>5
<1>8. \A x \in Obj, m \in Name : OwnIn(body', tables', x, m) =
          IF x = pend.obj /\ m = pend.key THEN pend.property ELSE OwnIn(body, tables, x, m)
  <2> TAKE x \in Obj, m \in Name
  <2>1. \A u \in DOMAIN tables \cap Bodies(body') : tables'[u] = IF u = pend.table THEN after ELSE tables[u]
    BY <1>6, <1>7 DEF Collected
  <2>2. body'[x] \in Bodies(body')
    BY DEF Bodies
  <2>3. CASE x = pend.obj
    <3>1. body'[x] = pend.table
      BY <1>6, <1>7, <2>3
    <3>2. OwnIn(body', tables', x, m) = Contents(after, m)
      BY <3>1, <2>1, <2>2, <1>7 DEF OwnIn
    <3>3. OwnIn(body, tables, x, m) = Contents(T, m)
      BY <1>1, <2>3 DEF AddsToOwn
    <3> QED BY <3>2, <3>3, <1>5, <2>3
  <2>4. CASE x # pend.obj
    <3>1. body'[x] = body[x] /\ body[x] # pend.table /\ (body[x] # NULL => body[x] \in DOMAIN tables)
      BY <1>6, <1>7, <2>4
    <3>2. body[x] # NULL => tables'[body[x]] = tables[body[x]]
      BY <3>1, <2>1, <2>2
    <3> QED BY <3>1, <3>2, <2>4 DEF OwnIn
  <2> QED BY <2>3, <2>4
<1>9. kind[pend.obj] \in {"object", "global"}
  BY <1>7 DEF Inv, Typed
<1>10. HoldsGlobals'
  <2> SUFFICES ASSUME NEW o \in Obj, NEW n \in Name, kind[o] = "global", OwnIn(body', tables', o, n) # NULL
               PROVE  OwnIn(body', tables', o, n).value \in Globals
    BY <1>6 DEF HoldsGlobals
  <2>1. CASE o = pend.obj /\ n = pend.key
    <3>1. pend.property = Native(TRUE, n) /\ n \in Globals
      BY <2>1, <1>1 DEF AddsToOwn
    <3>2. pend.property.value = n
      BY <3>1 DEF Native, Property
    <3> QED BY <3>1, <3>2, <2>1, <1>8
  <2>2. CASE ~(o = pend.obj /\ n = pend.key)
    <3>1. OwnIn(body', tables', o, n) = OwnIn(body, tables, o, n)
      BY <2>2, <1>8
    <3> QED BY <3>1, <1>1 DEF HoldsGlobals
  <2> QED BY <2>1, <2>2
<1>11. MapInv'
  BY <1>6, <1>10 DEF MapInv, AddsToOwn, CopiesAll, Idle
<1>12. CASE kind[pend.obj] = "object"
  <2>1. pend.value = NULL /\ Allowed(proto, Maps, pend.obj, pend.key, pend.property)
    BY <1>1, <1>12 DEF AddsToOwn
  <2>2. Maps' = [Maps EXCEPT ![pend.obj][pend.key] = pend.property]
    <3>1. UNCHANGED kind /\ pend.obj \in Obj /\ pend.key \in Name
      BY <1>6, <1>7
    <3>2. ASSUME NEW o \in Obj, NEW n \in Name, NEW property,
                 o = pend.obj, n = pend.key, property = pend.property
          PROVE  Maps' = [Maps EXCEPT ![o][n] = property]
      <4>1. \A x \in Obj, m \in Name : OwnIn(body', tables', x, m) =
                IF x = o /\ m = n THEN property ELSE OwnIn(body, tables, x, m)
        BY <3>2, <1>8
      <4>2. kind[o] = "object"
        BY <3>2, <1>12
      <4> QED BY <3>1, <4>1, <4>2, MapsUpdated
    <3> QED BY <3>1, <3>2
  <2>3. UNCHANGED <<proto, globals>>
    BY <1>6, <2>1
  <2> QED BY <2>1, <2>2, <2>3, <1>7, <1>11, AddIsStep
<1>13. CASE kind[pend.obj] = "global"
  <2>1. pend.property = Native(TRUE, pend.key) /\ pend.key \in Globals
    BY <1>1, <1>13 DEF AddsToOwn
  <2>2. pend.property.value = pend.key
    BY <2>1 DEF Native, Property
  <2>3. Maps' = Maps
    <3>1. \A x \in Obj, m \in Name : kind[x] = "object" => OwnIn(body', tables', x, m) = OwnIn(body, tables, x, m)
      BY <1>8, <1>13
    <3> QED BY <3>1, <1>6 DEF Maps, Own, OwnIn
  <2>4. CASE pend.value = NULL
    BY <2>3, <2>4, <1>6, <1>11 DEF Maps, ObjectMaps!vars
  <2>5. CASE pend.value # NULL
    <3>1. pend.value \in Value
      BY <2>5, <1>1 DEF AddingOK
    <3>2. globals' = [globals EXCEPT ![pend.key] = pend.value]
      BY <2>1, <2>2, <2>5, <1>6 DEF Native, Property
    <3>3. ObjectMaps!SetGlobal(pend.key, pend.value)
      BY <3>2, <2>3, <1>6 DEF ObjectMaps!SetGlobal, Maps
    <3>4. pend.key \in DOMAIN globals
      BY <2>1 DEF Inv, Typed
    <3> QED BY <3>1, <3>3, <3>4, <1>11 DEF ObjectMaps!Next
  <2> QED BY <2>4, <2>5
<1> QED BY <1>9, <1>12, <1>13

\* A value the object has is written.
LEMMA MapSetValue ==
    ASSUME Inv, Shape, MapInv, ~through, NEW o \in Obj, NEW n \in Name, NEW v \in Value,
           pend = Idle, kind[o] = "object", SetValue(o, n, v)
    PROVE  MapInv' /\ ObjectMaps!Next
<1> DEFINE T == tables[body[o]]
           property == [Entry(o, n) EXCEPT !.value = v]
           entry == [key |-> n, property |-> property]
           after == Write(T, OwnSlot(o, n).id, entry)
<1>1. /\ OwnSlot(o, n).found /\ OwnSlot(o, n).valid /\ OwnSlot(o, n) = Find(T, n)
      /\ body[o] \in DOMAIN tables /\ body[o] # NULL
      /\ Entry(o, n) \in Properties /\ Entry(o, n).kind = "value"
  BY OwnEntry DEF SetValue
<1>2. IsTable(T) /\ WellFormed(T)
  BY <1>1 DEF Inv, Good
<1>3. entry \in Entries /\ entry.key = n /\ entry.property = property
  <2>1. property \in Properties
    BY <1>1 DEF Properties
  <2> QED BY <2>1 DEF Entries
<1>4. \A m : Contents(after, m) = IF m = n THEN property ELSE Contents(T, m)
  <2> HIDE DEF entry, T, property
  <2> QED BY <1>1, <1>2, <1>3, WriteContents
<1>5. tables' = [tables EXCEPT ![body[o]] = after] /\ UNCHANGED <<kind, proto, body, globals, pend, through>>
  BY DEF SetValue
<1> HIDE DEF after
<1>6. \A x \in Obj, m \in Name : OwnIn(body', tables', x, m) =
          IF x = o /\ m = n THEN property ELSE OwnIn(body, tables, x, m)
  <2> TAKE x \in Obj, m \in Name
  <2> HIDE DEF property
  <2>1. CASE x = o
    BY <2>1, <1>1, <1>4, <1>5 DEF OwnIn
  <2>2. CASE x # o
    <3>1. body[x] # body[o]
      BY <2>2, <1>1 DEF Inv, BodiesDistinct
    <3> QED BY <3>1, <2>2, <1>1, <1>5 DEF OwnIn
  <2> QED BY <2>1, <2>2
<1>7. MapInv'
  <2>1. HoldsGlobals'
    BY <1>5, <1>6 DEF MapInv, HoldsGlobals
  <2>2. pend' = Idle
    BY <1>5
  <2> QED BY <2>1, <2>2 DEF MapInv, AddsToOwn, CopiesAll, Idle
<1>8. Holder(o, n) = o
  BY <1>1, HolderFollows DEF Shape
<1>9. ObjectMaps!Holder(o, n) = o /\ Maps[o][n] = Entry(o, n)
  BY <1>8, HoldersAgree, NearestIsHolder
<1>10. Maps' = [Maps EXCEPT ![o][n] = property]
  <2> HIDE DEF property
  <2> QED BY <1>5, <1>6, MapsUpdated
<1>11. ObjectMaps!Becomes(o, n, [Maps[o][n] EXCEPT !.value = v])
  BY <1>5, <1>9, <1>10 DEF Maps, ObjectMaps!Becomes
<1>12. ObjectMaps!Set(o, n, v)
  <2>1. Maps[o][n].kind = "value"
    BY <1>1, <1>9
  <2> QED BY <1>9, <1>11, <2>1 DEF ObjectMaps!Set, Maps
<1> QED BY <1>7, <1>12 DEF ObjectMaps!Next

\* An object gets a property of its own, if nothing along its prototypes is against it.
LEMMA MapSetAdds ==
    ASSUME Inv, Shape, MapInv, ~through, NEW o \in Obj, NEW n \in Name, NEW v \in Value,
           kind[o] = "object", SetAdds(o, n, v)
    PROVE  MapInv' /\ UNCHANGED ObjectMaps!vars
<1>1. Nearest(proto, Maps, o, n) = Holder(o, n)
  BY HoldersAgree
<1>2. ASSUME NEW h \in Obj \ {o}, h = Holder(o, n), Entry(h, n).kind = "value", Entry(h, n).writeable
      PROVE  Allowed(proto, Maps, o, n, PlainValue(v))
  <2>1. Maps[h][n] = Entry(h, n) /\ h \notin {o, NULL}
    BY <1>2, HoldersAgree, ObjectsAssumption
  <2> QED BY <1>1, <1>2, <2>1 DEF Allowed, MayAdd
<1>3. Allowed(proto, Maps, o, n, PlainValue(v))
  <2>1. CASE Holder(o, n) = NULL
    BY <1>1, <2>1 DEF Allowed, MayAdd
  <2> QED BY <1>2, <2>1 DEF SetAdds
<1>4. BeginAdd(o, n, PlainValue(v), NULL)
  BY DEF SetAdds
<1> QED BY <1>3, <1>4, MapBeginAdd

\* A property along the prototypes is redefined only if it is configurable; if it is the
\* object's own, it is in the object's table.
LEMMA MapRedefine ==
    ASSUME Inv, Shape, MapInv, ~through', through \in BOOLEAN, NEW o \in Obj, NEW n \in Name,
           NEW property \in MapDefinitions[n], kind[o] = "object", Redefine(o, n, property)
    PROVE  MapInv' /\ UNCHANGED ObjectMaps!vars
<1>1. Nearest(proto, Maps, o, n) = Holder(o, n)
  BY HoldersAgree
<1>2. CASE Holder(o, n) = NULL /\ BeginAdd(o, n, property, NULL)
  <2>1. Allowed(proto, Maps, o, n, property)
    BY <1>1, <1>2 DEF Allowed, MayAdd
  <2>2. ~through
    BY <1>2 DEF BeginAdd
  <2> QED BY <1>2, <2>1, <2>2, MapBeginAdd
<1>3. ASSUME NEW h \in Obj, h = Holder(o, n), OwnSlot(h, n).found, Entry(h, n).configurable,
             pend' = Adding(o, body[h], OwnSlot(h, n), n, property, NULL),
             through' = (through \/ h # o), UNCHANGED <<kind, proto, body, tables, globals>>
      PROVE  MapInv' /\ UNCHANGED ObjectMaps!vars
  <2>1. h = o /\ ~through /\ UNCHANGED through
    BY <1>3
  <2>2. body[o] # NULL
    BY <1>3, <2>1, OwnEntry
  <2>3. BeginAdd(o, n, property, NULL)
    BY <1>3, <2>1, <2>2 DEF BeginAdd
  <2>4. Maps[o][n] = Entry(o, n)
    BY <1>3, <2>1, HoldersAgree
  <2>5. Allowed(proto, Maps, o, n, property)
    BY <1>1, <1>3, <2>1, <2>4 DEF Allowed, MayAdd
  <2> QED BY <2>1, <2>3, <2>5, MapBeginAdd
<1> QED BY <1>2, <1>3 DEF Redefine

\* The global object is no map, and sets the global it has a name for.
LEMMA MapGlobalMember ==
    ASSUME Inv, MapInv, ~through, NEW o \in Obj, NEW n \in Name, NEW value \in Value \cup {NULL},
           GlobalMember(o, n, value)
    PROVE  MapInv' /\ (ObjectMaps!Next \/ UNCHANGED ObjectMaps!vars)
<1>1. pend = Idle /\ kind[o] = "global" /\ HoldsGlobals
  BY DEF GlobalMember, MapInv
<1>2. CASE GlobalEntered(o, n, value)
  <2>1. n \in Globals /\ BeginAdd(o, n, Native(TRUE, n), value)
    BY <1>2 DEF GlobalEntered
  <2> QED BY <1>1, <2>1, MapBeginAdd
<1>3. CASE GlobalWritten(o, n, value)
  <2>1. /\ OwnSlot(o, n).found /\ value \in Value /\ globals' = [globals EXCEPT ![Entry(o, n).value] = value]
        /\ UNCHANGED <<kind, proto, body, tables, pend, through>>
    BY <1>3 DEF GlobalWritten
  <2>2. Own(o, n) # NULL /\ Own(o, n) = Entry(o, n) /\ Own(o, n) = OwnIn(body, tables, o, n)
    BY <2>1, OwnFound DEF Own, OwnIn
  <2>3. Entry(o, n).value \in Globals
    BY <2>2, <1>1 DEF HoldsGlobals
  <2>4. ObjectMaps!SetGlobal(Entry(o, n).value, value)
    BY <2>1 DEF ObjectMaps!SetGlobal, Own
  <2>5. MapInv'
    <3>1. pend' = Idle /\ HoldsGlobals'
      BY <2>1, <1>1 DEF HoldsGlobals
    <3> QED BY <3>1 DEF MapInv, AddsToOwn, CopiesAll, Idle
  <2>6. DOMAIN globals = Globals
    BY DEF Inv, Typed
  <2> QED BY <2>1, <2>3, <2>4, <2>5, <2>6 DEF ObjectMaps!Next
<1>4. CASE GlobalTable(o, n, value)
  <2>1. PICK t \in TableId \ DOMAIN tables :
          /\ body' = [body EXCEPT ![o] = t]
          /\ tables' = [u \in DOMAIN tables \cup {t} |->
                           IF u = t THEN EmptyTable(FirstCapacity) ELSE tables[u]]
          /\ pend' = IF n \notin Globals THEN Idle
                     ELSE Adding(o, t, Find(EmptyTable(FirstCapacity), n), n, Native(TRUE, n), value)
    BY <1>4 DEF GlobalTable
  <2>2. UNCHANGED <<kind, proto, globals, through>> /\ body[o] = NULL
    BY <1>4 DEF GlobalTable
  <2>3. \A m : Contents(EmptyTable(FirstCapacity), m) = NULL
    BY EmptyWellFormed, Capacities, ContentsAt
  <2>4. body'[o] = t /\ tables'[t] = EmptyTable(FirstCapacity)
    BY <2>1 DEF Inv, BodyOK
  <2>5. \A m : OwnIn(body', tables', o, m) = NULL /\ OwnIn(body, tables, o, m) = NULL
    BY <2>2, <2>3, <2>4 DEF OwnIn
  <2>6. ASSUME NEW x \in Obj, x # o
        PROVE  \A m \in Name : OwnIn(body', tables', x, m) = OwnIn(body, tables, x, m)
    <3>1. body'[x] = body[x] /\ (body[x] # NULL => body[x] \in DOMAIN tables)
      BY <2>1, <2>6 DEF Inv, BodyOK
    <3>2. body[x] # NULL => tables'[body[x]] = tables[body[x]]
      BY <3>1, <2>1
    <3> QED BY <3>1, <3>2, OwnSame
  <2>7. Quiet
    BY <2>2, <2>5, <2>6 DEF Quiet
  <2>8. AddsToOwn' /\ CopiesAll'
    <3>1. CASE n \notin Globals
      BY <2>1, <3>1 DEF AddsToOwn, CopiesAll, Idle
    <3>2. CASE n \in Globals
      <4>1. pend' = Adding(o, t, Find(EmptyTable(FirstCapacity), n), n, Native(TRUE, n), value)
        BY <2>1, <3>2
      <4>2. /\ pend'.phase = "adding" /\ pend'.obj = o /\ pend'.table = t /\ pend'.key = n
            /\ pend'.property = Native(TRUE, n)
        BY <4>1 DEF Adding
      <4> QED BY <4>2, <3>2, <2>2, <2>3, <2>4, <2>5, <1>1 DEF AddsToOwn, CopiesAll
    <3> QED BY <3>1, <3>2
  <2> QED BY <2>7, <2>8, <1>1, QuietInv
<1> QED BY <1>2, <1>3, <1>4 DEF GlobalMember

\* Objects begin as empty maps.
LEMMA MapInvInit == Init => MapInv /\ ObjectMaps!Init
<1> SUFFICES ASSUME Init PROVE MapInv /\ ObjectMaps!Init
  OBVIOUS
<1>1. pend = Idle /\ \A o \in Obj : body[o] = NULL
  BY DEF Init
<1>2. MapInv
  BY <1>1 DEF MapInv, AddsToOwn, CopiesAll, HoldsGlobals, OwnIn, Idle
<1>3. ObjectMaps!Init
  BY <1>1 DEF ObjectMaps!Init, Own
<1> QED BY <1>2, <1>3

\* A step keeps the invariant of the maps, and is a step of theirs or none.
LEMMA MapStep ==
    ASSUME Inv, Shape, MapInv, [Next]_vars
    PROVE  MapInv' /\ (through' \/ ObjectMaps!Next \/ UNCHANGED ObjectMaps!vars)
<1>1. CASE through'
  BY <1>1 DEF MapInv
<1>2. CASE ~through'
  <2> DEFINE Goal == MapInv' /\ (ObjectMaps!Next \/ UNCHANGED ObjectMaps!vars)
  <2>1. through \in BOOLEAN
    BY DEF Inv, Typed
  <2>2. ASSUME NEW o \in Obj, NEW n \in Name, NEW v \in Value, SetMember(o, n, v)
        PROVE  Goal
    <3>1. ~through
      BY <1>2, <2>2 DEF SetMember, SetValue, SetAdds, BeginAdd
    <3> QED BY <2>2, <3>1, MapSetValue, MapSetAdds DEF SetMember
  <2>3. ASSUME NEW o \in Obj, NEW n \in Name, NEW d \in Definitions[n], DefineProperty(o, n, d)
        PROVE  Goal
    <3>1. Defined(d) \in MapDefinitions[n]
      BY DEF MapDefinitions
    <3> QED BY <1>2, <2>1, <2>3, <3>1, MapRedefine DEF DefineProperty
  <2>4. ASSUME NEW o \in Obj, NEW n \in Name, DefineNative(o, n)
        PROVE  Goal
    <3>1. Native(TRUE, NULL) \in MapDefinitions[n]
      BY <2>4 DEF MapDefinitions, DefineNative
    <3> QED BY <1>2, <2>1, <2>4, <3>1, MapRedefine DEF DefineNative
  <2>5. ASSUME NEW o \in Obj, NEW n \in Name, NEW v \in Value \cup {NULL}, GlobalMember(o, n, v)
        PROVE  Goal
    <3>1. ~through
      BY <1>2, <2>5 DEF GlobalMember, GlobalTable, GlobalEntered, GlobalWritten, BeginAdd
    <3> QED BY <2>5, <3>1, MapGlobalMember
  <2>6. WriteProperty \/ Grow \/ CopySlot \/ FinishCopy \/ OutOfMemory => ~through
    BY <1>2 DEF WriteProperty, Grow, CopySlot, FinishCopy, OutOfMemory
  <2>7. WriteProperty \/ Grow \/ CopySlot \/ FinishCopy \/ OutOfMemory => Goal
    BY <2>6, MapWriteProperty, MapGrow, MapCopySlot, MapFinishCopy, MapOutOfMemory
  <2>8. UNCHANGED vars => Goal
    <3> SUFFICES ASSUME UNCHANGED vars PROVE Goal
      OBVIOUS
    <3>1. Quiet
      BY QuietTables DEF vars
    <3>2. AddsToOwn' /\ CopiesAll' /\ HoldsGlobals
      BY <1>2 DEF vars, MapInv, AddsToOwn, CopiesAll, Maps, Own
    <3> QED BY <3>1, <3>2, QuietInv
  <2> QED BY <2>2, <2>3, <2>4, <2>5, <2>7, <2>8 DEF Next
<1> QED BY <1>1, <1>2

\* Objects with their tables, growth, collisions and failed additions implement maps
\* with prototypes, until an object redefines what it inherits.
THEOREM ObjectsAreMaps == Spec => ImplementsMembers
<1>1. Inv /\ Shape /\ MapInv /\ [Next]_vars => MapInv' /\ [through' \/ ObjectMaps!Next]_(ObjectMaps!vars)
  BY MapStep
<1> QED BY <1>1, MapInvInit, InvAlways, ShapeAlways, PTL DEF Spec, ImplementsMembers
=============================================================================
