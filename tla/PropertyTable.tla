----------------------------- MODULE PropertyTable -----------------------------
(***************************************************************************)
(* The hash table that holds the properties of one object (property.c):    *)
(* open addressing with linear probing, never a deletion.                  *)
(*                                                                         *)
(* A table is a record; slots is a function on the indexes in use, so that *)
(* an index outside its domain is a slot whose key is NULL.  Operators     *)
(* named after C functions return the table after them.                    *)
(***************************************************************************)
(* A definition named Mutant... is a plausible bug in the one it is named after.  *)
EXTENDS Integers, FiniteSets

CONSTANTS Name,         \* property keys
          Hash,         \* hash code of each
          Steps,        \* the capacities tables take first: 4, 8, 17, 31 in the code
          SmallTable,   \* tables no larger fill up before they grow: 16 in the code
          MaxCapacity   \* bound: no larger table can be allocated

\* pinta_property_table_get_next_capacity: the next of the first capacities, or
\* else the least 2^k - 1 not below twice the capacity less one.
NextCapacity(capacity) ==
    LET larger == {s \in Steps : capacity < s}
        ones   == {m \in {2 ^ k - 1 : k \in 1 .. 16} : m >= 2 * capacity - 1}
        from   == IF larger # {} THEN larger ELSE ones
    IN  CHOOSE c \in from : \A d \in from : c <= d

ASSUME TableAssumption ==
    /\ Hash \in [Name -> Nat]
    /\ Steps \subseteq Nat \ {0} /\ Steps # {}
    /\ SmallTable \in Nat
    /\ MaxCapacity \in Nat /\ \E s \in Steps : s <= MaxCapacity
    /\ \A c \in 1 .. MaxCapacity : NextCapacity(c) \in Nat /\ NextCapacity(c) > c

\* The capacity every caller asks for first.
FirstCapacity == CHOOSE c \in Steps : \A d \in Steps : c <= d

EmptyTable(capacity) == [capacity |-> capacity, length |-> 0, slots |-> [i \in {} |-> 0]]
Used(t) == DOMAIN t.slots
KeysOf(t) == {t.slots[i].key : i \in Used(t)}

\* pinta_property_table_should_extend
ShouldExtend(t) == t.capacity > SmallTable /\ t.length >= t.capacity - t.capacity \div 4

\* The index tried after d others: from the hash to the end, then from the start.
Probe(t, key, d) == (Hash[key] + d) % t.capacity

\* How many others have been tried, and the least of some such numbers.
Distances(t) == 0 .. t.capacity - 1
First(ds) == CHOOSE d \in ds : \A e \in ds : d <= e

NoSlot == [valid |-> FALSE, found |-> FALSE, id |-> 0]

\* pinta_property_table_find: the slot of the key, or the free slot it would take,
\* or an invalid slot when the table is full of other keys.
Find(t, key) ==
    LET stops == {d \in Distances(t) : \/ Probe(t, key, d) \notin Used(t)
                                       \/ t.slots[Probe(t, key, d)].key = key}
        id    == Probe(t, key, First(stops))
    IN  IF stops = {} THEN NoSlot
        ELSE [valid |-> TRUE, found |-> id \in Used(t), id |-> id]

\* A slot and its contents, replaced or filled.
Write(t, id, entry) ==
    [t EXCEPT !.slots = [i \in Used(t) \cup {id} |-> IF i = id THEN entry ELSE t.slots[i]]]

\* The end of pinta_lib_property_table_add_value, _accessor and _native: the
\* length counts calls, those that replace a property among them.
AddAt(t, id, entry) == [Write(t, id, entry) EXCEPT !.length = t.length + 1]

\* pinta_property_table_copy_property: the first free slot; keys are not compared,
\* and a full table swallows the entry.
MutantCopyProperty(t, entry) ==   \* the first from the start of the table
    LET free == (0 .. t.capacity - 1) \ Used(t)
    IN  IF free = {} THEN t ELSE Write(t, First(free), entry)
MutantCopyAtHome(t, entry) ==   \* over what has the slot already
    Write(t, Probe(t, entry.key, 0), entry)
CopyProperty(t, entry) ==
    LET free == {d \in Distances(t) : Probe(t, entry.key, d) \notin Used(t)}
    IN  IF free = {} THEN t ELSE Write(t, Probe(t, entry.key, First(free)), entry)

-----------------------------------------------------------------------------

\* No two slots have one key, and no slot between the hash of a key and the
\* key's place is free: then a search for the key ends there.
ProbeOrderKept(t) ==
    \A i \in Used(t) : \E d \in Distances(t) :
        /\ i = Probe(t, t.slots[i].key, d)
        /\ \A e \in 0 .. d - 1 : Probe(t, t.slots[i].key, e) \in Used(t)
KeysOnce(t) == \A i, j \in Used(t) : t.slots[i].key = t.slots[j].key => i = j
WellFormed(t) == KeysOnce(t) /\ ProbeOrderKept(t)
=============================================================================
