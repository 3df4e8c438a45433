-------------------------------- MODULE Objects --------------------------------
(***************************************************************************)
(* Objects (object.c), the global object (global-object.c) and the tables  *)
(* that hold their properties (PropertyTable).                             *)
(*                                                                         *)
(* An object has a prototype and, from its first property on, a table.     *)
(* Adding a property may replace the table by a larger one, several times  *)
(* over; what is in flight meanwhile, the locals of the C functions, is in *)
(* pend.  Each iteration of the copy is an action; everything else of an   *)
(* operation is one.  Tables that nothing names are gone.                  *)
(***************************************************************************)
(* A definition named Mutant... is a plausible bug in the one it is named after.  *)
EXTENDS PropertyTable

CONSTANTS Obj, TableId, Value, NULL,
          Definitions,      \* [Name -> what callers define it as, value or accessors]
          Natives,          \* the names they define natively
          Globals,          \* the names among Name that a module declares as globals
          MaxLength         \* bound on the length that redefinitions run up

ASSUME ObjectsAssumption ==
    /\ Globals \subseteq Name
    /\ NULL \notin Obj \cup TableId \cup Value
    /\ Natives \subseteq Name
    /\ \A n \in Name : \A d \in Definitions[n] : /\ DOMAIN d = {"configurable", "writeable", "value", "get", "set"}
                                            /\ {d.configurable, d.writeable, d.get, d.set} \subseteq BOOLEAN
                                            /\ d.value \in Value \cup {NULL}
    /\ MaxLength \in Nat

VARIABLES kind,     \* [Obj -> {"object", "global"}]
          proto,    \* [Obj -> Obj \cup {NULL}]
          body,     \* [Obj -> TableId \cup {NULL}]
          tables,   \* the tables in use, by TableId
          globals,  \* [Globals -> Value \cup {NULL}], the array domain->globals
          pend,     \* the addition in progress, or Idle
          through   \* history: has an object redefined what it inherits?

vars == <<kind, proto, body, tables, globals, pend, through>>

\* A property: a value, a pair of accessors (present or not), or a native token.
Property(shape, d) == [kind |-> shape, configurable |-> d.configurable, writeable |-> d.writeable,
                       value |-> d.value, get |-> d.get, set |-> d.set]
Defined(d) == Property(IF d.get \/ d.set THEN "accessor" ELSE "value", d)
Native(configurable, token) ==
    Property("native", [configurable |-> configurable, writeable |-> FALSE, value |-> token,
                        get |-> FALSE, set |-> FALSE])
PlainValue(v) == Property("value", [configurable |-> TRUE, writeable |-> TRUE, value |-> v,
                                    get |-> FALSE, set |-> FALSE])
Properties == [kind : {"value", "accessor", "native"}, configurable : BOOLEAN, writeable : BOOLEAN,
               value : Value \cup {NULL} \cup Globals, get : BOOLEAN, set : BOOLEAN]
ASSUME NullIsNoProperty == NULL \notin Properties

Idle == [phase |-> "idle"]

\* Objects just allocated (pinta_lib_object_alloc, pinta_global_object_alloc).
Acyclic(p) == \A S \in SUBSET Obj : S # {} => \E o \in S : p[o] \notin S
Init == /\ kind \in [Obj -> {"object", "global"}]
        /\ Cardinality({o \in Obj : kind[o] = "global"}) <= 1
        /\ proto \in [Obj -> Obj \cup {NULL}]
        /\ Acyclic(proto)
        /\ \A o \in Obj : kind[o] = "global" => proto[o] = NULL /\ \A x \in Obj : proto[x] # o
        /\ body = [o \in Obj |-> NULL]
        /\ tables = [t \in {} |-> EmptyTable(0)]
        /\ globals = [n \in Globals |-> NULL]
        /\ pend = Idle
        /\ through = FALSE

-----------------------------------------------------------------------------
(* Looking up *)

OwnSlot(o, n) == IF body[o] = NULL THEN NoSlot ELSE Find(tables[body[o]], n)
Entry(o, n) == tables[body[o]].slots[OwnSlot(o, n).id].property

\* pinta_lib_object_get_property: the nearest object of the chain with the key.
Holder(o, n) == LET holder[x \in Obj \cup {NULL}] ==
                        IF x = NULL \/ OwnSlot(x, n).found THEN x ELSE holder[proto[x]]
                IN  holder[o]

\* pinta_lib_object_get_member
GetMember(o, n) ==
    LET h == Holder(o, n)
    IN  IF h = NULL \/ (Entry(h, n).kind = "accessor" /\ ~Entry(h, n).get) THEN <<"thrown">>
        ELSE <<Entry(h, n).kind, Entry(h, n).value>>

-----------------------------------------------------------------------------
(* Adding a property *)

Collected(ts, roots) == [t \in DOMAIN ts \cap roots |-> ts[t]]
Bodies(b) == {b[o] : o \in Obj}

\* The call that adds to the table t, given the slot its caller found; value is
\* what a global is set to afterwards, if anything.
Adding(o, t, slot, n, property, value) ==
    [phase |-> "adding", obj |-> o, table |-> t, slot |-> slot, key |-> n,
     property |-> property, value |-> value]

\* A first table is allocated for an object that has none.
BeginAdd(o, n, property, value) ==
    /\ \/ /\ body[o] # NULL
          /\ pend' = Adding(o, body[o], OwnSlot(o, n), n, property, value)
          /\ UNCHANGED tables
       \/ /\ body[o] = NULL
          /\ \E t \in TableId \ DOMAIN tables :
                /\ pend' = Adding(o, t, NoSlot, n, property, value)
                /\ tables' = [u \in DOMAIN tables \cup {t} |->
                                 IF u = t THEN EmptyTable(FirstCapacity) ELSE tables[u]]
    /\ UNCHANGED <<kind, proto, body, globals, through>>

PendTable == tables[pend.table]
PendSlot == IF pend.slot.valid THEN pend.slot ELSE Find(PendTable, pend.key)
MustGrow == ~PendSlot.valid \/ (~PendSlot.found /\ ShouldExtend(PendTable))

\* The property is written, and the caller makes the table the object's body.
WriteProperty ==
    /\ pend.phase = "adding" /\ ~MustGrow
    /\ body' = [body EXCEPT ![pend.obj] = pend.table]
    /\ tables' = Collected([tables EXCEPT ![pend.table] =
                       AddAt(PendTable, PendSlot.id, [key |-> pend.key, property |-> pend.property])],
                   Bodies(body'))
    /\ globals' = IF pend.property.kind = "native" /\ pend.value # NULL
                  THEN [globals EXCEPT ![pend.property.value] = pend.value] ELSE globals
    /\ pend' = Idle
    /\ UNCHANGED <<kind, proto, through>>

\* pinta_lib_property_table_alloc_value, up to its loop.
Grow ==
    /\ pend.phase = "adding" /\ MustGrow
    /\ NextCapacity(PendTable.capacity) <= MaxCapacity
    /\ \E t \in TableId \ DOMAIN tables :
          /\ tables' = [u \in DOMAIN tables \cup {t} |->
                           IF u = t THEN EmptyTable(NextCapacity(PendTable.capacity)) ELSE tables[u]]
          /\ pend' = [phase |-> "copying", obj |-> pend.obj, table |-> pend.table, new |-> t,
                      index |-> 0, key |-> pend.key, property |-> pend.property, value |-> pend.value]
    /\ UNCHANGED <<kind, proto, body, globals, through>>

\* One iteration of pinta_property_table_alloc_object_value.
MutantCopySlot ==   \* from the second slot on
    /\ pend.phase = "copying" /\ pend.index < PendTable.capacity
    /\ tables' = IF pend.index \in Used(PendTable) \ {0}
                 THEN [tables EXCEPT ![pend.new] = CopyProperty(@, PendTable.slots[pend.index])]
                 ELSE tables
    /\ pend' = [pend EXCEPT !.index = @ + 1]
    /\ UNCHANGED <<kind, proto, body, globals, through>>
CopySlot ==
    /\ pend.phase = "copying" /\ pend.index < PendTable.capacity
    /\ tables' = IF pend.index \in Used(PendTable)
                 THEN [tables EXCEPT ![pend.new] = CopyProperty(@, PendTable.slots[pend.index])]
                 ELSE tables
    /\ pend' = [pend EXCEPT !.index = @ + 1]
    /\ UNCHANGED <<kind, proto, body, globals, through>>

\* The copy is complete; the addition starts again with it, and searches again.
MutantFinishCopy ==   \* with the slot found in the old table
    /\ pend.phase = "copying" /\ pend.index = PendTable.capacity
    /\ pend' = Adding(pend.obj, pend.new, Find(PendTable, pend.key), pend.key, pend.property, pend.value)
    /\ tables' = Collected([tables EXCEPT ![pend.new].length = PendTable.length],
                           Bodies(body) \cup {pend.new})
    /\ UNCHANGED <<kind, proto, body, globals, through>>
FinishCopy ==
    /\ pend.phase = "copying" /\ pend.index = PendTable.capacity
    /\ pend' = Adding(pend.obj, pend.new, NoSlot, pend.key, pend.property, pend.value)
    /\ tables' = Collected([tables EXCEPT ![pend.new].length = PendTable.length],
                           Bodies(body) \cup {pend.new})
    /\ UNCHANGED <<kind, proto, body, globals, through>>

\* An allocation fails: the caller's references go, the objects are as they were.
OutOfMemory ==
    /\ pend.phase = "adding" /\ MustGrow
    /\ pend' = Idle
    /\ tables' = Collected(tables, Bodies(body))
    /\ UNCHANGED <<kind, proto, body, globals, through>>

-----------------------------------------------------------------------------
(* Operations.  One that throws at once, or finds no memory for a first table, *)
(* has no step; nor has one that calls an accessor, which is the interpreter's.  *)
(* Additions take names that are strings: for any other, only a copy of which is *)
(* converted for the search, pinta_lib_property_table_get_hash_code throws.      *)

\* pinta_lib_object_set_member where the object has the property as a value: it is
\* written, whether writeable or not.
SetValue(o, n, v) ==
    /\ OwnSlot(o, n).found /\ Entry(o, n).kind = "value"
    /\ tables' = [tables EXCEPT ![body[o]] =
                    Write(@, OwnSlot(o, n).id, [key |-> n, property |-> [Entry(o, n) EXCEPT !.value = v]])]
    /\ UNCHANGED <<kind, proto, body, globals, pend, through>>

\* It has not, and its prototypes neither, or as a value that may be written.
MutantSetAdds(o, n, v) ==   \* to the table of the object that has the name
    \/ Holder(o, n) = NULL /\ BeginAdd(o, n, PlainValue(v), NULL)
    \/ /\ \E h \in Obj \ {o} : /\ h = Holder(o, n) /\ Entry(h, n).kind = "value" /\ Entry(h, n).writeable
                               /\ pend' = Adding(o, body[h], OwnSlot(h, n), n, PlainValue(v), NULL)
       /\ UNCHANGED <<kind, proto, body, tables, globals, through>>
SetAdds(o, n, v) ==
    /\ \/ Holder(o, n) = NULL
       \/ \E h \in Obj \ {o} : h = Holder(o, n) /\ Entry(h, n).kind = "value" /\ Entry(h, n).writeable
    /\ BeginAdd(o, n, PlainValue(v), NULL)

SetMember(o, n, v) == pend = Idle /\ kind[o] = "object" /\ (SetValue(o, n, v) \/ SetAdds(o, n, v))

\* pinta_lib_object_define_property and _native once their arguments are checked:
\* a property found along the chain must be configurable, and is replaced in the
\* table where it is, which then becomes the object's.
Redefine(o, n, property) ==
    \/ \E h \in Obj :
         /\ h = Holder(o, n) /\ OwnSlot(h, n).found /\ Entry(h, n).configurable
         /\ tables[body[h]].length < MaxLength
         /\ pend' = Adding(o, body[h], OwnSlot(h, n), n, property, NULL)
         /\ through' = (through \/ h # o)
         /\ UNCHANGED <<kind, proto, body, tables, globals>>
    \/ Holder(o, n) = NULL /\ BeginAdd(o, n, property, NULL)

DefineProperty(o, n, d) ==
    /\ pend = Idle /\ kind[o] = "object"
    /\ ~((d.writeable \/ d.value # NULL) /\ (d.get \/ d.set))
    /\ Redefine(o, n, Defined(d))

DefineNative(o, n) == n \in Natives /\ pend = Idle /\ kind[o] = "object" /\ Redefine(o, n, Native(TRUE, NULL))

\* pinta_lib_global_object_get_member, and _set_member when value is not NULL.
\* A table comes first, for any name; a global is entered as a native property
\* when its name is first used; the property reads and writes the global whose
\* token it holds.
GlobalTable(o, n, value) ==
    /\ body[o] = NULL
    /\ \E t \in TableId \ DOMAIN tables :
          /\ body' = [body EXCEPT ![o] = t]
          /\ tables' = [u \in DOMAIN tables \cup {t} |->
                           IF u = t THEN EmptyTable(FirstCapacity) ELSE tables[u]]
          /\ pend' = IF n \notin Globals THEN Idle
                     ELSE Adding(o, t, Find(EmptyTable(FirstCapacity), n), n, Native(TRUE, n), value)
    /\ UNCHANGED <<kind, proto, globals, through>>

GlobalEntered(o, n, value) ==
    /\ body[o] # NULL /\ ~OwnSlot(o, n).found /\ n \in Globals
    /\ BeginAdd(o, n, Native(TRUE, n), value)

GlobalWritten(o, n, value) ==
    /\ OwnSlot(o, n).found /\ value # NULL
    /\ globals' = [globals EXCEPT ![Entry(o, n).value] = value]
    /\ UNCHANGED <<kind, proto, body, tables, pend, through>>

GlobalMember(o, n, value) ==
    /\ pend = Idle /\ kind[o] = "global"
    /\ GlobalTable(o, n, value) \/ GlobalEntered(o, n, value) \/ GlobalWritten(o, n, value)

Next == \/ \E o \in Obj, n \in Name :
              \/ \E v \in Value : SetMember(o, n, v)
              \/ \E d \in Definitions[n] : DefineProperty(o, n, d)
              \/ DefineNative(o, n)
              \/ \E v \in Value \cup {NULL} : GlobalMember(o, n, v)
        \/ WriteProperty \/ Grow \/ CopySlot \/ FinishCopy \/ OutOfMemory

Spec == Init /\ [][Next]_vars

-----------------------------------------------------------------------------
(* Properties *)

TypeOK ==
    /\ kind \in [Obj -> {"object", "global"}]
    /\ proto \in [Obj -> Obj \cup {NULL}]
    /\ DOMAIN tables \subseteq TableId
    /\ body \in [Obj -> DOMAIN tables \cup {NULL}]
    /\ \A t \in DOMAIN tables :
          /\ tables[t].capacity \in 1 .. MaxCapacity /\ tables[t].length \in Nat
          /\ Used(tables[t]) \subseteq 0 .. tables[t].capacity - 1
          /\ \A i \in Used(tables[t]) : /\ tables[t].slots[i].key \in Name
                                        /\ tables[t].slots[i].property \in Properties
    /\ globals \in [Globals -> Value \cup {NULL}]
    /\ pend.phase \in {"idle", "adding", "copying"} /\ through \in BOOLEAN

\* A search for a key ends at its slot, in every table, those half copied included:
\* no slot before it in probing order is free, and no key has two slots.
TablesWellFormed == \A t \in DOMAIN tables : WellFormed(tables[t])

\* No two objects have one table, so that to write to an object changes no other: not
\* until an object redefines what it inherits, which leaves it with the table of the
\* prototype (object.c:426).
BodiesDistinct == ~through => \A o, x \in Obj : body[o] = body[x] /\ body[o] # NULL => o = x

\* The property under a name, wherever the table keeps it, and that of an object.
Contents(t, n) == IF n \notin KeysOf(t) THEN NULL
                  ELSE t.slots[CHOOSE i \in Used(t) : t.slots[i].key = n].property
Own(o, n) == IF body[o] = NULL THEN NULL ELSE Contents(tables[body[o]], n)

\* What the search along the chain of prototypes reads is what the nearest object
\* that has the name has under it, wherever its table keeps it.
ReadsNearest ==
    \A o \in Obj, n \in Name :
        LET nearest[x \in Obj \cup {NULL}] ==
                IF x = NULL THEN NULL ELSE IF Own(x, n) # NULL THEN Own(x, n) ELSE nearest[proto[x]]
        IN  GetMember(o, n) = IF nearest[o] = NULL THEN <<"thrown">>
                              ELSE IF nearest[o].kind = "accessor" /\ ~nearest[o].get THEN <<"thrown">>
                              ELSE <<nearest[o].kind, nearest[o].value>>

\* Through additions that fail midway, growth and collisions, an object is a map
\* with a prototype: nothing is lost, nothing appears elsewhere, a failure changes
\* nothing.  Of the globals, that a name goes on meaning the same one.  All this, again,
\* until an object redefines what it inherits.
ObjectMaps == INSTANCE Members WITH
    own <- [o \in Obj |-> [n \in Name |-> IF kind[o] = "object" THEN Own(o, n) ELSE NULL]],
    Definitions <- [n \in Name |-> {Defined(d) : d \in Definitions[n]}
                                     \cup {Native(TRUE, NULL) : m \in {n} \cap Natives}]
ImplementsMembers == ObjectMaps!Init /\ [][through' \/ ObjectMaps!Next]_(ObjectMaps!vars)

\* Nothing deletes a property, so an object goes on having what was once defined on it,
\* through growth, copies, collisions and failures; with one exception.  The write that
\* redefines what an object inherits leaves it with the table of the other object
\* (object.c:426): it then has what that one has, and has forgotten everything else.
ForgetsByRedefining ==
    [][\A o \in Obj, n \in Name : Own(o, n) # NULL =>
         (Own(o, n)' = NULL <=>
            /\ WriteProperty /\ o = pend.obj /\ n # pend.key
            /\ \E x \in Obj : body[x] = pend.table /\ Own(x, n) = NULL)]_vars

\* "length <= capacity" (the assertion of pinta_property_table_should_extend): the count of
\* additions to a table stays within its capacity, whatever they replace.
CountWithinCapacity ==
    (pend.phase = "adding" /\ ~PendSlot.found) => PendTable.length <= PendTable.capacity
=============================================================================
