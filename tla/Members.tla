-------------------------------- MODULE Members --------------------------------
(***************************************************************************)
(* What objects promise a script: each maps names to properties, a name it *)
(* does not have is looked up along its prototypes, and an operation that  *)
(* fails changes nothing.  No tables, no slots, no growth.                 *)
(***************************************************************************)
CONSTANTS Name, Obj, Value, NULL,
          Definitions   \* [Name -> the properties it may be defined as]

VARIABLES proto,    \* [Obj -> Obj \cup {NULL}]
          own,      \* [Obj -> [Name -> a property or NULL]]
          globals   \* values of a module's globals, which its global object names

vars == <<proto, own, globals>>

\* The nearest object of the chain that has the name.
Holder(o, n) == LET holder[x \in Obj \cup {NULL}] ==
                        IF x = NULL \/ own[x][n] # NULL THEN x ELSE holder[proto[x]]
                IN  holder[o]

PlainValue(v) == [kind |-> "value", configurable |-> TRUE, writeable |-> TRUE,
                  value |-> v, get |-> FALSE, set |-> FALSE]

Becomes(o, n, property) == /\ own' = [own EXCEPT ![o][n] = property]
                           /\ UNCHANGED <<proto, globals>>

\* An own value is replaced; an object that finds no accessor and no read-only
\* value along its chain gets a property of its own.
Set(o, n, v) ==
    LET h == Holder(o, n)
    IN  \/ h = o /\ own[o][n].kind = "value" /\ Becomes(o, n, [own[o][n] EXCEPT !.value = v])
        \/ h = NULL /\ Becomes(o, n, PlainValue(v))
        \/ /\ h \notin {o, NULL} /\ own[h][n].kind = "value" /\ own[h][n].writeable
           /\ Becomes(o, n, PlainValue(v))

\* A property that is not configurable, own or inherited, stays.
Define(o, n, property) ==
    /\ Holder(o, n) # NULL => own[Holder(o, n)][n].configurable
    /\ Becomes(o, n, property)

SetGlobal(n, v) == globals' = [globals EXCEPT ![n] = v] /\ UNCHANGED <<proto, own>>

Init == own = [o \in Obj |-> [n \in Name |-> NULL]]

Next == \/ \E o \in Obj, n \in Name : \/ \E v \in Value : Set(o, n, v)
                                      \/ \E d \in Definitions[n] : Define(o, n, d)
        \/ \E n \in DOMAIN globals, v \in Value : SetGlobal(n, v)

Spec == Init /\ [][Next]_vars
=============================================================================
