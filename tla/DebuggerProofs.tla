---------------------------- MODULE DebuggerProofs ----------------------------
(***************************************************************************)
(* Proofs about Debugger, for every number of connections and of parts     *)
(* under way.  NetInv is about the server and its clients, ProgInv about   *)
(* the program; each action of the server has a lemma that says it keeps   *)
(* NetInv, and the actions of the program touch the array of connections   *)
(* in two ways only: they mark an entry dead, or begin an update.          *)
(***************************************************************************)
EXTENDS Debugger, FiniteSetTheorems, TLAPS

-----------------------------------------------------------------------------
(* Numbers *)

\* A set of naturals that is not empty has a least element.
LEMMA LeastExists ==
    ASSUME NEW T \in SUBSET Nat, T # {}
    PROVE  \E x \in T : \A y \in T : x <= y
<1> DEFINE U == {0 .. x : x \in T}
<1>1. IsWellFoundedOn(StrictSubsetOrdering(Nat), FiniteSubsetsOf(Nat))
  BY FS_StrictSubsetOrderingWellFounded
<1>2. U \subseteq FiniteSubsetsOf(Nat) /\ U # {}
  <2>1. ASSUME NEW x \in T PROVE 0 .. x \in SUBSET Nat /\ IsFiniteSet(0 .. x)
    BY FS_Interval
  <2> QED BY <2>1 DEF FiniteSubsetsOf
<1>3. PICK m \in U : \A u \in U : <<u, m>> \notin StrictSubsetOrdering(Nat)
  <2> HIDE DEF U
  <2> QED BY <1>1, <1>2, WFMin
<1>4. PICK x \in T : m = 0 .. x
  OBVIOUS
<1>5. ASSUME NEW y \in T, y < x PROVE FALSE
  <2>1. 0 .. y \in U /\ 0 .. y \subseteq m /\ x \in m /\ x \notin 0 .. y
    BY <1>4, <1>5
  <2>2. <<0 .. y, m>> \in StrictSubsetOrdering(Nat)
    BY <2>1, <1>4 DEF StrictSubsetOrdering
  <2> QED BY <1>3, <2>1, <2>2
<1> QED BY <1>5

NetType ==
    /\ slots \in [Slot -> SlotType] /\ count \in 0 .. MaxConnections
    /\ phase \in {"idle", "serve", "read", "sweep"}
    /\ turn \in 0 .. MaxConnections + 1 /\ (phase = "read" => turn \in InUse)
    /\ peer \in [Socket -> {"free", "open", "left"}]
    /\ \A f \in Socket : inbox[f] \in Seq(Parts) /\ Len(inbox[f]) <= MaxInbox
    /\ DOMAIN inbox = Socket
    /\ backlog \in 0 .. MaxBacklog
    /\ session \in SessionType

\* The server has sockets for the connections it has still to serve, and for all of them
\* between two updates.
Place ==
    /\ phase \in {"serve", "read"} => /\ turn \in 1 .. count + 1
                                      /\ \A i \in turn .. count : slots[i].fd # INVALID
    /\ phase = "idle" => \A i \in InUse : slots[i].fd # INVALID

NetInv == NetType /\ Place /\ OneSession /\ SocketsOwned

ProgInv == /\ prog \in Places /\ next \in Places \cup {"none"}
           /\ prog = "commands" => next \in Places \ {"commands"}

-----------------------------------------------------------------------------
(* Free sockets *)

Free == {f \in Socket : peer[f] = "free"}
FreeUpTo(f) == {g \in 1 .. f : peer[g] = "free"}

\* FreeUpTo grows by one socket at most.
LEMMA FreeUpToGrows ==
    ASSUME NEW f \in Nat
    PROVE  /\ IsFiniteSet(FreeUpTo(f)) /\ Cardinality(FreeUpTo(f)) \in Nat
           /\ Cardinality(FreeUpTo(0)) = 0
           /\ Cardinality(FreeUpTo(f + 1)) =
                Cardinality(FreeUpTo(f)) + (IF peer[f + 1] = "free" THEN 1 ELSE 0)
<1>1. IsFiniteSet(1 .. f) /\ FreeUpTo(f) \in SUBSET (1 .. f)
  BY FS_Interval DEF FreeUpTo
<1>2. IsFiniteSet(FreeUpTo(f)) /\ Cardinality(FreeUpTo(f)) \in Nat
  BY <1>1, FS_Subset, FS_CardinalityType
<1>3. FreeUpTo(0) = {}
  BY DEF FreeUpTo
<1>4. FreeUpTo(f + 1) = IF peer[f + 1] = "free" THEN FreeUpTo(f) \cup {f + 1} ELSE FreeUpTo(f)
  BY DEF FreeUpTo
<1>5. f + 1 \notin FreeUpTo(f)
  BY DEF FreeUpTo
<1>6. Cardinality(FreeUpTo(f + 1)) =
         Cardinality(FreeUpTo(f)) + (IF peer[f + 1] = "free" THEN 1 ELSE 0)
  <2>1. Cardinality(FreeUpTo(f) \cup {f + 1}) = Cardinality(FreeUpTo(f)) + 1
    BY <1>2, <1>5, FS_AddElement
  <2>2. CASE peer[f + 1] = "free"
    BY <2>1, <2>2, <1>4
  <2>3. CASE peer[f + 1] # "free"
    BY <2>3, <1>2, <1>4
  <2> QED BY <2>2, <2>3
<1> QED BY <1>2, <1>3, <1>6, FS_EmptySet

\* accept returns a free socket as long as there is one, another each time.
LEMMA NthFreeIsFree ==
    ASSUME NEW n \in 1 .. Cardinality(Free)
    PROVE  NthFree(n) \in Free /\ Cardinality(FreeUpTo(NthFree(n))) = n
<1> DEFINE T == {f \in Socket : Cardinality(FreeUpTo(f)) >= n}
<1>1. Free = FreeUpTo(MaxConnections)
  BY DEF Free, FreeUpTo, Socket
<1>2. Cardinality(Free) \in Nat /\ MaxConnections \in Socket
  BY <1>1, FreeUpToGrows, DebugServerAssumption DEF Socket
<1>3. T \in SUBSET Nat /\ T # {}
  BY <1>1, <1>2 DEF Socket
<1>4. PICK f \in T : \A g \in T : f <= g
  <2> HIDE DEF T
  <2> QED BY <1>3, LeastExists
<1>5. f \in Socket /\ f \in Nat \ {0} /\ Cardinality(FreeUpTo(f)) >= n
  BY <1>4 DEF Socket
<1>6. Cardinality(FreeUpTo(f - 1)) < n
  <2>1. CASE f = 1
    BY <2>1, FreeUpToGrows
  <2>2. CASE f # 1
    <3>1. f - 1 \in Socket /\ f - 1 \in Nat
      BY <2>2, <1>5, DebugServerAssumption DEF Socket
    <3>2. Cardinality(FreeUpTo(f - 1)) \in Nat
      BY <3>1, FreeUpToGrows
    <3>3. f - 1 \notin T
      BY <1>4, <1>5
    <3> QED BY <3>1, <3>2, <3>3, <1>2
  <2> QED BY <2>1, <2>2
<1>7. Cardinality(FreeUpTo(f)) =
         Cardinality(FreeUpTo(f - 1)) + (IF peer[f] = "free" THEN 1 ELSE 0)
  <2>1. f - 1 \in Nat /\ (f - 1) + 1 = f
    BY <1>5
  <2> QED BY <2>1, FreeUpToGrows
<1>8. Cardinality(FreeUpTo(f)) \in Nat /\ Cardinality(FreeUpTo(f - 1)) \in Nat
  BY <1>5, FreeUpToGrows
<1>9. peer[f] = "free" /\ Cardinality(FreeUpTo(f)) = n
  BY <1>5, <1>6, <1>7, <1>8
<1> DEFINE P(x) == peer[x] = "free" /\ Cardinality({g \in 1 .. x : peer[g] = "free"}) = n
<1>10. P(f)
  BY <1>9 DEF FreeUpTo
<1>11. NthFree(n) = CHOOSE x \in Socket : P(x)
  BY DEF NthFree
<1>12. NthFree(n) \in Socket /\ P(NthFree(n))
  <2> HIDE DEF P
  <2> QED BY <1>5, <1>10, <1>11
<1> QED BY <1>12 DEF Free, FreeUpTo

\* There are enough free sockets for the entries not in use.
LEMMA EnoughFree ==
    ASSUME NetInv
    PROVE  Cardinality(Free) \in Nat /\ MaxConnections - count <= Cardinality(Free)
<1> DEFINE Owned == Socket \ Free
           owner == [f \in Owned |-> CHOOSE i \in SlotOf(f) : TRUE]
<1>1. IsFiniteSet(Socket) /\ Cardinality(Socket) = MaxConnections
  BY FS_Interval, DebugServerAssumption DEF Socket
<1>2. Free \in SUBSET Socket
  BY DEF Free
<1>3. IsFiniteSet(Free) /\ Cardinality(Free) \in Nat
  BY <1>1, <1>2, FS_Subset, FS_CardinalityType
<1>4. Cardinality(Owned) = MaxConnections - Cardinality(Free)
  <2>1. Socket \cap Free = Free
    BY <1>2
  <2> QED BY <1>1, <2>1, FS_Difference
<1>5. count \in Nat /\ IsFiniteSet(InUse) /\ Cardinality(InUse) = count
  BY FS_Interval, DebugServerAssumption DEF NetInv, NetType, InUse
<1>6. \A f \in Owned : owner[f] \in InUse /\ slots[owner[f]].fd = f
  BY DEF Free, NetInv, SocketsOwned, SlotOf
<1>7. owner \in Injection(Owned, InUse)
  <2>1. owner \in [Owned -> InUse]
    BY <1>6
  <2>2. \A f, g \in Owned : owner[f] = owner[g] => f = g
    BY <1>6
  <2> HIDE DEF owner
  <2> QED BY <2>1, <2>2 DEF Injection, IsInjective
<1>8. Cardinality(Owned) <= Cardinality(InUse)
  <2> HIDE DEF owner
  <2> QED BY <1>5, <1>7, FS_Injection
<1> QED BY <1>3, <1>4, <1>5, <1>8, DebugServerAssumption

\* pinta_web_server_on_incoming: the new entries have sockets of their own, that were
\* free, and the others are as they were.
LEMMA Accepted ==
    ASSUME NetInv, AcceptAll
    PROVE  /\ slots' \in [Slot -> SlotType] /\ count' \in count .. MaxConnections
           /\ peer' \in [Socket -> {"free", "open", "left"}] /\ backlog' \in 0 .. MaxBacklog
           /\ \A i \in InUse : slots'[i] = slots[i]
           /\ \A i \in Slot : slots'[i].buffers = slots[i].buffers
           /\ \A i \in InUse' \ InUse : /\ slots'[i].fd \in Free /\ ~slots'[i].ws
                                        /\ \A j \in InUse' \ InUse : slots'[i].fd = slots'[j].fd => i = j
           /\ \A f \in Socket : peer'[f] # "free" <=>
                    peer[f] # "free" \/ \E i \in InUse' \ InUse : slots'[i].fd = f
<1> DEFINE k == IF backlog < MaxConnections - count THEN backlog ELSE MaxConnections - count
           new == [i \in count + 1 .. count + k |-> NthFree(i - count)]
<1>1. slots' = [i \in Slot |-> IF i \in DOMAIN new
                               THEN [slots[i] EXCEPT !.fd = new[i], !.ws = FALSE, !.alive = TRUE]
                               ELSE slots[i]]
  BY DEF AcceptAll
<1>19. peer' = [f \in Socket |-> IF f \in Range(new) THEN "open" ELSE peer[f]]
  BY DEF AcceptAll
<1>20. count' = count + k /\ backlog' = backlog - k
  BY DEF AcceptAll
<1>2. /\ count \in Nat /\ count <= MaxConnections /\ backlog \in Nat /\ backlog <= MaxBacklog
      /\ MaxConnections \in Nat /\ MaxBacklog \in Nat
      /\ slots \in [Slot -> SlotType] /\ peer \in [Socket -> {"free", "open", "left"}]
  BY DebugServerAssumption DEF NetInv, NetType
<1>3. k \in Nat /\ k <= MaxConnections - count /\ k <= backlog
  BY <1>2
<1>4. InUse' \ InUse = count + 1 .. count + k /\ InUse' \subseteq Slot /\ InUse \subseteq Slot
  <2> HIDE DEF k, new
  <2>1. InUse' \ InUse = (1 .. count + k) \ (1 .. count)
    BY <1>20 DEF InUse
  <2> QED BY <1>2, <1>3, <1>20, <2>1 DEF InUse, Slot
<1>5. ASSUME NEW i \in count + 1 .. count + k
      PROVE  new[i] \in Free /\ Cardinality(FreeUpTo(new[i])) = i - count
  <2>1. i - count \in 1 .. Cardinality(Free)
    <3> HIDE DEF k
    <3> QED BY <1>2, <1>3, EnoughFree
  <2> QED BY <2>1, NthFreeIsFree
<1>6. Free \subseteq Socket
  BY DEF Free
<1>7. ASSUME NEW i \in count + 1 .. count + k
      PROVE  slots'[i] = [slots[i] EXCEPT !.fd = new[i], !.ws = FALSE, !.alive = TRUE] /\ i \in Slot
  BY <1>1, <1>4
<1>8. \A i \in Slot : i \notin count + 1 .. count + k => slots'[i] = slots[i]
  BY <1>1
<1>9. Range(new) = {new[i] : i \in count + 1 .. count + k}
  BY DEF Range
<1> HIDE DEF new, k
<1>10. ASSUME NEW i \in count + 1 .. count + k
       PROVE  /\ slots'[i].fd = new[i] /\ slots'[i].ws = FALSE /\ slots'[i].alive = TRUE
              /\ slots'[i].buffers = slots[i].buffers
              /\ slots'[i] \in SlotType
  <2>1. slots[i] \in SlotType /\ new[i] \in Socket
    BY <1>2, <1>5, <1>6, <1>7
  <2>2. slots'[i] = [fd |-> new[i], ws |-> FALSE, alive |-> TRUE, buffers |-> slots[i].buffers]
    BY <1>7, <2>1 DEF SlotType
  <2>3. slots[i].buffers \in Slot
    BY <2>1 DEF SlotType
  <2> QED BY <2>1, <2>2, <2>3 DEF SlotType
<1>11. slots' \in [Slot -> SlotType]
  <2>1. \A i \in Slot : slots'[i] \in SlotType
    BY <1>2, <1>8, <1>10
  <2>2. slots' = [i \in Slot |-> slots'[i]]
    BY <1>1
  <2> QED BY <2>1, <2>2
<1>12. \A i \in InUse : slots'[i] = slots[i]
  BY <1>2, <1>4, <1>8 DEF InUse
<1>13. \A i \in Slot : slots'[i].buffers = slots[i].buffers
  BY <1>8, <1>10
<1>14. ASSUME NEW i \in InUse' \ InUse, NEW j \in InUse' \ InUse, slots'[i].fd = slots'[j].fd
       PROVE  i = j
  <2>1. i - count = j - count
    BY <1>4, <1>5, <1>10, <1>14
  <2> QED BY <2>1, <1>2, <1>3, <1>4
<1>15. ASSUME NEW f \in Socket
       PROVE  peer'[f] # "free" <=>
                  peer[f] # "free" \/ \E i \in InUse' \ InUse : slots'[i].fd = f
  BY <1>4, <1>9, <1>10, <1>19
<1>16. peer' \in [Socket -> {"free", "open", "left"}]
  BY <1>2, <1>19
<1>17. count' \in count .. MaxConnections /\ backlog' \in 0 .. MaxBacklog
  BY <1>2, <1>3, <1>20
<1>18. \A i \in InUse' \ InUse : slots'[i].fd \in Free /\ ~slots'[i].ws
  BY <1>4, <1>5, <1>10
<1> QED BY <1>11, <1>12, <1>13, <1>14, <1>15, <1>16, <1>17, <1>18

-----------------------------------------------------------------------------
(* The array of connections *)

\* The steps that change of the entries only which are alive, downwards.
SameEntries ==
    /\ slots' \in [Slot -> SlotType] /\ count' = count
    /\ \A i \in Slot : /\ slots'[i].fd = slots[i].fd /\ slots'[i].ws = slots[i].ws
                       /\ slots'[i].buffers = slots[i].buffers
                       /\ slots'[i].alive => slots[i].alive

\* The entries in use are entries of the array.
LEMMA InUseInSlot == ASSUME NetType PROVE count \in Nat /\ InUse \subseteq Slot
BY DebugServerAssumption DEF NetType, InUse, Slot

\* A step that leaves the array alone is one.
LEMMA NoEntryChanged == ASSUME NetType, UNCHANGED <<slots, count>> PROVE SameEntries
BY DEF NetType, SameEntries, SlotType

\* So is one that marks an entry dead, or does not.
LEMMA EntryMarked ==
    ASSUME NetType, NEW i \in Slot, NEW dead \in BOOLEAN, count' = count,
           slots' = [slots EXCEPT ![i].alive = @ /\ ~dead]
    PROVE  SameEntries
<1>1. slots \in [Slot -> SlotType] /\ slots[i] \in SlotType
  BY DEF NetType
<1>2. slots'[i] = [slots[i] EXCEPT !.alive = slots[i].alive /\ ~dead]
  BY <1>1
<1>3. \A j \in Slot : j # i => slots'[j] = slots[j]
  BY <1>1
<1>4. /\ slots'[i] \in SlotType /\ slots'[i].fd = slots[i].fd /\ slots'[i].ws = slots[i].ws
      /\ slots'[i].buffers = slots[i].buffers /\ (slots'[i].alive => slots[i].alive)
  BY <1>1, <1>2 DEF SlotType
<1>5. slots' \in [Slot -> SlotType]
  BY <1>1, <1>3, <1>4
<1> QED BY <1>3, <1>4, <1>5 DEF SameEntries

\* Such a step keeps who is the session and whose the sockets are.
LEMMA KeepEntries ==
    ASSUME NetInv, SameEntries, session'.context = session.context,
           \A f \in Socket : peer'[f] # "free" <=> peer[f] # "free"
    PROVE  OneSession' /\ SocketsOwned'
<1>1. InUse' = InUse /\ InUse \subseteq Slot
  BY InUseInSlot DEF NetInv, SameEntries, InUse
<1>2. WebSockets' = WebSockets
  BY <1>1 DEF WebSockets, SameEntries
<1>3. \A f \in Socket : SlotOf(f)' = SlotOf(f)
  BY <1>1 DEF SlotOf, SameEntries
<1>4. OneSession'
  BY <1>2 DEF OneSession, NetInv
<1>5. SocketsOwned'
  <2>1. \A f \in Socket : peer'[f] # "free" <=> SlotOf(f)' # {}
    BY <1>3 DEF SocketsOwned, NetInv
  <2>2. \A i, j \in InUse' : slots'[i].fd = slots'[j].fd /\ slots'[i].fd # INVALID => i = j
    BY <1>1 DEF SocketsOwned, NetInv, SameEntries
  <2>3. \A i \in InUse' : slots'[i].alive => slots'[i].fd # INVALID
    BY <1>1 DEF SocketsOwned, NetInv, SameEntries
  <2> QED BY <2>1, <2>2, <2>3 DEF SocketsOwned
<1> QED BY <1>4, <1>5

\* pinta_web_server_update begins: OneSession and SocketsOwned hold of the new entries too.
LEMMA SelectKeeps == ASSUME NetInv, Select PROVE NetInv'
<1>1. CASE ~Incoming /\ \A f \in Socket : ~Readable(f)
  <2>1. UNCHANGED <<slots, count, phase, turn, peer, inbox, backlog, session>>
    BY <1>1 DEF Select
  <2> QED BY <2>1 DEF NetInv, NetType, Place, OneSession, SocketsOwned, WebSockets, SlotOf, InUse
<1>2. CASE AcceptAll /\ phase' = "serve" /\ turn' = 1 /\ UNCHANGED <<inbox, session>>
  <2>1. /\ slots' \in [Slot -> SlotType] /\ count' \in count .. MaxConnections
        /\ peer' \in [Socket -> {"free", "open", "left"}] /\ backlog' \in 0 .. MaxBacklog
        /\ \A i \in InUse : slots'[i] = slots[i]
        /\ \A i \in InUse' \ InUse : /\ slots'[i].fd \in Free /\ ~slots'[i].ws
                                     /\ \A j \in InUse' \ InUse : slots'[i].fd = slots'[j].fd => i = j
        /\ \A f \in Socket : peer'[f] # "free" <=>
                 peer[f] # "free" \/ \E i \in InUse' \ InUse : slots'[i].fd = f
    BY <1>2, Accepted
  <2>2. count \in Nat /\ count' \in Nat /\ count <= count' /\ MaxConnections \in Nat /\ count' <= MaxConnections
    BY <2>1, DebugServerAssumption DEF NetInv, NetType
  <2>3. InUse \subseteq InUse' /\ InUse' \subseteq Slot
    BY <2>2 DEF InUse, Slot
  <2>4. \A i \in InUse : slots[i].fd # INVALID
    BY DEF Select, NetInv, Place
  <2>5. \A i \in InUse' \ InUse : slots'[i].fd # INVALID /\ slots'[i].fd \in Socket
                              /\ peer[slots'[i].fd] = "free"
    BY <2>1 DEF Free, Socket, INVALID
  <2>6. \A i \in InUse : slots[i].fd \in Socket /\ peer[slots[i].fd] # "free"
    <3>1. \A i \in InUse : slots[i].fd \in Socket
      BY <2>3, <2>4 DEF NetInv, NetType, SlotType
    <3> QED BY <3>1 DEF NetInv, SocketsOwned, SlotOf
  <2>7. NetType'
    BY <1>2, <2>1, <2>2 DEF NetInv, NetType
  <2>8. Place'
    BY <1>2, <2>1, <2>2, <2>3, <2>4, <2>5 DEF Place, InUse
  <2>9. OneSession'
    <3>1. WebSockets' = WebSockets
      BY <2>1, <2>3 DEF WebSockets
    <3> QED BY <1>2, <3>1 DEF NetInv, OneSession
  <2>10. SocketsOwned'
    <3>1. ASSUME NEW f \in Socket PROVE peer'[f] # "free" <=> SlotOf(f)' # {}
      <4>1. SlotOf(f)' = SlotOf(f) \cup {i \in InUse' \ InUse : slots'[i].fd = f}
        BY <2>1, <2>3 DEF SlotOf
      <4> QED BY <2>1, <4>1 DEF NetInv, SocketsOwned
    <3>2. ASSUME NEW i \in InUse', NEW j \in InUse', slots'[i].fd = slots'[j].fd
          PROVE  i = j
      BY <2>1, <2>4, <2>5, <2>6, <3>2 DEF NetInv, SocketsOwned
    <3>3. \A i \in InUse' : slots'[i].fd # INVALID
      BY <2>1, <2>4, <2>5
    <3> QED BY <3>1, <3>2, <3>3 DEF SocketsOwned
  <2> QED BY <2>7, <2>8, <2>9, <2>10 DEF NetInv
<1> QED BY <1>1, <1>2 DEF Select

-----------------------------------------------------------------------------
(* Serving a connection *)

\* The connection served has a socket, and its entry is in use.
LEMMA ServedHasSocket ==
    ASSUME NetInv, Serving \/ phase = "read"
    PROVE  /\ turn \in InUse /\ turn \in Slot /\ Served \in Socket
           /\ turn + 1 \in 1 .. count + 1 /\ turn + 1 \in 0 .. MaxConnections + 1
           /\ peer[Served] # "free" /\ slots[turn] \in SlotType
<1>1. count \in Nat /\ turn \in Nat /\ 1 <= turn /\ turn <= count /\ count <= MaxConnections
  BY DebugServerAssumption DEF NetInv, NetType, Place, Serving, InUse
<1>2. turn \in InUse /\ turn \in Slot /\ turn \in turn .. count
  BY <1>1, DebugServerAssumption DEF InUse, Slot
<1>3. slots[turn] \in SlotType /\ slots[turn].fd # INVALID
  BY <1>2 DEF NetInv, NetType, Place, Serving
<1>4. Served \in Socket
  BY <1>3 DEF SlotType, Served
<1>5. peer[Served] # "free"
  BY <1>2, <1>4 DEF NetInv, SocketsOwned, SlotOf, Served
<1> QED BY <1>1, <1>2, <1>3, <1>4, <1>5, DebugServerAssumption

\* The parts taken from a socket's inbox leave the others.
LEMMA TakeKeeps ==
    ASSUME NetInv, NEW f \in Socket, inbox[f] # <<>>, Take(f)
    PROVE  /\ \A g \in Socket : inbox'[g] \in Seq(Parts) /\ Len(inbox'[g]) <= MaxInbox
           /\ DOMAIN inbox' = Socket
<1>1. inbox[f] \in Seq(Parts) /\ Len(inbox[f]) <= MaxInbox /\ DOMAIN inbox = Socket
  BY DEF NetInv, NetType
<1>2. Tail(inbox[f]) \in Seq(Parts) /\ Len(Tail(inbox[f])) = Len(inbox[f]) - 1 /\ Len(inbox[f]) \in Nat
  BY <1>1
<1>3. inbox' = [inbox EXCEPT ![f] = Tail(inbox[f])]
  BY DEF Take
<1>4. Len(Tail(inbox[f])) <= MaxInbox
  BY <1>1, <1>2, DebugServerAssumption
<1> QED BY <1>1, <1>2, <1>3, <1>4 DEF NetInv, NetType

\* The turn passes on, whatever has been read.
LEMMA EndTurnKeeps ==
    ASSUME NetInv, Serving \/ phase = "read", NEW dead \in BOOLEAN, EndTurn(dead),
           count' = count, peer' = peer, backlog' = backlog,
           session' \in SessionType, session'.context = session.context,
           \A g \in Socket : inbox'[g] \in Seq(Parts) /\ Len(inbox'[g]) <= MaxInbox,
           DOMAIN inbox' = Socket
    PROVE  NetInv'
<1>1. /\ turn \in InUse /\ turn \in Slot
      /\ turn + 1 \in 1 .. count + 1 /\ turn + 1 \in 0 .. MaxConnections + 1
  BY ServedHasSocket
<1>2. slots' = [slots EXCEPT ![turn].alive = @ /\ ~dead] /\ turn' = turn + 1 /\ phase' = "serve"
  BY DEF EndTurn
<1>3. SameEntries
  BY <1>1, <1>2, EntryMarked DEF NetInv
<1>4. OneSession' /\ SocketsOwned'
  BY <1>3, KeepEntries
<1>5. NetType'
  BY <1>1, <1>2, <1>3 DEF NetInv, NetType, SameEntries
<1>6. Place'
  <2>1. \A i \in turn + 1 .. count : i \in turn .. count /\ i \in Slot
    BY <1>1, DebugServerAssumption DEF NetInv, NetType, InUse, Slot
  <2>2. \A i \in turn .. count : slots[i].fd # INVALID
    BY DEF NetInv, Place, Serving
  <2> QED BY <1>1, <1>2, <1>3, <2>1, <2>2 DEF Place, SameEntries
<1> QED BY <1>4, <1>5, <1>6 DEF NetInv

\* It stays, and the entries with it.
LEMMA TurnStays ==
    ASSUME NetInv, Serving \/ phase = "read", phase' \in {"serve", "read"}, turn' = turn,
           slots' = slots, count' = count, peer' = peer, backlog' = backlog,
           session' \in SessionType, session'.context = session.context,
           \A g \in Socket : inbox'[g] \in Seq(Parts) /\ Len(inbox'[g]) <= MaxInbox,
           DOMAIN inbox' = Socket
    PROVE  NetInv'
<1>1. turn \in InUse /\ turn \in 1 .. count + 1
  <2>1. turn \in InUse
    BY ServedHasSocket
  <2> QED BY <2>1 DEF NetInv, Place, Serving
<1>2. SameEntries
  BY NoEntryChanged DEF NetInv
<1>3. OneSession' /\ SocketsOwned'
  BY <1>2, KeepEntries
<1>4. NetType'
  BY <1>1 DEF NetInv, NetType, InUse
<1>5. Place'
  BY <1>1 DEF NetInv, Place, Serving
<1> QED BY <1>3, <1>4, <1>5 DEF NetInv

\* A command does not change which connection is the session's.
LEMMA ExecutedType ==
    ASSUME NetInv, NEW command
    PROVE  Executed(command) \in SessionType /\ Executed(command).context = session.context
<1>1. session \in SessionType
  BY DEF NetInv, NetType
<1> QED BY <1>1 DEF Executed, SessionType

\* A connection from which nothing has come.
LEMMA PassOverKeeps == ASSUME NetInv, PassOver PROVE NetInv'
<1>1. Serving /\ EndTurn(FALSE) /\ UNCHANGED <<count, clientVars, session>>
  BY DEF PassOver
<1> QED BY <1>1, EndTurnKeeps DEF NetInv, NetType, clientVars

\* A client that has left.
LEMMA LosePeerKeeps == ASSUME NetInv, LosePeer PROVE NetInv'
<1>1. Serving /\ EndTurn(TRUE) /\ UNCHANGED <<count, clientVars, session>>
  BY DEF LosePeer
<1> QED BY <1>1, EndTurnKeeps DEF NetInv, NetType, clientVars

\* A request that is refused.
LEMMA RejectKeeps == ASSUME NetInv, Reject PROVE NetInv'
<1>1. /\ Serving /\ Served \in Socket /\ inbox[Served] # <<>> /\ Take(Served) /\ EndTurn(TRUE)
      /\ UNCHANGED <<count, peer, backlog, session>>
  BY ServedHasSocket DEF Reject, Waiting
<1> QED BY <1>1, EndTurnKeeps, TakeKeeps DEF NetInv, NetType

\* The header of a frame.
LEMMA BeginReadKeeps == ASSUME NetInv, BeginRead PROVE NetInv'
<1>1. /\ Serving /\ Served \in Socket /\ inbox[Served] # <<>> /\ Take(Served)
      /\ UNCHANGED <<count, peer, backlog, session>>
  BY ServedHasSocket DEF BeginRead, Waiting
<1>2. /\ \A g \in Socket : inbox'[g] \in Seq(Parts) /\ Len(inbox'[g]) <= MaxInbox
      /\ DOMAIN inbox' = Socket /\ session' \in SessionType
  BY <1>1, TakeKeeps DEF NetInv, NetType
<1>3. CASE EndTurn(TRUE)
  BY <1>1, <1>2, <1>3, EndTurnKeeps
<1>4. CASE phase' = "read" /\ UNCHANGED <<slots, turn>>
  BY <1>1, <1>2, <1>4, TurnStays
<1> QED BY <1>3, <1>4 DEF BeginRead

\* The rest of a frame, and its command.
LEMMA ReadKeeps == ASSUME NetInv, Read PROVE NetInv'
<1>1. phase = "read" /\ Served \in Socket /\ inbox[Served] # <<>> /\ Take(Served)
  BY ServedHasSocket DEF Read
<1>2. /\ session' \in SessionType /\ session'.context = session.context
      /\ UNCHANGED <<count, peer, backlog>>
  BY ExecutedType DEF Read
<1>3. /\ \A g \in Socket : inbox'[g] \in Seq(Parts) /\ Len(inbox'[g]) <= MaxInbox
      /\ DOMAIN inbox' = Socket
  BY <1>1, TakeKeeps
<1>4. CASE EndTurn(TRUE)
  BY <1>1, <1>2, <1>3, <1>4, EndTurnKeeps
<1>5. CASE phase' = "serve" /\ UNCHANGED <<slots, turn>>
  BY <1>1, <1>2, <1>3, <1>5, TurnStays
<1> QED BY <1>4, <1>5 DEF Read

\* The rest that will not come.
LEMMA ReadResetKeeps == ASSUME NetInv, ReadReset PROVE NetInv'
<1>1. phase = "read" /\ EndTurn(TRUE) /\ UNCHANGED <<count, clientVars, session>>
  BY DEF ReadReset, Hung
<1> QED BY <1>1, EndTurnKeeps DEF NetInv, NetType, clientVars

\* The one web socket is the session's.
LEMMA UpgradeKeeps == ASSUME NetInv, Upgrade PROVE NetInv'
<1>1. /\ Serving /\ Served \in Socket /\ inbox[Served] # <<>> /\ Take(Served)
      /\ UNCHANGED <<count, phase, turn, peer, backlog>>
      /\ turn \in InUse /\ turn \in Slot /\ slots[turn] \in SlotType /\ ~slots[turn].ws
  BY ServedHasSocket DEF Upgrade, Waiting
<1>2. /\ \A g \in Socket : inbox'[g] \in Seq(Parts) /\ Len(inbox'[g]) <= MaxInbox
      /\ DOMAIN inbox' = Socket
  BY <1>1, TakeKeeps
<1>3. CASE UNCHANGED <<slots, session>>
  BY <1>1, <1>2, <1>3, TurnStays DEF Serving, NetInv, NetType
<1>4. CASE OnWsConnect /\ slots' = [slots EXCEPT ![turn].ws = TRUE] /\ session' = OnWsConnected(turn)
  <2>1. slots \in [Slot -> SlotType] /\ session \in SessionType /\ InUse' = InUse /\ InUse \subseteq Slot
    BY <1>1, InUseInSlot DEF NetInv, NetType, InUse
  <2>2. /\ slots'[turn] \in SlotType /\ slots'[turn].ws /\ slots'[turn].fd = slots[turn].fd
        /\ slots'[turn].alive = slots[turn].alive
    BY <1>1, <1>4, <2>1 DEF SlotType
  <2>3. \A i \in Slot : i # turn => slots'[i] = slots[i]
    BY <1>1, <1>4, <2>1
  <2>4. slots' \in [Slot -> SlotType]
    BY <1>4, <2>1, <2>2, <2>3
  <2>5. session' \in SessionType /\ session'.context = turn
    BY <1>1, <1>4, <2>1 DEF OnWsConnected, SessionType
  <2>6. NetType'
    BY <1>1, <1>2, <2>1, <2>4, <2>5 DEF NetInv, NetType
  <2>7. Place'
    BY <1>1, <2>1, <2>2, <2>3 DEF NetInv, Place, Serving, InUse, Slot, NetType
  <2>8. OneSession'
    <3>1. WebSockets = {}
      BY <1>4 DEF OnWsConnect, NetInv, OneSession
    <3>2. WebSockets' = {turn}
      BY <1>1, <2>1, <2>2, <2>3, <3>1 DEF WebSockets
    <3>3. turn # NULL
      BY <1>1 DEF Slot, NULL
    <3> QED BY <2>5, <3>2, <3>3 DEF OneSession
  <2>9. SocketsOwned'
    <3>1. \A f \in Socket : SlotOf(f)' = SlotOf(f)
      BY <2>1, <2>2, <2>3 DEF SlotOf
    <3> QED BY <1>1, <2>1, <2>2, <2>3, <3>1 DEF NetInv, SocketsOwned
  <2> QED BY <2>6, <2>7, <2>8, <2>9 DEF NetInv
<1> QED BY <1>3, <1>4 DEF Upgrade

\* The socket closed is the served one's alone.
LEMMA EndRequestKeeps == ASSUME NetInv, EndRequest PROVE NetInv'
<1>1. /\ Serving /\ Served \in Socket /\ turn \in InUse /\ turn \in Slot /\ slots[turn] \in SlotType
      /\ ~slots[turn].ws /\ slots[turn].fd = Served
      /\ turn + 1 \in 1 .. count + 1 /\ turn + 1 \in 0 .. MaxConnections + 1
  BY ServedHasSocket DEF EndRequest, Waiting, Served
<1>2. /\ slots' = [slots EXCEPT ![turn] = ClosedSlot(@)]
      /\ peer' = [peer EXCEPT ![Served] = "free"]
      /\ inbox' = [inbox EXCEPT ![Served] = <<>>]
      /\ turn' = turn + 1
      /\ UNCHANGED <<count, phase, backlog, session>>
  BY DEF EndRequest
<1>3. slots \in [Slot -> SlotType] /\ InUse' = InUse /\ InUse \subseteq Slot
  BY <1>2, InUseInSlot DEF NetInv, NetType, InUse
<1>4. /\ slots'[turn] \in SlotType /\ ~slots'[turn].ws /\ slots'[turn].fd = INVALID
      /\ ~slots'[turn].alive
  BY <1>1, <1>2, <1>3 DEF SlotType, ClosedSlot
<1>5. \A i \in Slot : i # turn => slots'[i] = slots[i]
  BY <1>2, <1>3
<1>6. NetType'
  <2>1. slots' \in [Slot -> SlotType]
    BY <1>2, <1>3, <1>4, <1>5
  <2>2. \A g \in Socket : inbox'[g] \in Seq(Parts) /\ Len(inbox'[g]) <= MaxInbox
    <3>1. <<>> \in Seq(Parts) /\ Len(<<>>) <= MaxInbox
      BY DebugServerAssumption
    <3> QED BY <1>1, <1>2, <3>1 DEF NetInv, NetType
  <2>3. DOMAIN inbox' = Socket
    BY <1>2 DEF NetInv, NetType
  <2> QED BY <1>1, <1>2, <2>1, <2>2, <2>3 DEF NetInv, NetType, Serving
<1>7. Place'
  <2>1. \A i \in turn + 1 .. count : i \in turn .. count /\ i # turn /\ i \in Slot
    BY <1>1, DebugServerAssumption DEF NetInv, NetType, InUse, Slot
  <2> QED BY <1>1, <1>2, <1>5, <2>1 DEF NetInv, Place, Serving
<1>8. OneSession'
  <2>1. WebSockets' = WebSockets
    BY <1>1, <1>3, <1>4, <1>5 DEF WebSockets
  <2> QED BY <1>2, <2>1 DEF NetInv, OneSession
<1>9. SocketsOwned'
  <2>1. \A i \in InUse : slots[i].fd = Served => i = turn
    BY <1>1 DEF NetInv, SocketsOwned, Socket, INVALID
  <2>2. ASSUME NEW f \in Socket PROVE peer'[f] # "free" <=> SlotOf(f)' # {}
    <3>1. CASE f = Served
      <4>1. peer'[f] = "free"
        BY <1>2, <3>1 DEF NetInv, NetType
      <4>2. \A i \in InUse' : slots'[i].fd # f
        BY <1>3, <1>4, <1>5, <2>1, <3>1 DEF Socket, INVALID
      <4> QED BY <4>1, <4>2 DEF SlotOf
    <3>2. CASE f # Served
      <4>1. SlotOf(f)' = SlotOf(f)
        BY <1>1, <1>3, <1>4, <1>5, <3>2 DEF SlotOf, Socket, INVALID
      <4> QED BY <1>2, <3>2, <4>1 DEF NetInv, NetType, SocketsOwned
    <3> QED BY <3>1, <3>2
  <2>3. \A i, j \in InUse' : slots'[i].fd = slots'[j].fd /\ slots'[i].fd # INVALID => i = j
    BY <1>3, <1>4, <1>5 DEF NetInv, SocketsOwned
  <2>4. \A i \in InUse' : slots'[i].alive => slots'[i].fd # INVALID
    BY <1>3, <1>4, <1>5 DEF NetInv, SocketsOwned
  <2> QED BY <2>2, <2>3, <2>4 DEF SocketsOwned
<1> QED BY <1>6, <1>7, <1>8, <1>9 DEF NetInv

\* The dead are to be closed, if there are any.
LEMMA EndServeKeeps == ASSUME NetInv, EndServe PROVE NetInv'
<1>1. /\ phase' \in {"idle", "sweep"} /\ turn' = 0 /\ UNCHANGED <<slots, count, clientVars, session>>
      /\ phase' = "idle" => \A i \in InUse : slots[i].alive
  BY DEF EndServe
<1>2. SameEntries
  BY <1>1, NoEntryChanged DEF NetInv
<1>3. OneSession' /\ SocketsOwned'
  BY <1>1, <1>2, KeepEntries DEF clientVars
<1>4. NetType'
  BY <1>1, DebugServerAssumption DEF NetInv, NetType, clientVars
<1>5. Place'
  BY <1>1 DEF NetInv, Place, SocketsOwned, InUse
<1> QED BY <1>3, <1>4, <1>5 DEF NetInv

-----------------------------------------------------------------------------
(* Closing a connection *)

\* connection_close and memmove: the entries in use after it are the others, in order,
\* those after i one place further down.
LEMMA RemovedEntries ==
    ASSUME NetInv, NEW i \in InUse, Sweep(i)
    PROVE  /\ slots' \in [Slot -> SlotType] /\ count' = count - 1 /\ count \in Nat \ {0}
           /\ i \in Slot /\ InUse \subseteq Slot /\ InUse' = 1 .. count - 1
           /\ \A k \in InUse' : k < i => k \in InUse /\ slots'[k] = slots[k]
           /\ \A k \in InUse' : k >= i => k + 1 \in InUse /\ slots'[k] = slots[k + 1]
           /\ \A k \in InUse : k < i => k \in InUse' /\ slots'[k] = slots[k]
           /\ \A k \in InUse : k > i => k - 1 \in InUse' /\ slots'[k - 1] = slots[k]
<1>1. slots' = Removed(i) /\ count' = count - 1
  BY DEF Sweep
<1>2. /\ slots \in [Slot -> SlotType] /\ count \in Nat /\ count <= MaxConnections /\ MaxConnections \in Nat
      /\ i \in 1 .. count /\ InUse \subseteq Slot /\ i \in Slot
  BY InUseInSlot, DebugServerAssumption DEF NetInv, NetType, InUse
<1>3. InUse' = 1 .. count - 1 /\ InUse = 1 .. count /\ Slot = 1 .. MaxConnections
  BY <1>1 DEF InUse, Slot
<1>4. \A k \in Slot : k < i => slots'[k] = slots[k]
  BY <1>1, <1>2, <1>3 DEF Removed
<1>5. \A k \in Slot : k >= i /\ k < count => slots'[k] = slots[k + 1]
  BY <1>1 DEF Removed
<1>6. slots' \in [Slot -> SlotType]
  <2>1. \A k \in Slot : slots[k] \in SlotType /\ ClosedSlot(slots[k]) \in SlotType
    <3>1. ASSUME NEW s \in SlotType PROVE ClosedSlot(s) \in SlotType
      BY DEF ClosedSlot, SlotType, INVALID
    <3> QED BY <1>2, <3>1
  <2>2. \A k \in Slot : k < count => k + 1 \in Slot
    BY <1>2, <1>3
  <2> QED BY <1>1, <2>1, <2>2 DEF Removed
<1>7. \A k \in InUse' : k < i => k \in InUse /\ slots'[k] = slots[k]
  BY <1>2, <1>3, <1>4
<1>8. \A k \in InUse' : k >= i => k + 1 \in InUse /\ slots'[k] = slots[k + 1]
  BY <1>2, <1>3, <1>5
<1>9. \A k \in InUse : k < i => k \in InUse' /\ slots'[k] = slots[k]
  BY <1>2, <1>3, <1>4
<1>10. ASSUME NEW k \in InUse, k > i PROVE k - 1 \in InUse' /\ slots'[k - 1] = slots[k]
  <2>1. k - 1 \in InUse' /\ k - 1 \in Slot /\ k - 1 >= i /\ k - 1 < count /\ (k - 1) + 1 = k
    BY <1>2, <1>3, <1>10
  <2> QED BY <1>5, <2>1
<1> QED BY <1>1, <1>2, <1>3, <1>6, <1>7, <1>8, <1>9, <1>10

\* One is closed: the entry removed was the session's exactly if it had the web socket, and
\* its socket was nobody else's.
LEMMA SweepKeeps == ASSUME NetInv, NEW i \in Slot, Sweep(i) PROVE NetInv'
<1>1. /\ phase = "sweep" /\ i \in InUse /\ ~slots[i].alive /\ \A k \in 1 .. i - 1 : slots[k].alive
      /\ session' = IF slots[i].ws THEN OnWsClosed(i) ELSE session
      /\ peer' = [f \in Socket |-> IF f = slots[i].fd THEN "free" ELSE peer[f]]
      /\ inbox' = [f \in Socket |-> IF f = slots[i].fd THEN <<>> ELSE inbox[f]]
      /\ phase' = IF \A k \in i + 1 .. count : slots[k].alive THEN "idle" ELSE "sweep"
      /\ UNCHANGED <<turn, backlog>>
  BY DEF Sweep
<1>2. /\ slots' \in [Slot -> SlotType] /\ count' = count - 1 /\ count \in Nat \ {0}
      /\ InUse \subseteq Slot /\ InUse' = 1 .. count - 1
  BY <1>1, RemovedEntries
<1>3. /\ \A k \in InUse' : k < i => k \in InUse /\ slots'[k] = slots[k]
      /\ \A k \in InUse' : k >= i => k + 1 \in InUse /\ slots'[k] = slots[k + 1]
  BY <1>1, RemovedEntries
<1>4. /\ \A k \in InUse : k < i => k \in InUse' /\ slots'[k] = slots[k]
      /\ \A k \in InUse : k > i => k - 1 \in InUse' /\ slots'[k - 1] = slots[k]
  BY <1>1, RemovedEntries
<1>5. InUse \subseteq Int /\ InUse' \subseteq Int /\ i \in Int
  BY <1>1, <1>2 DEF InUse
<1> DEFINE Old(x) == IF x < i THEN x ELSE x + 1
<1>11. \A x \in InUse' : Old(x) \in InUse /\ slots'[x] = slots[Old(x)] /\ Old(x) # i
  BY <1>3, <1>5
<1>12. \A x, y \in InUse' : Old(x) = Old(y) => x = y
  BY <1>5
<1>6. session' \in SessionType /\ session'.context = IF slots[i].ws THEN NULL ELSE session.context
  BY <1>1 DEF OnWsClosed, NetInv, NetType, SessionType
<1>7. NetType'
  <2>1. \A g \in Socket : inbox'[g] \in Seq(Parts) /\ Len(inbox'[g]) <= MaxInbox
    <3>1. <<>> \in Seq(Parts) /\ Len(<<>>) <= MaxInbox
      BY DebugServerAssumption
    <3> QED BY <1>1, <3>1 DEF NetInv, NetType
  <2>2. count' \in 0 .. MaxConnections
    BY <1>2, DebugServerAssumption DEF NetInv, NetType
  <2>3. peer' \in [Socket -> {"free", "open", "left"}]
    BY <1>1 DEF NetInv, NetType
  <2> QED BY <1>1, <1>2, <1>6, <2>1, <2>2, <2>3 DEF NetInv, NetType
<1>8. Place'
  <2>1. ASSUME phase' = "idle", NEW k \in InUse' PROVE slots'[k].fd # INVALID
    <3>1. \A j \in InUse : j # i => slots[j].alive
      BY <1>1, <1>2, <2>1 DEF InUse
    <3>2. \A j \in InUse : j # i => slots[j].fd # INVALID
      BY <3>1 DEF NetInv, SocketsOwned
    <3> HIDE DEF Old
    <3> QED BY <1>11, <2>1, <3>2
  <2> QED BY <1>1, <2>1 DEF Place
<1>9. OneSession'
  <2>1. ASSUME NEW k \in WebSockets', NEW l \in WebSockets' PROVE k = l /\ ~slots[i].ws
    <3>1. Old(k) \in WebSockets /\ Old(l) \in WebSockets /\ Old(k) # i /\ k \in InUse' /\ l \in InUse'
      <4> HIDE DEF Old
      <4> QED BY <1>11 DEF WebSockets
    <3>2. Old(k) = Old(l) /\ ~slots[i].ws
      <4> HIDE DEF Old
      <4> QED BY <1>1, <3>1 DEF NetInv, OneSession, WebSockets
    <3> QED BY <1>12, <3>1, <3>2
  <2>2. ASSUME ~slots[i].ws, WebSockets # {} PROVE WebSockets' # {}
    <3>1. PICK m \in WebSockets : TRUE
      BY <2>2
    <3>2. m \in InUse /\ slots[m].ws /\ m # i
      BY <2>2 DEF WebSockets
    <3>3. CASE m < i
      BY <1>4, <3>2, <3>3 DEF WebSockets
    <3>4. CASE m > i
      BY <1>4, <3>2, <3>4 DEF WebSockets
    <3> QED BY <1>5, <3>2, <3>3, <3>4
  <2>3. CASE slots[i].ws
    <3>1. WebSockets' = {}
      BY <2>1, <2>3
    <3> QED BY <1>6, <2>3, <3>1 DEF OneSession
  <2>4. CASE ~slots[i].ws
    <3>1. WebSockets' # {} => WebSockets # {}
      <4> HIDE DEF Old
      <4> QED BY <1>11 DEF WebSockets
    <3>2. (session'.context # NULL) <=> (WebSockets' # {})
      BY <1>6, <2>2, <2>4, <3>1 DEF NetInv, OneSession
    <3> QED BY <2>1, <3>2 DEF OneSession
  <2> QED BY <2>3, <2>4
<1>10. SocketsOwned'
  <2>1. ASSUME NEW f \in Socket, f # slots[i].fd PROVE SlotOf(f)' # {} <=> SlotOf(f) # {}
    <3>1. ASSUME NEW k \in InUse', slots'[k].fd = f PROVE SlotOf(f) # {}
      <4> HIDE DEF Old
      <4> QED BY <1>11, <3>1 DEF SlotOf
    <3>2. ASSUME NEW k \in InUse, slots[k].fd = f PROVE SlotOf(f)' # {}
      <4>1. k # i
        BY <2>1, <3>2
      <4>2. CASE k < i
        BY <1>4, <3>2, <4>2 DEF SlotOf
      <4>3. CASE k > i
        BY <1>4, <3>2, <4>3 DEF SlotOf
      <4> QED BY <1>5, <4>1, <4>2, <4>3
    <3> QED BY <3>1, <3>2 DEF SlotOf
  <2>2. ASSUME NEW k \in InUse', NEW l \in InUse', slots'[k].fd = slots'[l].fd,
               slots'[k].fd # INVALID
        PROVE  k = l /\ slots'[k].fd # slots[i].fd
    <3>1. Old(k) = Old(l) /\ slots[Old(k)].fd # slots[i].fd /\ slots'[k] = slots[Old(k)]
      <4> HIDE DEF Old
      <4> QED BY <1>1, <1>11, <2>2 DEF NetInv, SocketsOwned
    <3> QED BY <1>12, <2>2, <3>1
  <2>3. ASSUME NEW k \in InUse', slots'[k].alive PROVE slots'[k].fd # INVALID
    <3> HIDE DEF Old
    <3> QED BY <1>11, <2>3 DEF NetInv, SocketsOwned
  <2>4. ASSUME NEW f \in Socket PROVE peer'[f] # "free" <=> SlotOf(f)' # {}
    <3>1. CASE f = slots[i].fd
      <4>1. peer'[f] = "free"
        BY <1>1, <3>1
      <4>2. \A k \in InUse' : slots'[k].fd # f
        BY <2>2, <3>1 DEF Socket, INVALID
      <4> QED BY <4>1, <4>2 DEF SlotOf
    <3>2. CASE f # slots[i].fd
      BY <1>1, <2>1, <3>2 DEF NetInv, SocketsOwned
    <3> QED BY <3>1, <3>2
  <2>5. \A k, l \in InUse' : slots'[k].fd = slots'[l].fd /\ slots'[k].fd # INVALID => k = l
    BY <2>2
  <2>6. \A k \in InUse' : slots'[k].alive => slots'[k].fd # INVALID
    BY <2>3
  <2> QED BY <2>4, <2>5, <2>6 DEF SocketsOwned
<1> QED BY <1>7, <1>8, <1>9, <1>10 DEF NetInv

-----------------------------------------------------------------------------
(* The whole server, the clients and the program *)

\* All of pinta_web_server_update after it begins.
LEMMA UpdateKeeps == ASSUME NetInv, Update PROVE NetInv'
BY PassOverKeeps, LosePeerKeeps, EndRequestKeeps, UpgradeKeeps, BeginReadKeeps, RejectKeeps,
   ReadKeeps, EndServeKeeps, SweepKeeps DEF Update

\* What the clients do touches neither the array nor the session.
LEMMA ClientsKeep == ASSUME NetInv, Clients PROVE NetInv'
<1>1. UNCHANGED <<serverVars, session>>
  BY DEF Clients, Arrive, Disturb, Leave, SendFrame, SendRequest, SendCommand, Send
<1>2. /\ peer' \in [Socket -> {"free", "open", "left"}]
      /\ \A f \in Socket : peer'[f] # "free" <=> peer[f] # "free"
  <2>1. peer \in [Socket -> {"free", "open", "left"}]
    BY DEF NetInv, NetType
  <2>2. CASE peer' = peer
    BY <2>1, <2>2
  <2>3. CASE \E f \in Socket : peer[f] = "open" /\ peer' = [peer EXCEPT ![f] = "left"]
    BY <2>1, <2>3
  <2> QED
    BY <2>2, <2>3 DEF Clients, Arrive, Disturb, Leave, SendFrame, SendRequest, SendCommand, Send
<1>3. backlog' \in 0 .. MaxBacklog
  <2>1. backlog \in 0 .. MaxBacklog /\ MaxBacklog \in Nat
    BY DebugServerAssumption DEF NetInv, NetType
  <2>2. backlog' = backlog \/ (backlog < MaxBacklog /\ backlog' = backlog + 1)
    BY DEF Clients, Arrive, Disturb, Leave, SendFrame, SendRequest, SendCommand, Send
  <2> QED BY <2>1, <2>2
<1>4. /\ \A g \in Socket : inbox'[g] \in Seq(Parts) /\ Len(inbox'[g]) <= MaxInbox
      /\ DOMAIN inbox' = Socket
  <2>1. CASE inbox' = inbox
    BY <2>1 DEF NetInv, NetType
  <2>2. CASE \E f \in Socket, part \in Parts :
               Len(inbox[f]) < MaxInbox /\ inbox' = [inbox EXCEPT ![f] = Append(@, part)]
    <3>1. PICK f \in Socket, part \in Parts :
               Len(inbox[f]) < MaxInbox /\ inbox' = [inbox EXCEPT ![f] = Append(inbox[f], part)]
      BY <2>2
    <3>2. inbox[f] \in Seq(Parts) /\ DOMAIN inbox = Socket
      BY DEF NetInv, NetType
    <3>3. /\ Append(inbox[f], part) \in Seq(Parts) /\ Len(inbox[f]) \in Nat
          /\ Len(Append(inbox[f], part)) = Len(inbox[f]) + 1
      BY <3>2
    <3>4. Len(Append(inbox[f], part)) <= MaxInbox
      BY <3>1, <3>3, DebugServerAssumption
    <3> QED BY <3>1, <3>2, <3>3, <3>4 DEF NetInv, NetType
  <2>3. \A f \in Socket, part \in Parts : Send(f, part) =>
          Len(inbox[f]) < MaxInbox /\ inbox' = [inbox EXCEPT ![f] = Append(@, part)]
    BY DEF Send
  <2>4. \/ inbox' = inbox
        \/ \E f \in Socket, part \in Parts : Send(f, part)
    BY DEF Clients, Arrive, Disturb, Leave, SendFrame, SendRequest, SendCommand, Parts, Requests, Commands
  <2> QED BY <2>1, <2>2, <2>3, <2>4
<1>5. SameEntries
  BY <1>1, NoEntryChanged DEF NetInv, serverVars
<1>6. OneSession' /\ SocketsOwned'
  BY <1>1, <1>2, <1>5, KeepEntries
<1>7. NetType'
  BY <1>1, <1>2, <1>3, <1>4 DEF NetInv, NetType, serverVars, InUse
<1>8. Place'
  BY <1>1 DEF NetInv, Place, serverVars, InUse
<1> QED BY <1>6, <1>7, <1>8 DEF NetInv

\* What the program does to the server outside of its updates: it writes to the client.
LEMMA WrittenMarks ==
    ASSUME NetInv, Written, Unserved
    PROVE  SameEntries /\ UNCHANGED <<phase, turn, peer, inbox, backlog>>
<1>1. count' = count /\ UNCHANGED <<phase, turn, peer, inbox, backlog>>
  BY DEF Unserved, clientVars
<1>2. CASE session.context = NULL
  BY <1>1, <1>2, NoEntryChanged DEF Written, NetInv
<1>3. CASE session.context # NULL
  <2>1. session.context \in Slot
    BY <1>3 DEF NetInv, NetType, SessionType
  <2>2. PICK fails \in BOOLEAN : slots' = [slots EXCEPT ![session.context].alive = @ /\ ~fails]
    BY <1>3 DEF Written
  <2> QED BY <1>1, <2>1, <2>2, EntryMarked DEF NetInv
<1> QED BY <1>1, <1>2, <1>3

\* Whatever changes of the session besides its context.
LEMMA ProgramKeeps ==
    ASSUME NetInv, SameEntries, UNCHANGED <<phase, turn, peer, inbox, backlog>>,
           session' \in SessionType, session'.context = session.context
    PROVE  NetInv'
<1>1. InUse' = InUse /\ InUse \subseteq Slot
  BY InUseInSlot DEF NetInv, SameEntries, InUse
<1>2. OneSession' /\ SocketsOwned'
  BY KeepEntries
<1>3. NetType'
  BY <1>1 DEF NetInv, NetType, SameEntries
<1>4. Place'
  <2>1. \A i \in InUse : slots'[i].fd = slots[i].fd
    BY <1>1 DEF SameEntries
  <2>2. turn \in 1 .. count + 1 => turn .. count \subseteq InUse
    BY InUseInSlot DEF NetInv, InUse
  <2> QED BY <1>1, <2>1, <2>2 DEF NetInv, Place, SameEntries
<1> QED BY <1>2, <1>3, <1>4 DEF NetInv

\* An event is written to the client, and the program may stop.
LEMMA RaiseKeeps ==
    ASSUME NetInv, ProgInv, NEW return \in Places \ {"commands"}, Raise(return)
    PROVE  NetInv' /\ ProgInv'
<1>1. SameEntries /\ UNCHANGED <<phase, turn, peer, inbox, backlog>>
  BY WrittenMarks DEF Raise
<1>2. session' \in SessionType /\ session'.context = session.context
  BY DEF Raise, NetInv, NetType, SessionType
<1>3. ProgInv'
  BY DEF Raise, ProgInv, Places
<1> QED BY <1>1, <1>2, <1>3, ProgramKeeps

\* Every step of the program.
LEMMA ProgramStepKeeps == ASSUME NetInv, ProgInv, Program PROVE NetInv' /\ ProgInv'
<1>1. CASE EndWait
  <2>1. /\ SameEntries /\ UNCHANGED <<phase, turn, peer, inbox, backlog>>
        /\ session' \in SessionType /\ session'.context = session.context
    BY <1>1, NoEntryChanged DEF EndWait, Unserved, clientVars, NetInv, NetType, SessionType
  <2>2. ProgInv'
    BY <1>1 DEF EndWait, Goto, ProgInv, Places
  <2> QED BY <2>1, <2>2, ProgramKeeps
<1>2. CASE LoadDomain
  BY <1>2, RaiseKeeps DEF LoadDomain, Places
<1>3. CASE BeginInstruction
  <2>1. SameEntries /\ UNCHANGED <<phase, turn, peer, inbox, backlog>>
    BY <1>3, WrittenMarks DEF BeginInstruction
  <2>2. session' \in SessionType /\ session'.context = session.context
    BY <1>3 DEF BeginInstruction, NetInv, NetType, SessionType
  <2>3. ProgInv'
    BY <1>3 DEF BeginInstruction, Goto, ProgInv, Places
  <2> QED BY <2>1, <2>2, <2>3, ProgramKeeps
<1>4. CASE InstructionEvent
  BY <1>4, RaiseKeeps DEF InstructionEvent, Places
<1>5. CASE EndInstruction
  <2>1. CASE Select /\ \E place \in {"run", "exit"} : Goto(place)
    BY <2>1, SelectKeeps DEF Goto, ProgInv, Places
  <2>2. CASE Goto("exit") /\ Unserved /\ UNCHANGED <<slots, session>>
    <3>1. /\ SameEntries /\ UNCHANGED <<phase, turn, peer, inbox, backlog>>
          /\ session' \in SessionType /\ session'.context = session.context
      BY <2>2, NoEntryChanged DEF Unserved, clientVars, NetInv, NetType
    <3>2. ProgInv'
      BY <2>2 DEF Goto, ProgInv, Places
    <3> QED BY <3>1, <3>2, ProgramKeeps
  <2> QED BY <1>5, <2>1, <2>2 DEF EndInstruction
<1>6. CASE EndCommands
  <2>1. /\ SameEntries /\ UNCHANGED <<phase, turn, peer, inbox, backlog>>
        /\ session' \in SessionType /\ session'.context = session.context
    BY <1>6, NoEntryChanged DEF EndCommands, Unserved, clientVars, NetInv, NetType
  <2>2. prog = "commands" /\ prog' = next /\ next' = "none"
    BY <1>6 DEF EndCommands, Idle
  <2>3. ProgInv'
    BY <2>2 DEF ProgInv, Places
  <2> QED BY <2>1, <2>3, ProgramKeeps
<1>7. CASE Suspended
  BY <1>7, SelectKeeps DEF Suspended, Goto, ProgInv, Places
<1>8. CASE Exit
  BY <1>8, RaiseKeeps DEF Exit, Places
<1>9. CASE CallServer
  BY <1>9, SelectKeeps DEF CallServer, ProgInv
<1> QED BY <1>1, <1>2, <1>3, <1>4, <1>5, <1>6, <1>7, <1>8, <1>9 DEF Program

IInv == NetInv /\ ProgInv

\* The invariant holds at the start.
LEMMA InitIInv == Init => IInv
<1> SUFFICES ASSUME Init PROVE IInv
  OBVIOUS
<1>1. InUse = {} /\ WebSockets = {} /\ \A f \in Socket : SlotOf(f) = {}
  BY DEF Init, ServerInit, InUse, WebSockets, SlotOf
<1>2. NetType
  <2>1. slots \in [Slot -> SlotType]
    BY DEF Init, ServerInit, SlotType
  <2>2. \A f \in Socket : inbox[f] \in Seq(Parts) /\ Len(inbox[f]) <= MaxInbox
    <3>1. <<>> \in Seq(Parts) /\ Len(<<>>) <= MaxInbox
      BY DebugServerAssumption
    <3> QED BY <3>1 DEF Init, ServerInit
  <2>3. session \in SessionType
    BY DEF Init, SessionType
  <2> QED BY <2>1, <2>2, <2>3, DebugServerAssumption DEF Init, ServerInit, NetType
<1>3. Place
  BY <1>1 DEF Init, ServerInit, Place
<1>4. OneSession
  BY <1>1 DEF Init, OneSession
<1>5. SocketsOwned
  BY <1>1 DEF Init, ServerInit, SocketsOwned
<1>6. ProgInv
  BY DEF Init, ProgInv, Places
<1> QED BY <1>2, <1>3, <1>4, <1>5, <1>6 DEF IInv, NetInv

\* Every step keeps it.
LEMMA NextIInv == IInv /\ [Next]_vars => IInv'
<1> SUFFICES ASSUME NetInv, ProgInv, [Next]_vars PROVE NetInv' /\ ProgInv'
  BY DEF IInv
<1>1. CASE Program
  BY <1>1, ProgramStepKeeps
<1>2. CASE (Update \/ ReadReset \/ (prog # "done" /\ Clients)) /\ UNCHANGED <<prog, next>>
  BY <1>2, UpdateKeeps, ReadResetKeeps, ClientsKeep DEF ProgInv
<1>3. CASE UNCHANGED vars
  BY <1>3 DEF vars, netVars, serverVars, clientVars, ProgInv, NetInv, NetType, Place, OneSession,
              SocketsOwned, WebSockets, SlotOf, InUse
<1> QED BY <1>1, <1>2, <1>3 DEF Next

\* It holds always.
LEMMA SpecIInv == Spec => []IInv
<1>1. Init => IInv
  BY InitIInv
<1>2. IInv /\ [Next]_vars => IInv'
  BY NextIInv
<1> QED BY <1>1, <1>2, PTL DEF Spec

\* Every variable keeps its type, whatever the number of connections.
THEOREM DebuggerTypeCorrect == Spec => []TypeOK
<1>1. IInv => TypeOK
  BY DEF IInv, NetInv, NetType, ProgInv, TypeOK
<1> QED BY <1>1, SpecIInv, PTL

\* The session has a client exactly while there is a web socket, and there is one at most.
THEOREM SessionIsOne == Spec => []OneSession
<1>1. IInv => OneSession
  BY DEF IInv, NetInv
<1> QED BY <1>1, SpecIInv, PTL

\* Open sockets and entries in use belong together, one to one.
THEOREM SocketsHaveOwners == Spec => []SocketsOwned
<1>1. IInv => SocketsOwned
  BY DEF IInv, NetInv
<1> QED BY <1>1, SpecIInv, PTL

-----------------------------------------------------------------------------
(* What goes wrong by moving entries *)

Aligned == /\ ContextIsWebSocket => ContextIsWebSocket'
           /\ BuffersDistinct => BuffersDistinct'
Closes == \E i \in InUse : Sweep(i)

\* Steps that mark entries dead misplace nothing.
LEMMA SameEntriesAlign ==
    ASSUME NetInv, SameEntries, session'.context = session.context
    PROVE  Aligned
<1>1. InUse' = InUse /\ InUse \subseteq Slot
  BY InUseInSlot DEF NetInv, SameEntries, InUse
<1>2. WebSockets' = WebSockets
  BY <1>1 DEF WebSockets, SameEntries
<1>3. BuffersDistinct => BuffersDistinct'
  BY DEF BuffersDistinct, SameEntries
<1> QED BY <1>2, <1>3 DEF Aligned, ContextIsWebSocket

\* New entries come after those in use.
LEMMA SelectAligns == ASSUME NetInv, Select PROVE Aligned
<1>1. CASE UNCHANGED <<slots, count>>
  BY <1>1, NoEntryChanged, SameEntriesAlign DEF NetInv, Select
<1>2. CASE AcceptAll
  <2>1. /\ \A i \in InUse : slots'[i] = slots[i]
        /\ \A i \in Slot : slots'[i].buffers = slots[i].buffers
        /\ count \in Nat /\ count' \in count .. MaxConnections /\ session' = session
    BY <1>2, Accepted, InUseInSlot DEF NetInv, Select
  <2>2. InUse \subseteq InUse'
    BY <2>1 DEF InUse
  <2>3. WebSockets \subseteq WebSockets'
    BY <2>1, <2>2 DEF WebSockets
  <2>4. BuffersDistinct => BuffersDistinct'
    BY <2>1 DEF BuffersDistinct
  <2> QED BY <2>1, <2>3, <2>4 DEF Aligned, ContextIsWebSocket
<1> QED BY <1>1, <1>2 DEF Select

\* Steps that read from a connection mark it dead at most.
LEMMA TurnsAlign ==
    ASSUME NetInv, PassOver \/ LosePeer \/ BeginRead \/ Reject \/ Read \/ ReadReset \/ EndServe
    PROVE  Aligned
<1>1. session'.context = session.context
  BY ExecutedType DEF PassOver, LosePeer, BeginRead, Reject, Read, ReadReset, EndServe
<1>2. count' = count
  BY DEF PassOver, LosePeer, BeginRead, Reject, Read, ReadReset, EndServe
<1>3. slots' = slots \/ ((Serving \/ phase = "read") /\ \E dead \in BOOLEAN : EndTurn(dead))
  BY DEF PassOver, LosePeer, BeginRead, Reject, Read, ReadReset, EndServe, Waiting, Hung
<1>4. SameEntries
  <2>1. CASE slots' = slots
    BY <1>2, <2>1, NoEntryChanged DEF NetInv
  <2>2. CASE (Serving \/ phase = "read") /\ \E dead \in BOOLEAN : EndTurn(dead)
    BY <1>2, <2>2, ServedHasSocket, EntryMarked DEF EndTurn, NetInv
  <2> QED BY <1>3, <2>1, <2>2
<1> QED BY <1>1, <1>4, SameEntriesAlign

\* The connection closed at once has no web socket, the one upgraded becomes the session's.
LEMMA RequestsAlign == ASSUME NetInv, EndRequest \/ Upgrade PROVE Aligned
<1>1. /\ turn \in InUse /\ turn \in Slot /\ slots[turn] \in SlotType /\ ~slots[turn].ws
      /\ count' = count /\ slots \in [Slot -> SlotType]
  BY ServedHasSocket DEF EndRequest, Upgrade, Waiting, NetInv, NetType
<1>2. InUse' = InUse /\ InUse \subseteq Slot
  BY <1>1, InUseInSlot DEF NetInv, InUse
<1>3. CASE EndRequest
  <2>1. slots' = [slots EXCEPT ![turn] = ClosedSlot(@)] /\ session' = session
    BY <1>3 DEF EndRequest
  <2>2. slots'[turn].buffers = slots[turn].buffers
    BY <1>1, <2>1 DEF ClosedSlot, SlotType
  <2>3. \A i \in Slot : i # turn => slots'[i] = slots[i]
    BY <1>1, <2>1
  <2>4. WebSockets \subseteq WebSockets'
    BY <1>1, <1>2, <2>3 DEF WebSockets
  <2>5. BuffersDistinct => BuffersDistinct'
    BY <2>2, <2>3 DEF BuffersDistinct
  <2> QED BY <2>1, <2>4, <2>5 DEF Aligned, ContextIsWebSocket
<1>4. CASE Upgrade
  <2>1. CASE UNCHANGED <<slots, session>>
    BY <1>1, <2>1, NoEntryChanged, SameEntriesAlign DEF NetInv
  <2>2. CASE slots' = [slots EXCEPT ![turn].ws = TRUE] /\ session' = OnWsConnected(turn)
    <3>1. slots'[turn].ws /\ slots'[turn].buffers = slots[turn].buffers
      BY <1>1, <2>2 DEF SlotType
    <3>2. \A i \in Slot : i # turn => slots'[i] = slots[i]
      BY <1>1, <2>2
    <3>3. session'.context = turn
      BY <2>2 DEF OnWsConnected, NetInv, NetType, SessionType
    <3>4. turn \in WebSockets'
      BY <1>1, <1>2, <3>1 DEF WebSockets
    <3>5. BuffersDistinct => BuffersDistinct'
      BY <3>1, <3>2 DEF BuffersDistinct
    <3> QED BY <3>3, <3>4, <3>5 DEF Aligned, ContextIsWebSocket
  <2> QED BY <1>4, <2>1, <2>2 DEF Upgrade
<1> QED BY <1>3, <1>4

\* Closing a connection moves the session's entry if it comes before that one, and leaves the
\* last entry twice in the array if it was not the last.
LEMMA SweepMoves ==
    ASSUME NetInv, NEW i \in InUse, Sweep(i)
    PROVE  /\ ContextIsWebSocket => (~ContextIsWebSocket' <=> i < session.context)
           /\ BuffersDistinct => (~BuffersDistinct' <=> i < count)
<1>1. /\ i \in Slot /\ count \in Nat \ {0} /\ InUse \subseteq Slot /\ i \in 1 .. count /\ InUse = 1 .. count
      /\ \A k \in InUse' : k >= i => k + 1 \in InUse /\ slots'[k] = slots[k + 1]
      /\ \A k \in InUse : k < i => k \in InUse' /\ slots'[k] = slots[k]
  BY RemovedEntries DEF InUse
<1>2. /\ slots' = Removed(i) /\ session' = IF slots[i].ws THEN OnWsClosed(i) ELSE session
      /\ slots \in [Slot -> SlotType] /\ session \in SessionType
      /\ MaxConnections \in Nat /\ Slot = 1 .. MaxConnections
  BY DebugServerAssumption DEF Sweep, NetInv, NetType, Slot
<1>3. ASSUME ContextIsWebSocket PROVE ~ContextIsWebSocket' <=> i < session.context
  <2> DEFINE c == session.context
  <2>1. CASE c = NULL
    <3>1. session'.context = NULL
      BY <1>2, <2>1 DEF OnWsClosed, SessionType
    <3>2. ~(i < c)
      BY <1>1, <2>1 DEF NULL
    <3> QED BY <3>1, <3>2 DEF ContextIsWebSocket
  <2>2. CASE c # NULL
    <3>1. /\ c \in InUse /\ slots[c].ws /\ c \in Int /\ i \in Int
          /\ \A k \in InUse : slots[k].ws => k = c
      <4>1. c \in WebSockets /\ \A k \in WebSockets : k = c
        BY <1>3, <2>2 DEF ContextIsWebSocket, NetInv, OneSession
      <4> QED BY <4>1, <1>1 DEF WebSockets
    <3>2. CASE i = c
      <4>1. session'.context = NULL
        BY <1>2, <3>1, <3>2 DEF OnWsClosed, SessionType
      <4> QED BY <4>1, <3>1, <3>2 DEF ContextIsWebSocket
    <3>3. CASE i # c
      <4>1. session' = session
        BY <1>2, <3>1, <3>3
      <4>2. CASE c < i
        <5>1. c \in InUse' /\ slots'[c] = slots[c]
          BY <1>1, <3>1, <4>2
        <5>2. c \in WebSockets'
          BY <5>1, <3>1 DEF WebSockets
        <5> QED BY <5>2, <4>1, <4>2, <3>1 DEF ContextIsWebSocket
      <4>3. CASE i < c
        <5>1. ASSUME c \in WebSockets' PROVE FALSE
          <6>1. c \in InUse' /\ slots'[c].ws /\ c >= i
            BY <5>1, <4>3, <3>1 DEF WebSockets
          <6>2. c + 1 \in InUse /\ slots[c + 1].ws
            BY <6>1, <1>1
          <6> QED BY <6>2, <3>1
        <5> QED BY <5>1, <4>1, <4>3, <2>2 DEF ContextIsWebSocket
      <4> QED BY <4>2, <4>3, <3>1, <3>3
    <3> QED BY <3>2, <3>3
  <2> QED BY <2>1, <2>2
<1>4. ASSUME BuffersDistinct PROVE ~BuffersDistinct' <=> i < count
  <2>1. CASE i < count
    <3>1. count - 1 \in Slot /\ count \in Slot /\ count - 1 >= i /\ count - 1 < count /\ (count - 1) + 1 = count
      BY <1>1, <1>2, <2>1
    <3>2. slots'[count - 1] = slots[count] /\ slots'[count] = slots[count]
      BY <1>2, <2>1, <3>1 DEF Removed
    <3>3. slots'[count - 1].buffers = slots'[count].buffers /\ count - 1 # count
      BY <1>1, <3>2
    <3>4. ~BuffersDistinct'
      <4> SUFFICES ASSUME BuffersDistinct' PROVE FALSE
        OBVIOUS
      <4>1. \A k, l \in Slot : slots'[k].buffers = slots'[l].buffers => k = l
        BY DEF BuffersDistinct, Slot
      <4>2. count - 1 = count
        BY <3>1, <3>3, <4>1
      <4> QED BY <3>3, <4>2
    <3> QED BY <2>1, <3>4
  <2>2. CASE i = count
    <3>1. \A k \in Slot : k # i => slots'[k] = IF k > i /\ k < count THEN slots[k + 1] ELSE slots[k]
      BY <1>1, <1>2 DEF Removed
    <3>2. \A k \in Slot : k # i => slots'[k] = slots[k]
      BY <1>1, <1>2, <2>2, <3>1
    <3>3. slots'[i].buffers = slots[i].buffers
      <4>1. slots'[i] = ClosedSlot(slots[i]) /\ slots[i] \in SlotType
        BY <1>1, <1>2, <2>2 DEF Removed
      <4> QED BY <4>1 DEF ClosedSlot, SlotType
    <3>4. BuffersDistinct'
      BY <1>4, <3>2, <3>3 DEF BuffersDistinct
    <3> QED BY <1>1, <2>2, <3>4
  <2> QED BY <1>1, <2>1, <2>2
<1> QED BY <1>3, <1>4

\* Every step keeps the pointer and the buffers in place, or closes a connection.
LEMMA StepAligns == IInv /\ [Next]_vars => Aligned \/ Closes
<1> SUFFICES ASSUME NetInv, ProgInv, [Next]_vars, ~Closes PROVE Aligned
  BY DEF IInv
<1>1. CASE Program
  <2>1. CASE Select
    BY <2>1, SelectAligns
  <2>2. CASE SameEntries /\ session'.context = session.context
    BY <2>2, SameEntriesAlign
  <2>3. CASE UNCHANGED <<slots, count>> /\ session'.context = session.context
    BY <2>3, NoEntryChanged, SameEntriesAlign DEF NetInv
  <2>4. Written /\ Unserved => SameEntries
    BY WrittenMarks
  <2>5. session \in SessionType
    BY DEF NetInv, NetType
  <2>6. \/ Select
        \/ Written /\ Unserved /\ session'.context = session.context
        \/ UNCHANGED <<slots, count>> /\ session'.context = session.context
    BY <1>1, <2>5 DEF Program, EndWait, LoadDomain, BeginInstruction, InstructionEvent, EndInstruction,
          EndCommands, Suspended, Exit, CallServer, Raise, Unserved, SessionType
  <2> QED BY <2>1, <2>2, <2>3, <2>4, <2>6
<1>2. CASE Update
  <2>1. ASSUME NEW i \in Slot, Sweep(i) PROVE FALSE
    BY <2>1 DEF Sweep, Closes
  <2> QED BY <1>2, <2>1, TurnsAlign, RequestsAlign DEF Update
<1>3. CASE ReadReset
  BY <1>3, TurnsAlign
<1>4. CASE Clients
  <2>1. UNCHANGED <<slots, count, session>>
    BY <1>4 DEF Clients, Arrive, Disturb, Leave, SendFrame, SendRequest, SendCommand, Send, serverVars
  <2> QED BY <2>1, NoEntryChanged, SameEntriesAlign DEF NetInv
<1>5. CASE UNCHANGED vars
  BY <1>5, NoEntryChanged, SameEntriesAlign DEF vars, netVars, serverVars, NetInv
<1> QED BY <1>1, <1>2, <1>3, <1>4, <1>5 DEF Next

\* The session's pointer leaves its connection exactly when a connection before it in the
\* array is closed and the entries after that one are moved down by one; and two entries come
\* to share buffers exactly when a connection other than the last is closed.
THEOREM EntriesGoByMoving == Spec => MovingMisplaces
<1> DEFINE PointerGoes == ContextIsWebSocket =>
             (~ContextIsWebSocket' <=> \E i \in InUse : i < session.context /\ Sweep(i))
           BuffersShare == BuffersDistinct =>
             (~BuffersDistinct' <=> \E i \in InUse : i < count /\ Sweep(i))
<1>1. ASSUME IInv, [Next]_vars
      PROVE  PointerGoes /\ BuffersShare
  <2>1. NetInv
    BY <1>1 DEF IInv
  <2>2. CASE Closes
    <3>1. PointerGoes
      BY <2>1, <2>2, SweepMoves DEF Closes
    <3>2. BuffersShare
      BY <2>1, <2>2, SweepMoves DEF Closes
    <3> QED BY <3>1, <3>2
  <2>3. CASE ~Closes
    <3>1. Aligned
      BY <1>1, <2>3, StepAligns
    <3>2. PointerGoes
      BY <3>1, <2>3 DEF Aligned, Closes
    <3>3. BuffersShare
      BY <3>1, <2>3 DEF Aligned, Closes
    <3> QED BY <3>2, <3>3
  <2> QED BY <2>2, <2>3
<1>2. IInv /\ [Next]_vars => [PointerGoes /\ BuffersShare]_vars
  BY <1>1
<1> QED BY <1>2, SpecIInv, PTL DEF Spec, MovingMisplaces
=============================================================================
