------------------------------ MODULE DebugServer ------------------------------
(***************************************************************************)
(* The debugger's web server (web.c) and the clients connected to it.      *)
(*                                                                         *)
(* One call of pinta_web_server_update selects the sockets with something  *)
(* to read, accepts, serves each connection in turn and then closes the    *)
(* dead ones, moving the later ones down.  It never runs by itself: the    *)
(* interpreter calls it between instructions and while it is stopped, and  *)
(* clients act between any two of its steps.                               *)
(*                                                                         *)
(* The array of connections is modelled whole, the entries past            *)
(* connection_count too: memmove leaves copies there, and the session keeps *)
(* a pointer into the array.  A message is the parts the server tells      *)
(* apart: a request, the header of a web socket frame and the command in   *)
(* it.  Requests have no body.                                             *)
(***************************************************************************)
(* A definition named Mutant... is a plausible bug in the one it is named after.  *)
EXTENDS Integers, Sequences, FiniteSets, Functions

CONSTANTS MaxConnections,   \* connection_max: 4 in the code
          MaxBacklog,       \* bound: clients waiting to be accepted
          MaxInbox          \* bound: parts sent and not read, of one client

ASSUME DebugServerAssumption ==
    /\ MaxConnections \in Nat /\ MaxConnections > 0
    /\ MaxBacklog \in Nat /\ MaxInbox \in Nat

VARIABLES slots,     \* server->connections
          count,     \* server->connection_count
          phase,     \* where in pinta_web_server_update the server is; "idle": outside
          turn,      \* the connection it is serving
          peer,      \* of each socket: "free", "open", or "left" when its client has closed
          inbox,     \* parts each client has sent and the server has not read
          backlog,   \* clients that have connected and are not accepted
          session    \* PintaDebuggerSession, and code_is_suspended of the thread

serverVars == <<slots, count, phase, turn>>
clientVars == <<peer, inbox, backlog>>
netVars == <<serverVars, clientVars, session>>

Slot == 1 .. MaxConnections
Socket == 1 .. MaxConnections     \* file descriptors: the lowest free one is handed out
INVALID == 0                      \* PINTA_WEB_INVALID_SOCKET
NULL == 0                         \* no context

Requests == {"get", "upgrade", "end"}
Commands == {"run", "step", "look", "bad"}
Parts == Requests \cup {"head"} \cup Commands

InUse == 1 .. count
SlotOf(f) == {i \in InUse : slots[i].fd = f}
IsSocket(f) == \E i \in SlotOf(f) : slots[i].ws
ClosedSlot(s) == [s EXCEPT !.fd = INVALID, !.ws = FALSE, !.alive = FALSE]

ServerInit ==
    /\ slots = [i \in Slot |-> [fd |-> INVALID, ws |-> FALSE, alive |-> FALSE, buffers |-> i]]
    /\ count = 0
    /\ phase = "idle" /\ turn = 0
    /\ peer = [f \in Socket |-> "free"]
    /\ inbox = [f \in Socket |-> <<>>]
    /\ backlog = 0

-----------------------------------------------------------------------------
(* The callbacks of the session (debugger.c).                              *)

\* pinta_debugger_on_ws_connect: one client at a time.
OnWsConnect == session.context = NULL

\* pinta_debugger_on_ws_connected
MutantOnWsConnected(i) == session
OnWsConnected(i) == [session EXCEPT !.context = i]

\* pinta_debugger_on_ws_closed: whichever connection it was.
OnWsClosed(i) == [session EXCEPT !.context = NULL]

\* pinta_debugger_command_execute: "run step" and "run"; the others change nothing.
Executed(command) ==
    CASE command = "step" -> [session EXCEPT !.processing = FALSE, !.suspended = FALSE]
      [] command = "run"  -> [session EXCEPT !.processing = FALSE, !.suspended = FALSE, !.mode = 0]
      [] OTHER            -> session

-----------------------------------------------------------------------------
(* pinta_web_server_update, step by step.                                  *)

\* What select reports.  It is looked at again when the connection's turn comes: a
\* message that comes in between might as well have come before.
Readable(f) == SlotOf(f) # {} /\ (peer[f] = "left" \/ inbox[f] # <<>>)

Incoming == backlog > 0 /\ count < MaxConnections

\* The n-th lowest free descriptor, which is what accept returns the n-th time.
NthFree(n) == CHOOSE f \in Socket : /\ peer[f] = "free"
                                   /\ Cardinality({g \in 1 .. f : peer[g] = "free"}) = n

\* pinta_web_server_on_incoming until it fails: clients are accepted into the entries
\* after the last, which keep the buffers they have.
AcceptAll ==
    LET k == IF backlog < MaxConnections - count THEN backlog ELSE MaxConnections - count
        new == [i \in count + 1 .. count + k |-> NthFree(i - count)]
    IN  /\ slots' = [i \in Slot |-> IF i \in DOMAIN new
                                    THEN [slots[i] EXCEPT !.fd = new[i], !.ws = FALSE, !.alive = TRUE]
                                    ELSE slots[i]]
        /\ peer' = [f \in Socket |-> IF f \in Range(new) THEN "open" ELSE peer[f]]
        /\ count' = count + k /\ backlog' = backlog - k

\* select, and what follows it: nothing when no socket is not even the closing
\* of dead connections.
Select ==
    /\ phase = "idle"
    /\ IF ~Incoming /\ \A f \in Socket : ~Readable(f)
       THEN UNCHANGED <<slots, count, phase, turn, peer, backlog>>
       ELSE AcceptAll /\ phase' = "serve" /\ turn' = 1
    /\ UNCHANGED <<inbox, session>>

Serving == phase = "serve" /\ turn <= count
Served == slots[turn].fd
Waiting == Serving /\ peer[Served] = "open" /\ inbox[Served] # <<>>

\* The turn passes to the next connection; with dead, this one is to be closed.
EndTurn(dead) == /\ slots' = [slots EXCEPT ![turn].alive = @ /\ ~dead]
                 /\ turn' = turn + 1 /\ phase' = "serve"

\* Nothing has come, or all of it has been read.
PassOver ==
    /\ Serving /\ peer[Served] = "open" /\ inbox[Served] = <<>>
    /\ EndTurn(FALSE)
    /\ UNCHANGED <<count, clientVars, session>>

\* The client has left.  pinta_socket_receive reads on until it meets the end of the
\* stream and reports only that: what came before is dropped.
LosePeer ==
    /\ Serving /\ peer[Served] = "left"
    /\ EndTurn(TRUE)
    /\ UNCHANGED <<count, clientVars, session>>

Take(f) == inbox' = [inbox EXCEPT ![f] = Tail(@)]

\* A request without a body is answered 404 and pinta_web_context_response_end closes
\* the socket.
EndRequest ==
    /\ Waiting /\ ~slots[turn].ws /\ Head(inbox[Served]) = "get"
    /\ slots' = [slots EXCEPT ![turn] = ClosedSlot(@)]
    /\ peer' = [peer EXCEPT ![Served] = "free"]
    /\ inbox' = [inbox EXCEPT ![Served] = <<>>]
    /\ turn' = turn + 1
    /\ UNCHANGED <<count, phase, backlog, session>>

\* A client asks for a web socket: it becomes the session's, or is refused and stays.
MutantUpgrade ==
    /\ Waiting /\ ~slots[turn].ws /\ Head(inbox[Served]) = "upgrade"
    /\ Take(Served)
    /\ slots' = [slots EXCEPT ![turn].ws = TRUE]
    /\ session' = OnWsConnected(turn)
    /\ UNCHANGED <<count, phase, turn, peer, backlog>>
Upgrade ==
    /\ Waiting /\ ~slots[turn].ws /\ Head(inbox[Served]) = "upgrade"
    /\ Take(Served)
    /\ IF OnWsConnect
       THEN slots' = [slots EXCEPT ![turn].ws = TRUE] /\ session' = OnWsConnected(turn)
       ELSE UNCHANGED <<slots, session>>
    /\ UNCHANGED <<count, phase, turn, peer, backlog>>

\* The header of a frame is enough to go on: the rest is read from a blocking socket.
\* A frame is refused unless the session is its connection's.
MutantBeginRead ==
    /\ Waiting /\ Head(inbox[Served]) = "head"
    /\ Take(Served)
    /\ IF session.context # turn
       THEN EndTurn(TRUE)
       ELSE phase' = "read" /\ turn' = turn + 1 /\ UNCHANGED slots
    /\ UNCHANGED <<count, peer, backlog, session>>
BeginRead ==
    /\ Waiting /\ Head(inbox[Served]) = "head"
    /\ Take(Served)
    /\ IF session.context # turn
       THEN EndTurn(TRUE)
       ELSE phase' = "read" /\ UNCHANGED <<slots, turn>>
    /\ UNCHANGED <<count, peer, backlog, session>>

\* A request that cannot be parsed.
Reject ==
    /\ Waiting /\ Head(inbox[Served]) = "end"
    /\ Take(Served) /\ EndTurn(TRUE)
    /\ UNCHANGED <<count, peer, backlog, session>>

\* The rest has come: pinta_web_context_request_read returns.  A command that fails
\* ends the connection, and so does a close frame.
Read ==
    /\ phase = "read" /\ inbox[Served] # <<>>
    /\ Take(Served)
    /\ IF Head(inbox[Served]) = "bad" THEN EndTurn(TRUE)
                                      ELSE phase' = "serve" /\ UNCHANGED <<slots, turn>>
    /\ session' = Executed(Head(inbox[Served]))
    /\ UNCHANGED <<count, peer, backlog>>

\* The client left in the middle.  A reset is an error, which ends the connection; at
\* an orderly end recv returns 0 for ever.
Hung == phase = "read" /\ peer[Served] = "left" /\ inbox[Served] = <<>>
ReadReset ==
    /\ Hung
    /\ EndTurn(TRUE)
    /\ UNCHANGED <<count, clientVars, session>>

\* All have been served: the dead are closed, if there are any.
EndServe ==
    /\ phase = "serve" /\ turn > count
    /\ phase' = IF \A i \in InUse : slots[i].alive THEN "idle" ELSE "sweep"
    /\ turn' = 0
    /\ UNCHANGED <<slots, count, clientVars, session>>

\* The array after the entry i is removed: connection_close, then memmove.
MutantRemoved(i) == [k \in Slot |-> IF k >= i /\ k + 1 < count THEN slots[k + 1]
                                    ELSE IF k = i THEN ClosedSlot(slots[k]) ELSE slots[k]]
Removed(i) == [k \in Slot |-> IF k >= i /\ k < count THEN slots[k + 1]
                              ELSE IF k = i THEN ClosedSlot(slots[k]) ELSE slots[k]]

MutantSweep(i) ==
    /\ phase = "sweep" /\ i \in InUse
    /\ ~slots[i].alive /\ \A k \in 1 .. i - 1 : slots[k].alive
    /\ slots' = Removed(i)
    /\ count' = count - 1
    /\ peer' = [f \in Socket |-> IF f = slots[i].fd THEN "free" ELSE peer[f]]
    /\ inbox' = [f \in Socket |-> IF f = slots[i].fd THEN <<>> ELSE inbox[f]]
    /\ phase' = IF \A k \in i + 1 .. count : slots[k].alive THEN "idle" ELSE "sweep"
    /\ UNCHANGED <<turn, backlog, session>>
Sweep(i) ==
    /\ phase = "sweep" /\ i \in InUse
    /\ ~slots[i].alive /\ \A k \in 1 .. i - 1 : slots[k].alive
    /\ slots' = Removed(i)
    /\ count' = count - 1
    /\ session' = IF slots[i].ws THEN OnWsClosed(i) ELSE session
    /\ peer' = [f \in Socket |-> IF f = slots[i].fd THEN "free" ELSE peer[f]]
    /\ inbox' = [f \in Socket |-> IF f = slots[i].fd THEN <<>> ELSE inbox[f]]
    /\ phase' = IF \A k \in i + 1 .. count : slots[k].alive THEN "idle" ELSE "sweep"
    /\ UNCHANGED <<turn, backlog>>

Update == \/ PassOver \/ LosePeer \/ EndRequest \/ Upgrade \/ BeginRead \/ Reject \/ Read
          \/ EndServe
          \/ \E i \in Slot : Sweep(i)

-----------------------------------------------------------------------------
(* The clients, external: what programs on the other end of a socket do.   *)

\* The client of f has sent the first part of a message and not the rest.
Midway(f) == \/ inbox[f] # <<>> /\ inbox[f][Len(inbox[f])] = "head"
             \/ inbox[f] = <<>> /\ phase = "read" /\ Served = f
Ready(f) == peer[f] = "open" /\ SlotOf(f) # {} /\ ~Midway(f)

Arrive == /\ backlog < MaxBacklog
          /\ backlog' = backlog + 1
          /\ UNCHANGED <<serverVars, peer, inbox, session>>

Send(f, part) == /\ Len(inbox[f]) < MaxInbox
                 /\ inbox' = [inbox EXCEPT ![f] = Append(@, part)]
                 /\ UNCHANGED <<serverVars, peer, backlog, session>>

\* One request at a time: the next after the answer.
SendRequest(f, part) == /\ Ready(f) /\ ~IsSocket(f) /\ inbox[f] = <<>>
                        /\ part \in Requests /\ Send(f, part)
SendFrame(f) == Ready(f) /\ IsSocket(f) /\ Send(f, "head")
SendCommand(f, part) == /\ peer[f] = "open" /\ Midway(f)
                        /\ part \in Commands /\ Send(f, part)

\* A client closes its end, whatever it was doing.
Leave(f) == /\ peer[f] = "open"
            /\ peer' = [peer EXCEPT ![f] = "left"]
            /\ UNCHANGED <<serverVars, inbox, backlog, session>>

\* What a client may do and that ends its connection.
Disturb == \E f \in Socket : \/ Leave(f) \/ SendCommand(f, "bad")
                             \/ \E part \in {"get", "end"} : SendRequest(f, part)

Clients == \/ Arrive \/ Disturb
           \/ \E f \in Socket : \/ SendFrame(f) \/ SendRequest(f, "upgrade")
                                \/ \E part \in Commands \ {"bad"} : SendCommand(f, part)
=============================================================================
