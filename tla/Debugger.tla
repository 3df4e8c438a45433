------------------------------- MODULE Debugger -------------------------------
(***************************************************************************)
(* A program under the debugger (debugger.c, debug.c, pinta_code_execute   *)
(* of code.c): the interpreter raises events, stops in them or between     *)
(* instructions, and calls the web server to be told to go on.             *)
(*                                                                         *)
(* There is one thread.  Which instruction it executes is left out.        *)
(***************************************************************************)
EXTENDS DebugServer

VARIABLES prog,   \* where the program is
          next    \* where it goes on after the commands

vars == <<netVars, prog, next>>

Places == {"wait", "run", "executing", "commands", "exit", "done"}

\* pinta_debugger_start leaves is_processing_commands as the memory was.  A program
\* waits for a client or does not.
Init == /\ ServerInit
        /\ \E garbage \in BOOLEAN :
             session = [context |-> NULL, mode |-> 0, processing |-> garbage, suspended |-> FALSE]
        /\ prog \in {"wait", "run"}
        /\ next = "none"

Goto(place) == prog' = place /\ UNCHANGED next
Idle(place) == phase = "idle" /\ prog = place

\* A frame is written to the connection the session names.  If its client has left
\* the write may fail, which marks that entry of the array dead.
Written ==
    IF session.context = NULL THEN UNCHANGED slots
    ELSE LET i == session.context
             gone == slots[i].fd = INVALID \/ peer[slots[i].fd] # "open"
         IN  \E fails \in {FALSE} \cup {gone} :
                slots' = [slots EXCEPT ![i].alive = @ /\ ~fails]

Unserved == UNCHANGED <<count, phase, turn, clientVars>>

\* pinta_debugger_wait: the server is called until there is a client.
EndWait == /\ Idle("wait") /\ session.context # NULL
           /\ session' = [session EXCEPT !.mode = 3]
           /\ Goto("run")
           /\ Unserved /\ UNCHANGED slots

\* Any event but "step": on_break, on_exception, on_domain, on_exit, and on_before and
\* on_after of calls and returns.  Without a client it returns at once.
Raise(return) ==
    /\ Written
    /\ IF session.context = NULL
       THEN prog' = return /\ UNCHANGED <<next, session>>
       ELSE /\ prog' = "commands" /\ next' = return
            /\ session' = [session EXCEPT !.processing = @ \/ session.mode = 3]
    /\ Unserved

\* pinta_debugger_process_commands: its loop calls the server until a command ends it.
EndCommands == /\ Idle("commands") /\ ~session.processing
               /\ prog' = next /\ next' = "none"
               /\ Unserved /\ UNCHANGED <<slots, session>>

\* pinta_core_init_domain: the application loads a module.
LoadDomain == Idle("run") /\ ~session.suspended /\ Raise("run")

\* pinta_code_step begins: on_step tells the client and suspends the thread, from the
\* next instruction on.
BeginInstruction ==
    /\ Idle("run") /\ ~session.suspended
    /\ Written
    /\ session' = [session EXCEPT !.suspended = session.context # NULL /\ session.mode = 3]
    /\ Goto("executing")
    /\ Unserved

InstructionEvent == Idle("executing") /\ Raise("executing")

\* The instruction is done, and on_tick calls the server; it was the last one perhaps.
\* Or it has failed.
EndInstruction ==
    /\ Idle("executing")
    /\ \/ Select /\ \E place \in {"run", "exit"} : Goto(place)
       \/ Goto("exit") /\ Unserved /\ UNCHANGED <<slots, session>>

\* While the thread is suspended there are only ticks.
Suspended == Idle("run") /\ session.suspended /\ Select /\ Goto("run")

\* pinta_code_execute is left: on_exit.
Exit == Idle("exit") /\ Raise("done")

\* The loops that wait for a client and for commands.
CallServer == /\ \/ Idle("wait") /\ session.context = NULL
                 \/ Idle("commands") /\ session.processing
              /\ Select /\ UNCHANGED <<prog, next>>

Program == \/ EndWait \/ LoadDomain \/ BeginInstruction \/ InstructionEvent
           \/ EndInstruction \/ EndCommands \/ Suspended \/ Exit \/ CallServer

Next == \/ Program
        \/ (Update \/ ReadReset \/ (prog # "done" /\ Clients)) /\ UNCHANGED <<prog, next>>

\* The interpreter runs.  Clients take their time and do take their chances: one does
\* not for ever send its next message before the server has looked for it, and each
\* asks for the session, and says "run", some time.
Fairness ==
    /\ WF_vars(Program \/ (Update /\ UNCHANGED <<prog, next>>))
    /\ SF_vars(PassOver /\ UNCHANGED <<prog, next>>)
    /\ WF_vars(Arrive /\ UNCHANGED <<prog, next>>)
    /\ \A f \in Socket : /\ SF_vars(SendRequest(f, "upgrade") /\ UNCHANGED <<prog, next>>)
                         /\ WF_vars(SendFrame(f) /\ UNCHANGED <<prog, next>>)
                         /\ SF_vars(SendCommand(f, "run") /\ UNCHANGED <<prog, next>>)

Spec == Init /\ [][Next]_vars /\ Fairness

-----------------------------------------------------------------------------
SlotType == [fd : Socket \cup {INVALID}, ws : BOOLEAN, alive : BOOLEAN, buffers : Slot]
SessionType == [context : Slot \cup {NULL}, mode : {0, 3}, processing : BOOLEAN,
                suspended : BOOLEAN]

TypeOK ==
    /\ slots \in [Slot -> SlotType] /\ count \in 0 .. MaxConnections
    /\ phase \in {"idle", "serve", "read", "sweep"}
    /\ turn \in 0 .. MaxConnections + 1 /\ (phase = "read" => turn \in InUse)
    /\ peer \in [Socket -> {"free", "open", "left"}]
    /\ \A f \in Socket : inbox[f] \in Seq(Parts) /\ Len(inbox[f]) <= MaxInbox
    /\ backlog \in 0 .. MaxBacklog
    /\ session \in SessionType
    /\ prog \in Places /\ next \in Places \cup {"none"}

WebSockets == {i \in InUse : slots[i].ws}

\* The session has a context exactly while there is a web socket, and there is never a
\* second one, whatever clients ask for, however they leave and wherever the array's
\* entries are moved: a client that left is not waited for, and none is locked out.
OneSession == /\ (session.context # NULL) <=> (WebSockets # {})
              /\ \A i, j \in WebSockets : i = j

\* Every open socket belongs to exactly one entry in use, and every entry that is alive
\* has an open one: no socket is lost when the array is compacted, none is closed or read
\* for another's sake when its number is used again.
SocketsOwned ==
    /\ \A f \in Socket : peer[f] # "free" <=> SlotOf(f) # {}
    /\ \A i, j \in InUse : slots[i].fd = slots[j].fd /\ slots[i].fd # INVALID => i = j
    /\ \A i \in InUse : slots[i].alive => slots[i].fd # INVALID

ContextIsWebSocket == session.context # NULL => session.context \in WebSockets
BuffersDistinct == \A i, j \in Slot : slots[i].buffers = slots[j].buffers => i = j

\* The session's pointer goes wrong in one way only: a connection before the session's is
\* closed, so that the session's is moved down (web.c:1793); and two entries come to share
\* buffers in one way only, when a connection other than the last is closed, whose entry then
\* gets the pointers of the next.  And always in those ways: no such move leaves a web
\* socket where the pointer still points, and none keeps the buffers apart.
MovingMisplaces ==
    [][ /\ ContextIsWebSocket =>
             (~ContextIsWebSocket' <=> \E i \in InUse : i < session.context /\ Sweep(i))
        /\ BuffersDistinct =>
             (~BuffersDistinct' <=> \E i \in InUse : i < count /\ Sweep(i)) ]_vars

\* The program waits for a client, for a command or is suspended.
Stopped == \/ prog = "wait"
           \/ prog = "commands" /\ session.processing
           \/ prog = "run" /\ session.suspended

\* Once clients stop leaving and sending what ends a connection, a program that is
\* stopped goes on, even if the session's pointer had gone astray; unless the server is
\* left waiting for the rest of a message whose sender has left.
GoesOn == <>[][~Disturb]_vars => []<>(~Stopped \/ Hung)
=============================================================================
