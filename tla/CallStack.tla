------------------------------ MODULE CallStack ------------------------------
(***************************************************************************)
(* The thread stack of the virtual machine (stack.c) and the instructions  *)
(* that push and pop frames on it (code.c, code-rt.c): call, invoke, new,  *)
(* require, return, with tail calls that reuse the frame and calls that    *)
(* cross from one module domain into another.                              *)
(*                                                                         *)
(* The stack is one region of StackSize slots.  A frame is a header of     *)
(* FrameSize slots followed by its operands; the next frame starts right   *)
(* after the last operand.  A code pointer is abstracted to the function   *)
(* it points into.  The program is arbitrary: any instruction may follow   *)
(* any other.  One execution per core is modelled: thread->code_finished   *)
(* is never reset.                                                         *)
(***************************************************************************)
EXTENDS Integers, Sequences

CONSTANTS Functions,    \* the functions of all loaded modules
          Domains,      \* the module domains
          DomainOf(_),  \* the domain a function belongs to
          None,         \* the null domain, the null code pointer
          StackSize,    \* slots up to thread->stack_end
          FrameSize,    \* slots of a PintaStackFrame
          Arguments,    \* argument counts the program uses
          CrossTail     \* whether a function entered from another domain invokes a
                        \* function of its own domain in tail position

ASSUME CallStackAssumption ==
    /\ \A f \in Functions : DomainOf(f) \in Domains
    /\ None \notin Domains /\ None \notin Functions
    /\ FrameSize \in Nat \ {0}
    /\ StackSize \in Nat /\ StackSize > FrameSize
    /\ Arguments \subseteq Nat
    /\ CrossTail \in BOOLEAN

VARIABLES frames,     \* the frames, thread->frame last
          domain,     \* thread->domain
          next,       \* thread->code_next_pointer
          executing,  \* pinta_code_execute is running
          finished,   \* thread->code_finished
          fault       \* an instruction threw; pinta_code_execute has returned

vars == <<frames, domain, next, executing, finished, fault>>

\* Operands: an instance pre-pushed by new, a DOMAIN_GLOBAL pre-pushed by require,
\* any other value.
Operand == {"value", "instance", "export"}

Frame == [base : 0 .. StackSize - 1, ops : Seq(Operand), is_final : BOOLEAN, discard_result : BOOLEAN,
          return_domain : Domains \cup {None}, return_address : Functions \cup {None},
          code : Functions \cup {None}]

BaseFrame == [base |-> 0, ops |-> << >>, is_final |-> TRUE, discard_result |-> FALSE,
              return_domain |-> None, return_address |-> None, code |-> None]

Init ==
    /\ frames = <<BaseFrame>>
    /\ domain = None /\ next = None
    /\ executing = FALSE /\ finished = FALSE /\ fault = FALSE

-----------------------------------------------------------------------------
(* The stack of operands *)

Last(fs) == fs[Len(fs)]
Top == Last(frames)

\* The slot of the last operand; frame->stack.
StackTop(fr) == fr.base + FrameSize - 1 + Len(fr.ops)

WithTop(fs, fr) == [fs EXCEPT ![Len(fs)] = fr]
Pushed(fs, v) == WithTop(fs, [Last(fs) EXCEPT !.ops = Append(@, v)])
Discarded(fs, n) == WithTop(fs, [Last(fs) EXCEPT !.ops = SubSeq(@, 1, Len(@) - n)])

MutantHasRoom(fs, n) == StackTop(Last(fs)) + n <= StackSize   \* bound off by one
HasRoom(fs, n) == StackTop(Last(fs)) + n < StackSize
HasOperands(fs, n) == Len(Last(fs).ops) >= n

MutantHasFrameRoom(fs) == StackTop(Last(fs)) + 1 <= StackSize   \* only the first slot

\* pinta_lib_frame_push checks the header and one slot beyond it.
HasFrameRoom(fs) == StackTop(Last(fs)) + 1 + FrameSize < StackSize

\* The flags of the new frame not reset.
MutantFramePushed(fs) == Append(fs, [BaseFrame EXCEPT !.base = StackTop(Last(fs)) + 1])

\* pinta_lib_frame_push
FramePushed(fs) ==
    Append(fs, [BaseFrame EXCEPT !.base = StackTop(Last(fs)) + 1, !.is_final = FALSE])

-----------------------------------------------------------------------------
Running == executing /\ ~finished /\ ~fault

Continue(fs) ==
    /\ frames' = fs
    /\ UNCHANGED <<domain, next, executing, finished, fault>>

\* PINTA_THROW: pinta_code_execute returns the exception with the stack as it is.
Throw(fs) ==
    /\ frames' = fs /\ fault' = TRUE
    /\ UNCHANGED <<domain, next, executing, finished>>

\* Every instruction that only pushes a value.
Load == Running /\ IF HasRoom(frames, 1) THEN Continue(Pushed(frames, "value")) ELSE Throw(frames)

\* POP and the instructions that store a value.
Pop == Running /\ IF HasOperands(frames, 1) THEN Continue(Discarded(frames, 1)) ELSE Throw(frames)

\* DUPLICATE, DUPLICATE_MULTIPLE
Duplicate(n) ==
    LET ops == Top.ops IN
    /\ Running
    /\ IF HasRoom(frames, n) /\ HasOperands(frames, n)
       THEN Continue(WithTop(frames, [Top EXCEPT !.ops = @ \o SubSeq(@, Len(@) - n + 1, Len(@))]))
       ELSE Throw(frames)

-----------------------------------------------------------------------------
(* Calls *)

\* The frame reused whatever is left on its operands; or although its result is discarded.
MutantTailOverOperands(fs, ret) == ret /\ Last(fs).code # None /\ ~Last(fs).discard_result
MutantTailOverDiscard(fs, ret) == ret /\ Last(fs).code # None /\ Last(fs).ops = << >>

\* pinta_code_is_tail_call: ret says that the next instructions are NOP* RETURN.
IsTailCall(fs, ret) ==
    /\ ret
    /\ Last(fs).code # None
    /\ ~Last(fs).discard_result
    /\ Last(fs).ops = << >>

\* The return address set on tail calls too.
MutantEntered(fs, f, tail, return_domain, discard) ==
    WithTop(fs, [Last(fs) EXCEPT !.discard_result = discard, !.code = f,
                                 !.return_domain = return_domain, !.return_address = next])

\* The frame set up for f, pushed or, for a tail call, the reused one.
Entered(fs, f, tail, return_domain, discard) ==
    LET fr == Last(fs) IN
    WithTop(fs, [fr EXCEPT !.discard_result = discard, !.code = f,
                           !.return_domain = return_domain,
                           !.return_address = IF tail THEN @ ELSE next])

\* Run f: on the frame reused if tail, else on a new one.
Enter(fs, f, tail, return_domain, discard) ==
    IF tail \/ HasFrameRoom(fs)
    THEN /\ frames' = Entered(IF tail THEN fs ELSE FramePushed(fs), f, tail, return_domain, discard)
         /\ domain' = DomainOf(f)
         /\ next' = f
         /\ UNCHANGED <<finished, fault>>
    ELSE frames' = fs /\ fault' = TRUE /\ UNCHANGED <<domain, next, finished>>

\* CALL: a function of the current domain, by its token; return_domain is left alone.
Call(f, n, ret) ==
    LET fs == Discarded(frames, n)
        tail == IsTailCall(fs, ret)
    IN  /\ Running /\ DomainOf(f) = domain
        /\ UNCHANGED executing
        /\ IF HasOperands(frames, n)
           THEN Enter(fs, f, tail, IF tail THEN Top.return_domain ELSE None, FALSE)
           ELSE frames' = frames /\ fault' = TRUE /\ UNCHANGED <<domain, next, finished>>

\* The frame reused across domains.
MutantInvokeManaged(fs, f, offset, ret, discard) ==
    LET taken == Discarded(fs, offset) IN
    IF HasOperands(fs, offset)
    THEN Enter(taken, f, IsTailCall(taken, ret), domain, discard)
    ELSE frames' = fs /\ fault' = TRUE /\ UNCHANGED <<domain, next, finished>>

\* pinta_code_invoke_function_managed: offset counts the arguments, the function and
\* this.  The frame is reused only if the domain stays the same.
InvokeManaged(fs, f, offset, ret, discard) ==
    LET taken == Discarded(fs, offset)
        tail == IsTailCall(taken, ret) /\ domain = DomainOf(f)
    IN  IF HasOperands(fs, offset)
        THEN Enter(taken, f, tail, domain, discard)
        ELSE frames' = fs /\ fault' = TRUE /\ UNCHANGED <<domain, next, finished>>

\* INVOKE and INVOKE_MEMBER of a managed function, and the accessors that
\* LOAD_MEMBER and STORE_MEMBER find.
Invoke(f, n, ret) ==
    /\ Running
    /\ (/\ IsTailCall(Discarded(frames, n + 1), ret) /\ domain = DomainOf(f)
        /\ Top.return_domain \notin {None, domain}) => CrossTail
    /\ InvokeManaged(frames, f, n + 1, ret, FALSE)
    /\ UNCHANGED executing

\* CALL_INTERNAL, and INVOKE of a native function: a value for the operands taken.
InvokeNative(n) ==
    LET taken == Discarded(frames, n) IN
    /\ Running
    /\ CASE HasOperands(frames, n) /\ HasRoom(taken, 1) -> Continue(Pushed(taken, "value"))
         [] HasOperands(frames, n) /\ ~HasRoom(taken, 1) -> Throw(taken)
         [] ~HasOperands(frames, n) -> Throw(frames)

\* NEW: the instance is pushed first, and the result of the function is discarded.
New(f, n) ==
    LET taken == Discarded(frames, n + 1) IN
    /\ Running /\ UNCHANGED executing
    /\ IF HasOperands(frames, n + 1)
       THEN Enter(Pushed(taken, "instance"), f, FALSE, domain, TRUE)
       ELSE frames' = frames /\ fault' = TRUE /\ UNCHANGED <<domain, next, finished>>

\* The native require: pushes the exports of the module it loaded (a DOMAIN_GLOBAL, or
\* null), then its start function, invokes that, and discards its result.
Require(f, n, exports, ret) ==
    LET taken == Discarded(frames, n)
        ready == Pushed(Pushed(taken, exports), "value")
    IN  /\ Running /\ UNCHANGED executing
        /\ IF HasOperands(frames, n) /\ HasRoom(taken, 2)
           THEN InvokeManaged(ready, f, 1, ret, TRUE)
           ELSE /\ frames' = IF HasOperands(frames, n) THEN taken ELSE frames
                /\ fault' = TRUE
                /\ UNCHANGED <<domain, next, finished>>

\* pinta_code_execute_module: the host pushes the start function of a module, invokes
\* it and starts the loop.
ExecuteModule(f) ==
    /\ ~executing
    /\ executing' = TRUE
    /\ IF HasRoom(frames, 1)
       THEN InvokeManaged(Pushed(frames, "value"), f, 1, FALSE, FALSE)
       ELSE frames' = frames /\ fault' = TRUE /\ UNCHANGED <<domain, next, finished>>

-----------------------------------------------------------------------------
(* RETURN and EXIT *)

Returned == SubSeq(frames, 1, Len(frames) - 1)

\* The discarded result pushed all the same.
MutantWithResult(fs) == Pushed(fs, "value")

\* The result is pushed on the caller's operands, or the operand pre-pushed there is
\* resolved if it is a DOMAIN_GLOBAL.
WithResult(fs) ==
    IF ~Top.discard_result THEN Pushed(fs, "value")
    ELSE IF Last(fs).ops # << >> /\ Last(Last(fs).ops) = "export"
         THEN Pushed(Discarded(fs, 1), "value")
         ELSE fs

\* The result pushed before the frame is popped.
MutantResultFits == Top.discard_result \/ HasRoom(frames, 1)
ResultFits == Top.discard_result \/ HasRoom(Returned, 1)

Return ==
    /\ Running
    /\ IF HasOperands(frames, 1) /\ Len(frames) > 1
       THEN /\ domain' = IF Top.return_domain # None THEN Top.return_domain ELSE domain
            /\ IF Top.is_final \/ Last(Returned).is_final
               THEN frames' = Returned /\ finished' = TRUE /\ UNCHANGED <<next, fault>>
               ELSE /\ frames' = IF ResultFits THEN WithResult(Returned) ELSE Returned
                    /\ next' = IF ResultFits THEN Top.return_address ELSE next
                    /\ fault' = ~ResultFits
                    /\ UNCHANGED finished
            /\ UNCHANGED executing
       ELSE Throw(frames)

Exit == Running /\ finished' = TRUE /\ UNCHANGED <<frames, domain, next, executing, fault>>

\* Any other exception of an instruction: a null reference, a type, no memory.
Fail == Running /\ Throw(frames)

Next ==
    \/ Load \/ Pop \/ Return \/ Exit \/ Fail
    \/ \E n \in Arguments : Duplicate(n) \/ InvokeNative(n)
    \/ \E f \in Functions : ExecuteModule(f)
    \/ \E f \in Functions, n \in Arguments :
         \/ New(f, n)
         \/ \E ret \in BOOLEAN :
              \/ Call(f, n, ret) \/ Invoke(f, n, ret)
              \/ \E exports \in {"export", "value"} : Require(f, n, exports, ret)

Spec == Init /\ [][Next]_vars

-----------------------------------------------------------------------------
(* The activations the program sees: every frame but the base one, an operand that new  *)
(* or require pre-pushed for its return standing for the result still to come.      *)

ResultOf(i) == IF ~frames[i].discard_result THEN "value"
               ELSE IF Last(frames[i - 1].ops) = "export" THEN "value"
               ELSE Last(frames[i - 1].ops)

OpsOf(i) == LET ops == frames[i].ops IN
            IF i < Len(frames) /\ frames[i + 1].discard_result
            THEN SubSeq(ops, 1, Len(ops) - 1) ELSE ops

Live == Running /\ Len(frames) > 1

Program ==
    INSTANCE Activations
      WITH ModuleOf <- DomainOf, Results <- {"value", "instance"}, NoModule <- None,
           module <- IF Live THEN domain ELSE None,
           acts <- IF ~Live THEN << >>
                   ELSE [i \in 1 .. Len(frames) - 1 |->
                           [fn |-> frames[i + 1].code, ops |-> OpsOf(i + 1),
                            result |-> ResultOf(i + 1)]]

-----------------------------------------------------------------------------
(* Properties *)

\* Type invariant of the thread.
TypeOK ==
    /\ frames \in Seq(Frame) /\ frames # << >>
    /\ domain \in Domains \cup {None}
    /\ next \in Functions \cup {None}
    /\ executing \in BOOLEAN /\ finished \in BOOLEAN /\ fault \in BOOLEAN

\* The frames tile the stack: each starts right after the operands of its caller, which
\* nothing changes while it runs, and the last operand stays below stack_end (stack.c:
\* the checks of push, duplicate and pinta_lib_frame_push together).
FramesTileStack ==
    /\ frames[1].base = 0
    /\ \A i \in 1 .. Len(frames) - 1 : frames[i + 1].base = StackTop(frames[i]) + 1
    /\ StackTop(Top) < StackSize

\* Only the base frame is final, and nothing runs in it (pinta_code_return takes the
\* caller's is_final for the end of the execution).
OnlyBaseIsFinal ==
    /\ \A i \in 1 .. Len(frames) : frames[i].is_final <=> i = 1
    /\ Running => Len(frames) > 1

\* Execution resumes in the function that made the call, tail calls or not:
\* every return address points into the code of the frame below.
ReturnsIntoCaller ==
    /\ \A i \in 2 .. Len(frames) : frames[i].return_address = frames[i - 1].code
    /\ Running => next = Top.code

\* A frame whose result is discarded has, below it, an operand its caller pre-pushed, so
\* the caller always gets exactly one value (code.c: new, require, the tail call test).
DiscardHasPrepushed ==
    \A i \in 2 .. Len(frames) : frames[i].discard_result => frames[i - 1].ops # << >>

\* The running code never holds a DOMAIN_GLOBAL as an operand: return resolves the one
\* that require left (code.c, pinta_code_return).
NoRawExport ==
    Running => \A k \in 1 .. Len(Top.ops) : Top.ops[k] # "export"

\* Code runs with the globals, strings and functions of its own module: thread->domain
\* is the domain of the function in the running frame.
RunsInOwnDomain == Running => domain = DomainOf(Top.code)

\* A return never overflows the stack: the frame it pops leaves room for the result.
ReturnHasRoom == [][Return /\ HasOperands(frames, 1) => ~fault']_vars

\* The program sees activations, each call leaving one result of its own, each in its
\* own module; frames, tail calls and discarded results implement them.
ProgramSeesActivations == Program!Spec
=============================================================================
