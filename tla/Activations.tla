----------------------------- MODULE Activations -----------------------------
(***************************************************************************)
(* What the calls of the virtual machine promise a program: activations of *)
(* functions on a stack, each with its own operands; a return takes one    *)
(* activation away and leaves exactly one result among the operands of the *)
(* activation it goes back to; code always runs in the module it was       *)
(* loaded with.  A function called right before a return may take the      *)
(* place of its caller.  Frames and how they are laid out do not appear.   *)
(***************************************************************************)
EXTENDS Integers, Sequences

CONSTANTS Functions, ModuleOf(_), Results, NoModule

VARIABLES acts,     \* the activations: [fn, ops, result], the running one last
          module    \* the module whose globals, strings and functions are in use

vars == <<acts, module>>

Init == acts = << >> /\ module = NoModule

Last(A) == A[Len(A)]
Callers(A) == SubSeq(A, 1, Len(A) - 1)
WithOps(A, ops) == Append(Callers(A), [Last(A) EXCEPT !.ops = ops])

\* The running code computes: it takes some operands off and puts others on.
Compute(A, B) ==
    /\ A # << >> /\ Len(B) = Len(A)
    /\ B = WithOps(A, Last(B).ops)

\* A call takes its arguments from the operands; its return will leave result.
Call(A, B, m) ==
    \E f \in Functions, result \in Results :
      /\ m = ModuleOf(f)
      /\ Len(B) = Len(A) + 1
      /\ Last(B) = [fn |-> f, ops |-> << >>, result |-> result]
      /\ A # << >> => LET kept == Last(Callers(B)).ops IN
                      /\ Len(kept) <= Len(Last(A).ops)
                      /\ kept = SubSeq(Last(A).ops, 1, Len(kept))
                      /\ Callers(B) = WithOps(A, kept)

\* A call in tail position: the callee returns to the caller of its caller.
TailCall(A, B, m) ==
    /\ A # << >>
    /\ \E f \in Functions :
         /\ m = ModuleOf(f)
         /\ B = Append(Callers(A), [Last(A) EXCEPT !.fn = f, !.ops = << >>])

\* A return leaves the result of the activation it ends to the one below.
Return(A, B, m) ==
    /\ Len(A) > 1 /\ Last(A).ops # << >>
    /\ B = WithOps(Callers(A), Append(Last(Callers(A)).ops, Last(A).result))
    /\ m = ModuleOf(Last(B).fn)

\* The program is over: its last return, its exit, or an error.
End(A, B, m) == A # << >> /\ B = << >> /\ m = NoModule

Next == LET A == acts
            B == acts'
            m == module'
        IN  \/ Compute(A, B) /\ m = module
            \/ Call(A, B, m) \/ TailCall(A, B, m) \/ Return(A, B, m) \/ End(A, B, m)

Spec == Init /\ [][Next]_vars
=============================================================================
