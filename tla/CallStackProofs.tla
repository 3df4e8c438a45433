--------------------------- MODULE CallStackProofs ---------------------------
(***************************************************************************)
(* Proofs about CallStack, for every number of functions, domains and      *)
(* slots.  Stack states what is true of any list of frames the thread may  *)
(* hold, whether or not code is running on it; three lemmas say that the   *)
(* top frame may change, a frame may be pushed and a frame may be popped.  *)
(* IInv adds what is true while code runs.                                 *)
(*                                                                         *)
(* The last part shows that CallStack implements Activations.  Acts gives  *)
(* the activations of a list of frames.  One lemma says what each change   *)
(* of the frames does to them; another, what a step of Activations needs   *)
(* of two sequences.  A step of the thread is a change followed by the     *)
(* step it looks like, or ends the program.                                *)
(***************************************************************************)
EXTENDS CallStack, SequenceTheorems, TLAPS

\* Only the last operand may be an export, and only for a result to be discarded.
ExportsOnTop(ops, discard) ==
    \A k \in 1 .. Len(ops) : ops[k] = "export" => discard /\ k = Len(ops)

\* The relation of a frame to the frame it was pushed on.
FrameOn(fr, caller) ==
    /\ fr.base = StackTop(caller) + 1
    /\ ~fr.is_final
    /\ fr.return_address = caller.code
    /\ fr.discard_result => caller.ops # << >>
    /\ fr.code \in Functions
    /\ ExportsOnTop(caller.ops, fr.discard_result)

Stack(fs) ==
    /\ fs \in Seq(Frame) /\ fs # << >>
    /\ fs[1].base = 0 /\ fs[1].is_final /\ fs[1].code = None
    /\ \A i \in 2 .. Len(fs) : FrameOn(fs[i], fs[i - 1])
    /\ StackTop(Last(fs)) < StackSize

-----------------------------------------------------------------------------
(* Lists of frames *)

\* The frame of pinta_frame_init has the type of a frame.
LEMMA BaseFrameIsFrame == BaseFrame \in Frame
BY CallStackAssumption DEF BaseFrame, Frame

\* The last frame of a stack that is not empty is one of its frames.
LEMMA LastFrame ==
    ASSUME NEW fs \in Seq(Frame), fs # << >>
    PROVE  /\ Len(fs) \in Nat \ {0}
           /\ Last(fs) \in Frame
           /\ Last(fs).ops \in Seq(Operand)
           /\ Len(Last(fs).ops) \in Nat
           /\ Last(fs).base \in Nat
           /\ StackTop(Last(fs)) \in Nat
<1>1. Len(fs) \in Nat \ {0}
  BY EmptySeq
<1>2. Last(fs) \in Frame
  BY <1>1, ElementOfSeq DEF Last
<1>3. Last(fs).ops \in Seq(Operand) /\ Last(fs).base \in Nat
  BY <1>2 DEF Frame
<1>5. Len(Last(fs).ops) \in Nat
  BY <1>3, LenProperties
<1>4. StackTop(Last(fs)) \in Nat
  BY <1>3, <1>5, CallStackAssumption DEF StackTop
<1> QED BY <1>1, <1>2, <1>3, <1>4, <1>5

\* The initial stack of pinta_frame_init is one.
LEMMA InitialStack == Stack(<<BaseFrame>>)
<1>1. <<BaseFrame>> \in Seq(Frame) /\ Len(<<BaseFrame>>) = 1
  BY BaseFrameIsFrame
<1>2. StackTop(BaseFrame) = FrameSize - 1
  BY CallStackAssumption DEF BaseFrame, StackTop
<1> QED BY <1>1, <1>2, CallStackAssumption DEF Stack, Last, BaseFrame

\* The top frame may change its operands, its code and where it returns to in the domains,
\* as long as it fits in the stack and the discard_result flag stays.
LEMMA TopChanged ==
    ASSUME NEW fs, Stack(fs), NEW fr \in Frame,
           fr.base = Last(fs).base, fr.is_final = Last(fs).is_final,
           fr.return_address = Last(fs).return_address,
           fr.discard_result = Last(fs).discard_result,
           ~(Len(fs) > 1) => fr.code = None,
           Len(fs) > 1 => fr.code \in Functions,
           StackTop(fr) < StackSize
    PROVE  /\ Stack(WithTop(fs, fr))
           /\ Len(WithTop(fs, fr)) = Len(fs)
           /\ Last(WithTop(fs, fr)) = fr
           /\ \A i \in 1 .. Len(fs) - 1 : WithTop(fs, fr)[i] = fs[i]
<1> DEFINE gs == WithTop(fs, fr)
<1>1. fs \in Seq(Frame) /\ fs # << >> /\ Len(fs) \in Nat \ {0}
  BY EmptySeq DEF Stack
<1>2. /\ gs \in Seq(Frame) /\ Len(gs) = Len(fs)
      /\ \A i \in 1 .. Len(fs) : gs[i] = IF i = Len(fs) THEN fr ELSE fs[i]
  BY <1>1, ExceptSeq DEF WithTop
<1>3. Last(gs) = fr
  BY <1>1, <1>2 DEF Last
<1>4. gs[1].base = 0 /\ gs[1].is_final /\ gs[1].code = None
  BY <1>1, <1>2 DEF Stack, Last
<1>5. ASSUME NEW i \in 2 .. Len(gs)
      PROVE  FrameOn(gs[i], gs[i - 1])
  <2>1. FrameOn(fs[i], fs[i - 1]) /\ gs[i - 1] = fs[i - 1]
    BY <1>1, <1>2 DEF Stack
  <2>2. CASE i = Len(fs)
    BY <1>1, <1>2, <2>1, <2>2 DEF FrameOn, Last
  <2>3. CASE i # Len(fs)
    BY <1>1, <1>2, <2>1, <2>3
  <2> QED BY <2>2, <2>3
<1>6. gs # << >>
  BY <1>1, <1>2
<1> QED BY <1>1, <1>2, <1>3, <1>4, <1>5, <1>6 DEF Stack

\* A frame that fits may be pushed.
LEMMA FrameAppended ==
    ASSUME NEW fs, Stack(fs), NEW fr \in Frame,
           FrameOn(fr, Last(fs)), StackTop(fr) < StackSize
    PROVE  /\ Stack(Append(fs, fr))
           /\ Len(Append(fs, fr)) = Len(fs) + 1
           /\ Last(Append(fs, fr)) = fr
           /\ \A i \in 1 .. Len(fs) : Append(fs, fr)[i] = fs[i]
<1> DEFINE gs == Append(fs, fr)
<1>1. fs \in Seq(Frame) /\ fs # << >> /\ Len(fs) \in Nat \ {0}
  BY EmptySeq DEF Stack
<1>2. /\ gs \in Seq(Frame) /\ Len(gs) = Len(fs) + 1
      /\ \A i \in 1 .. Len(fs) : gs[i] = fs[i]
      /\ gs[Len(fs) + 1] = fr
  BY <1>1
<1>3. Last(gs) = fr /\ gs # << >>
  BY <1>1, <1>2 DEF Last
<1>4. gs[1].base = 0 /\ gs[1].is_final /\ gs[1].code = None
  BY <1>1, <1>2 DEF Stack
<1>5. ASSUME NEW i \in 2 .. Len(gs)
      PROVE  FrameOn(gs[i], gs[i - 1])
  <2>1. CASE i = Len(fs) + 1
    BY <1>1, <1>2, <2>1 DEF Last
  <2>2. CASE i # Len(fs) + 1
    BY <1>1, <1>2, <2>2 DEF Stack
  <2> QED BY <2>1, <2>2
<1> QED BY <1>1, <1>2, <1>3, <1>4, <1>5 DEF Stack

\* A frame may be popped, and then one more operand fits if the frame held one.
LEMMA FramePopped ==
    ASSUME NEW fs, Stack(fs), Len(fs) > 1
    PROVE  LET gs == SubSeq(fs, 1, Len(fs) - 1)
           IN  /\ Stack(gs)
               /\ Len(gs) = Len(fs) - 1
               /\ Last(gs) = fs[Len(fs) - 1]
               /\ \A i \in 1 .. Len(fs) - 1 : gs[i] = fs[i]
               /\ FrameOn(Last(fs), Last(gs))
               /\ StackTop(Last(gs)) + FrameSize + Len(Last(fs).ops) < StackSize
<1> DEFINE gs == SubSeq(fs, 1, Len(fs) - 1)
<1>1. fs \in Seq(Frame) /\ fs # << >> /\ Len(fs) \in Nat \ {0}
  BY EmptySeq DEF Stack
<1>2. /\ gs \in Seq(Frame) /\ Len(gs) = Len(fs) - 1
      /\ \A i \in 1 .. Len(fs) - 1 : gs[i] = fs[i]
  <2>1. \A i \in 1 .. Len(fs) - 1 : fs[i] \in Frame
    BY <1>1, ElementOfSeq
  <2> QED BY <1>1, <2>1, SubSeqProperties
<1> HIDE DEF gs
<1>3. Last(gs) = fs[Len(fs) - 1] /\ gs # << >>
  BY <1>1, <1>2 DEF Last
<1>4. gs[1].base = 0 /\ gs[1].is_final /\ gs[1].code = None
  BY <1>1, <1>2 DEF Stack
<1>5. \A i \in 2 .. Len(gs) : FrameOn(gs[i], gs[i - 1])
  BY <1>1, <1>2 DEF Stack
<1>6. FrameOn(Last(fs), Last(gs))
  BY <1>1, <1>3 DEF Stack, Last
<1>7. StackTop(Last(gs)) + FrameSize + Len(Last(fs).ops) < StackSize
  <2>1. StackTop(Last(fs)) < StackSize /\ StackTop(Last(gs)) \in Nat
    BY <1>2, <1>3, LastFrame DEF Stack
  <2>2. Last(fs).base = StackTop(Last(gs)) + 1
    BY <1>6 DEF FrameOn
  <2>3. Len(Last(fs).ops) \in Nat
    BY <1>1, LastFrame, LenProperties
  <2>4. StackTop(Last(fs)) = Last(fs).base + FrameSize - 1 + Len(Last(fs).ops)
    BY DEF StackTop
  <2> QED BY <2>1, <2>2, <2>3, <2>4, CallStackAssumption
<1>8. StackTop(Last(gs)) < StackSize
  BY <1>1, <1>2, <1>3, <1>7, LastFrame, LenProperties, CallStackAssumption
<1> QED BY <1>1, <1>2, <1>3, <1>4, <1>5, <1>6, <1>7, <1>8 DEF Stack, gs

-----------------------------------------------------------------------------
(* The operands of the top frame *)

\* The operands of the top frame may be replaced by others that fit.
LEMMA OperandsChanged ==
    ASSUME NEW fs, Stack(fs), NEW ops \in Seq(Operand),
           Last(fs).base + FrameSize - 1 + Len(ops) < StackSize
    PROVE  LET gs == WithTop(fs, [Last(fs) EXCEPT !.ops = ops])
           IN  /\ Stack(gs)
               /\ Len(gs) = Len(fs)
               /\ Last(gs) = [Last(fs) EXCEPT !.ops = ops]
<1>1. fs \in Seq(Frame) /\ fs # << >> /\ Len(fs) \in Nat \ {0} /\ Last(fs) \in Frame
  BY LastFrame DEF Stack
<1> DEFINE fr == [Last(fs) EXCEPT !.ops = ops]
<1>2. /\ fr \in Frame
      /\ fr.ops = ops
      /\ fr.base = Last(fs).base /\ fr.is_final = Last(fs).is_final
      /\ fr.return_address = Last(fs).return_address
      /\ fr.discard_result = Last(fs).discard_result /\ fr.code = Last(fs).code
  BY <1>1 DEF Frame
<1>3. (~(Len(fs) > 1) => fr.code = None) /\ (Len(fs) > 1 => fr.code \in Functions)
  BY <1>1, <1>2 DEF Stack, FrameOn, Last
<1>4. StackTop(fr) < StackSize
  BY <1>2 DEF StackTop
<1> HIDE DEF fr
<1>5. Stack(WithTop(fs, fr)) /\ Len(WithTop(fs, fr)) = Len(fs) /\ Last(WithTop(fs, fr)) = fr
  BY <1>2, <1>3, <1>4, TopChanged
<1> QED BY <1>5 DEF fr

\* A push that fits.
LEMMA OperandPushed ==
    ASSUME NEW fs, Stack(fs), HasRoom(fs, 1), NEW v \in Operand
    PROVE  /\ Stack(Pushed(fs, v))
           /\ Len(Pushed(fs, v)) = Len(fs)
           /\ Last(Pushed(fs, v)) = [Last(fs) EXCEPT !.ops = Append(Last(fs).ops, v)]
           /\ StackTop(Last(Pushed(fs, v))) = StackTop(Last(fs)) + 1
<1>1. Last(fs).ops \in Seq(Operand) /\ Last(fs).base \in Nat /\ Last(fs) \in Frame
  BY LastFrame DEF Stack
<1>2. Append(Last(fs).ops, v) \in Seq(Operand) /\ Len(Append(Last(fs).ops, v)) = Len(Last(fs).ops) + 1
  BY <1>1
<1>3. Last(fs).base + FrameSize - 1 + Len(Append(Last(fs).ops, v)) < StackSize
  BY <1>1, <1>2, CallStackAssumption, LenProperties DEF HasRoom, StackTop
<1>4. /\ Stack(Pushed(fs, v)) /\ Len(Pushed(fs, v)) = Len(fs)
      /\ Last(Pushed(fs, v)) = [Last(fs) EXCEPT !.ops = Append(Last(fs).ops, v)]
  BY <1>2, <1>3, OperandsChanged DEF Pushed
<1>5. StackTop(Last(Pushed(fs, v))) = StackTop(Last(fs)) + 1
  <2> DEFINE more == Append(Last(fs).ops, v)
  <2> HIDE DEF more
  <2>1. Last(Pushed(fs, v)).ops = more /\ Last(Pushed(fs, v)).base = Last(fs).base
    BY <1>1, <1>4 DEF Frame, more
  <2>2. Len(more) = Len(Last(fs).ops) + 1 /\ Len(Last(fs).ops) \in Nat
    BY <1>1, <1>2, LenProperties DEF more
  <2> QED BY <1>1, <2>1, <2>2, CallStackAssumption DEF StackTop
<1> QED BY <1>4, <1>5

\* Operands taken off: the others stay as they were.
LEMMA OperandsDiscarded ==
    ASSUME NEW fs, Stack(fs), NEW n \in Nat, HasOperands(fs, n)
    PROVE  LET ops == SubSeq(Last(fs).ops, 1, Len(Last(fs).ops) - n)
           IN  /\ Stack(Discarded(fs, n))
               /\ Len(Discarded(fs, n)) = Len(fs)
               /\ Last(Discarded(fs, n)) = [Last(fs) EXCEPT !.ops = ops]
               /\ ops \in Seq(Operand) /\ Len(ops) = Len(Last(fs).ops) - n
               /\ \A k \in 1 .. Len(ops) : ops[k] = Last(fs).ops[k]
<1> DEFINE all == Last(fs).ops
           ops == SubSeq(all, 1, Len(all) - n)
<1>1. all \in Seq(Operand) /\ Last(fs).base \in Nat /\ Last(fs) \in Frame /\ Len(all) \in Nat
  BY LastFrame DEF Stack
<1>2. Len(all) >= n
  BY DEF HasOperands
<1>3. \A k \in 1 .. Len(all) - n : all[k] \in Operand
  BY <1>1, ElementOfSeq
<1>4. /\ ops \in Seq(Operand) /\ Len(ops) = Len(all) - n
      /\ \A k \in 1 .. Len(ops) : ops[k] = all[k]
  <2> HIDE DEF all
  <2> QED BY <1>1, <1>2, <1>3, SubSeqProperties
<1> HIDE DEF ops
<1>5. Last(fs).base + FrameSize - 1 + Len(ops) < StackSize
  BY <1>1, <1>2, <1>4, CallStackAssumption DEF Stack, StackTop
<1>6. Discarded(fs, n) = WithTop(fs, [Last(fs) EXCEPT !.ops = ops])
  BY DEF Discarded, ops
<1>7. Stack(Discarded(fs, n)) /\ Len(Discarded(fs, n)) = Len(fs) /\ Last(Discarded(fs, n)) = [Last(fs) EXCEPT !.ops = ops]
  BY <1>4, <1>5, <1>6, OperandsChanged
<1> QED BY <1>4, <1>7 DEF ops

-----------------------------------------------------------------------------
(* Entering a function *)

Types ==
    /\ domain \in Domains \cup {None}
    /\ next \in Functions \cup {None}
    /\ executing \in BOOLEAN /\ finished \in BOOLEAN /\ fault \in BOOLEAN

\* What must hold of the frames when code is about to run on them.
Ready(fs) ==
    /\ Len(fs) > 1
    /\ next = Last(fs).code
    /\ ExportsOnTop(Last(fs).ops, FALSE)

\* The inductive invariant of the frames and of the flags of the thread.
IInv ==
    /\ Stack(frames)
    /\ Types
    /\ ~executing => frames = <<BaseFrame>> /\ next = None
    /\ Running => Ready(frames)

\* The frames that Enter leaves: unchanged, or with a frame for f.
Activated(fs, f, tail, return_domain, discard) ==
    \/ frames' = fs /\ fault'
    \/ \E fr \in Frame :
         /\ fr.code = f /\ fr.return_domain = return_domain
         /\ fr.ops = << >> /\ fr.discard_result = discard
         /\ frames' = IF tail THEN WithTop(fs, fr) ELSE Append(fs, fr)
         /\ domain' = DomainOf(f)

\* pinta_lib_frame_push and the writes that follow it, tail calls included, keep the invariant.
LEMMA EnterKeeps ==
    ASSUME NEW fs, Stack(fs), Types, next = Last(fs).code,
           NEW f \in Functions, NEW tail \in BOOLEAN,
           NEW return_domain \in Domains \cup {None}, NEW discard \in BOOLEAN,
           tail => /\ ~discard /\ Len(fs) > 1
                   /\ ~Last(fs).discard_result /\ Last(fs).ops = << >>,
           ~tail => /\ discard => Last(fs).ops # << >>
                    /\ ExportsOnTop(Last(fs).ops, discard),
           Enter(fs, f, tail, return_domain, discard), executing' \in BOOLEAN
    PROVE  /\ Stack(frames') /\ Types'
           /\ ~fault' => Ready(frames)'
           /\ Activated(fs, f, tail, return_domain, discard)
<1>1. fs \in Seq(Frame) /\ fs # << >> /\ Len(fs) \in Nat \ {0} /\ Last(fs) \in Frame
  BY LastFrame DEF Stack
<1>2. DomainOf(f) \in Domains
  BY CallStackAssumption
<1>3. CASE tail
  <2> DEFINE fr == [Last(fs) EXCEPT !.discard_result = discard, !.code = f,
                                    !.return_domain = return_domain]
  <2>1. /\ fr \in Frame /\ fr.ops = << >>
        /\ fr.base = Last(fs).base /\ fr.is_final = Last(fs).is_final
        /\ fr.return_address = Last(fs).return_address
        /\ fr.discard_result = discard
        /\ fr.code = f /\ fr.return_domain = return_domain
    BY <1>1, <1>3 DEF Frame
  <2>2. Entered(fs, f, tail, return_domain, discard) = WithTop(fs, fr)
    BY <1>1, <1>3 DEF Entered, Frame
  <2>3. StackTop(fr) < StackSize
    BY <1>1, <1>3, <2>1 DEF StackTop, Stack
  <2> HIDE DEF fr
  <2>4. /\ Stack(WithTop(fs, fr)) /\ Len(WithTop(fs, fr)) = Len(fs) /\ Last(WithTop(fs, fr)) = fr
    <3>1. (~(Len(fs) > 1) => fr.code = None) /\ (Len(fs) > 1 => fr.code \in Functions)
      BY <1>3, <2>1
    <3>2. Last(fs).discard_result = FALSE /\ discard = FALSE
      BY <1>1, <1>3 DEF Frame
    <3> QED BY <2>1, <2>3, <3>1, <3>2, TopChanged
  <2>5. /\ frames' = WithTop(fs, fr) /\ next' = f /\ domain' = DomainOf(f)
        /\ UNCHANGED <<finished, fault>>
    BY <1>3, <2>2 DEF Enter
  <2>6. Stack(frames') /\ Types'
    BY <1>2, <2>4, <2>5 DEF Types
  <2>7. Len(frames') > 1 /\ next' = Last(frames').code /\ Last(frames').ops = << >>
    BY <1>3, <2>1, <2>4, <2>5
  <2>8. Activated(fs, f, tail, return_domain, discard)
    BY <1>3, <2>1, <2>5 DEF Activated
  <2> QED BY <2>6, <2>7, <2>8 DEF Ready, ExportsOnTop
<1>4. CASE ~tail /\ HasFrameRoom(fs)
  <2> DEFINE fr0 == [BaseFrame EXCEPT !.base = StackTop(Last(fs)) + 1, !.is_final = FALSE]
             fr == [fr0 EXCEPT !.discard_result = discard, !.code = f,
                               !.return_domain = return_domain, !.return_address = next]
  <2>1. StackTop(Last(fs)) \in Nat /\ StackTop(Last(fs)) + 1 + FrameSize < StackSize
    BY <1>1, <1>4, LastFrame DEF HasFrameRoom
  <2>3. /\ fr0 \in Frame /\ fr0.ops = << >> /\ fr0.base = StackTop(Last(fs)) + 1
        /\ ~fr0.is_final
    <3> DEFINE b == StackTop(Last(fs)) + 1
    <3>1. b \in 0 .. StackSize - 1
      BY <2>1, CallStackAssumption
    <3> HIDE DEF b
    <3>2. fr0 \in Frame
      BY <3>1, BaseFrameIsFrame DEF Frame, b
    <3>3. fr0.ops = << >> /\ fr0.base = b /\ ~fr0.is_final
      BY DEF BaseFrame, b
    <3> QED BY <3>2, <3>3 DEF b
  <2>2. /\ fr \in Frame /\ fr.ops = << >> /\ fr.base = StackTop(Last(fs)) + 1
        /\ ~fr.is_final /\ fr.return_address = Last(fs).code /\ fr.discard_result = discard
        /\ fr.code = f /\ fr.return_domain = return_domain
    <3>1. next \in Functions \cup {None}
      BY DEF Types
    <3> HIDE DEF fr0
    <3>2. fr \in Frame
      BY <2>3, <3>1 DEF Frame
    <3> QED BY <2>3, <3>2 DEF Frame
  <2>4. StackTop(fr) < StackSize
    BY <2>1, <2>2, CallStackAssumption DEF StackTop
  <2>5. FrameOn(fr, Last(fs))
    BY <1>4, <2>2 DEF FrameOn
  <2>6. Entered(FramePushed(fs), f, tail, return_domain, discard) = Append(fs, fr)
    <3>1. FramePushed(fs) = Append(fs, fr0)
      BY DEF FramePushed
    <3>2. /\ Append(fs, fr0) \in Seq(Frame) /\ Len(Append(fs, fr0)) = Len(fs) + 1
          /\ Append(fs, fr0)[Len(fs) + 1] = fr0
          /\ \A i \in 1 .. Len(fs) : Append(fs, fr0)[i] = fs[i]
      <4> HIDE DEF fr0
      <4> QED BY <1>1, <2>3
    <3>3. Last(Append(fs, fr0)) = fr0
      BY <3>2 DEF Last
    <3>4. [fr0 EXCEPT !.discard_result = discard, !.code = f, !.return_domain = return_domain,
                      !.return_address = IF tail THEN @ ELSE next] = fr
      BY <1>4
    <3> HIDE DEF fr, fr0
    <3>5. [Append(fs, fr0) EXCEPT ![Len(fs) + 1] = fr] = Append(fs, fr)
      <4>1. /\ Append(fs, fr) \in Seq(Frame) /\ Len(Append(fs, fr)) = Len(fs) + 1
            /\ Append(fs, fr)[Len(fs) + 1] = fr
            /\ \A i \in 1 .. Len(fs) : Append(fs, fr)[i] = fs[i]
        BY <1>1, <2>2
      <4> DEFINE A == Append(fs, fr0)
                 L == [A EXCEPT ![Len(fs) + 1] = fr]
      <4>5. /\ A \in Seq(Frame) /\ Len(A) = Len(fs) + 1
            /\ \A i \in 1 .. Len(fs) : A[i] = fs[i]
        BY <3>2
      <4> HIDE DEF A
      <4>2. /\ L \in Seq(Frame) /\ Len(L) = Len(fs) + 1
            /\ \A i \in 1 .. Len(fs) + 1 : L[i] = IF i = Len(fs) + 1 THEN fr ELSE A[i]
        BY <1>1, <2>2, <4>5, ExceptSeq
      <4> HIDE DEF L
      <4>3. \A i \in 1 .. Len(L) : L[i] = Append(fs, fr)[i]
        BY <1>1, <4>1, <4>2, <4>5
      <4>4. L = Append(fs, fr)
        BY <4>1, <4>2, <4>3, SeqEqual
      <4> QED BY <4>4 DEF L, A
    <3> QED BY <3>1, <3>2, <3>3, <3>4, <3>5 DEF Entered, WithTop
  <2> HIDE DEF fr
  <2>7. /\ Stack(Append(fs, fr)) /\ Len(Append(fs, fr)) = Len(fs) + 1 /\ Last(Append(fs, fr)) = fr
    BY <2>2, <2>4, <2>5, FrameAppended
  <2>8. /\ frames' = Append(fs, fr) /\ next' = f /\ domain' = DomainOf(f)
        /\ UNCHANGED <<finished, fault>>
    BY <1>4, <2>6 DEF Enter
  <2>9. Stack(frames') /\ Types'
    BY <1>2, <2>7, <2>8 DEF Types
  <2>10. Len(frames') > 1 /\ next' = Last(frames').code /\ Last(frames').ops = << >>
    BY <1>1, <2>2, <2>7, <2>8
  <2>11. Activated(fs, f, tail, return_domain, discard)
    BY <1>4, <2>2, <2>8 DEF Activated
  <2> QED BY <2>9, <2>10, <2>11 DEF Ready, ExportsOnTop
<1>5. CASE ~tail /\ ~HasFrameRoom(fs)
  <2>1. frames' = fs /\ fault' = TRUE /\ UNCHANGED <<domain, next, finished>>
    BY <1>5 DEF Enter
  <2> QED BY <2>1 DEF Types, Activated
<1> QED BY <1>3, <1>4, <1>5

\* pinta_code_invoke_function_managed, for whoever calls it.
LEMMA InvokeKeeps ==
    ASSUME NEW fs, Stack(fs), Types, next = Last(fs).code,
           NEW f \in Functions, NEW n \in Nat, NEW ret \in BOOLEAN, NEW discard \in BOOLEAN,
           HasOperands(fs, n) => LET ops == Last(Discarded(fs, n)).ops
                                 IN  (discard => ops # << >>) /\ ExportsOnTop(ops, discard),
           InvokeManaged(fs, f, n, ret, discard), executing' \in BOOLEAN
    PROVE  /\ Stack(frames') /\ Types'
           /\ ~fault' => Ready(frames)'
           /\ ~fault' => HasOperands(fs, n)
           /\ HasOperands(fs, n) =>
                Activated(Discarded(fs, n), f,
                          IsTailCall(Discarded(fs, n), ret) /\ domain = DomainOf(f), domain, discard)
<1> DEFINE taken == Discarded(fs, n)
           tail == IsTailCall(taken, ret) /\ domain = DomainOf(f)
<1>1. CASE HasOperands(fs, n)
  <2>1. /\ Stack(taken) /\ Last(taken).code = Last(fs).code
        /\ discard => Last(taken).ops # << >>
        /\ ExportsOnTop(Last(taken).ops, discard)
    <3>1. Last(fs) \in Frame
      BY LastFrame DEF Stack
    <3>2. Stack(taken) /\ Last(taken) = [Last(fs) EXCEPT !.ops = SubSeq(Last(fs).ops, 1, Len(Last(fs).ops) - n)]
      BY <1>1, OperandsDiscarded
    <3>3. Last(taken).code = Last(fs).code
      BY <3>1, <3>2 DEF Frame
    <3> QED BY <1>1, <3>2, <3>3
  <2>2. Enter(taken, f, tail, domain, discard)
    BY <1>1 DEF InvokeManaged
  <2>3. tail \in BOOLEAN
    OBVIOUS
  <2> HIDE DEF taken
  <2>4. tail => /\ ~discard /\ Len(taken) > 1
                /\ ~Last(taken).discard_result /\ Last(taken).ops = << >>
    <3>1. taken \in Seq(Frame) /\ taken # << >> /\ taken[1].code = None
      BY <2>1 DEF Stack
    <3>2. Len(taken) \in Nat \ {0}
      BY <3>1, EmptySeq
    <3>3. Last(taken).code # None => Len(taken) > 1
      BY <3>1, <3>2 DEF Last
    <3> QED BY <2>1, <3>3 DEF IsTailCall
  <2> HIDE DEF tail
  <2>5. domain \in Domains \cup {None}
    BY DEF Types
  <2>6. /\ Stack(frames') /\ Types' /\ (~fault' => Ready(frames)')
        /\ Activated(taken, f, tail, domain, discard)
    BY <2>1, <2>2, <2>3, <2>4, <2>5, EnterKeeps
  <2> QED BY <1>1, <2>6 DEF taken, tail
<1>2. CASE ~HasOperands(fs, n)
  BY <1>2 DEF InvokeManaged, Types
<1> QED BY <1>1, <1>2

-----------------------------------------------------------------------------
(* The steps *)

\* A step that only changes the operands of the running frame.
LEMMA ContinueKeeps ==
    ASSUME IInv, Running, NEW gs, Stack(gs), Len(gs) = Len(frames),
           Last(gs).code = Top.code, ExportsOnTop(Last(gs).ops, FALSE), Continue(gs)
    PROVE  IInv'
BY DEF IInv, Types, Ready, Running, Continue, Top

\* An exception keeps the invariant if the frames it leaves still are a stack.
LEMMA ThrowKeeps ==
    ASSUME IInv, Running, NEW gs, Stack(gs), Throw(gs)
    PROVE  IInv'
BY DEF IInv, Types, Running, Throw

\* What every instruction may count on.
LEMMA RunningFrames ==
    ASSUME IInv, Running
    PROVE  /\ Stack(frames) /\ Types /\ executing /\ next = Last(frames).code /\ Len(frames) > 1
           /\ Top = Last(frames) /\ Top \in Frame /\ Top.ops \in Seq(Operand) /\ Len(Top.ops) \in Nat
           /\ \A k \in 1 .. Len(Top.ops) : Top.ops[k] # "export"
<1>1. Stack(frames) /\ Types /\ executing /\ Ready(frames)
  BY DEF IInv, Running
<1>2. /\ Last(frames) \in Frame /\ Last(frames).ops \in Seq(Operand)
      /\ Len(Last(frames).ops) \in Nat
  BY <1>1, LastFrame DEF Stack
<1> QED BY <1>1, <1>2 DEF Ready, Top, ExportsOnTop

\* Operands taken off the running frame leave no export.
LEMMA RunningDiscarded ==
    ASSUME IInv, Running, NEW n \in Nat, HasOperands(frames, n)
    PROVE  LET taken == Discarded(frames, n)
           IN  /\ Stack(taken) /\ Len(taken) = Len(frames)
               /\ Last(taken).code = Top.code /\ Last(taken).ops \in Seq(Operand)
               /\ ExportsOnTop(Last(taken).ops, FALSE)
               /\ Len(Last(taken).ops) = Len(Top.ops) - n
               /\ StackTop(Last(taken)) = StackTop(Top) - n
               /\ StackTop(Top) \in Nat
<1> DEFINE taken == Discarded(frames, n)
           ops == SubSeq(Last(frames).ops, 1, Len(Last(frames).ops) - n)
<1>1. /\ Stack(frames) /\ Top = Last(frames) /\ Top \in Frame /\ Len(Top.ops) \in Nat
      /\ \A k \in 1 .. Len(Top.ops) : Top.ops[k] # "export"
  BY RunningFrames
<1>2. /\ Stack(taken) /\ Len(taken) = Len(frames) /\ Last(taken) = [Last(frames) EXCEPT !.ops = ops]
      /\ ops \in Seq(Operand) /\ Len(ops) = Len(Top.ops) - n
      /\ \A k \in 1 .. Len(ops) : ops[k] = Last(frames).ops[k]
  BY <1>1, OperandsDiscarded
<1> HIDE DEF taken, ops
<1>3. /\ Last(taken).ops = ops /\ Last(taken).code = Top.code /\ Last(taken).base = Top.base
  BY <1>1, <1>2 DEF Frame
<1>4. ExportsOnTop(ops, FALSE)
  BY <1>1, <1>2 DEF ExportsOnTop
<1>5. StackTop(Top) \in Nat /\ Top.base \in Nat
  BY <1>1, LastFrame DEF Stack
<1>6. StackTop(Last(taken)) = StackTop(Top) - n
  <2>1. /\ StackTop(Top) = Top.base + FrameSize - 1 + Len(Top.ops)
        /\ StackTop(Last(taken)) = Last(taken).base + FrameSize - 1 + Len(Last(taken).ops)
    BY DEF StackTop
  <2>2. Len(Last(taken).ops) = Len(Top.ops) - n /\ Last(taken).base = Top.base
    BY <1>2, <1>3
  <2> DEFINE a == Len(Top.ops)
             b == Len(Last(taken).ops)
  <2>3. a \in Nat /\ b = a - n
    BY <1>1, <2>2
  <2> HIDE DEF a, b
  <2>4. StackTop(Top) = Top.base + FrameSize - 1 + a /\ StackTop(Last(taken)) = Top.base + FrameSize - 1 + b
    BY <2>1, <2>2 DEF a, b
  <2> QED BY <1>5, <2>3, <2>4, CallStackAssumption
<1>7. /\ Stack(taken) /\ Len(taken) = Len(frames)
      /\ Last(taken).code = Top.code /\ Last(taken).ops \in Seq(Operand)
      /\ ExportsOnTop(Last(taken).ops, FALSE)
      /\ Len(Last(taken).ops) = Len(Top.ops) - n
  BY <1>2, <1>3, <1>4
<1> QED BY <1>5, <1>6, <1>7 DEF taken

\* A push on frames whose top has no export.
LEMMA PushKeepsClear ==
    ASSUME NEW fs, Stack(fs), HasRoom(fs, 1), ExportsOnTop(Last(fs).ops, FALSE),
           NEW v \in Operand
    PROVE  /\ Stack(Pushed(fs, v)) /\ Len(Pushed(fs, v)) = Len(fs)
           /\ Last(Pushed(fs, v)).code = Last(fs).code
           /\ Last(Pushed(fs, v)).ops = Append(Last(fs).ops, v)
           /\ v # "export" => ExportsOnTop(Last(Pushed(fs, v)).ops, FALSE)
           /\ ExportsOnTop(Last(Pushed(fs, v)).ops, TRUE)
           /\ Last(Pushed(fs, v)).ops # << >>
<1>1. Last(fs) \in Frame /\ Last(fs).ops \in Seq(Operand)
  BY LastFrame DEF Stack
<1>2. /\ Stack(Pushed(fs, v)) /\ Len(Pushed(fs, v)) = Len(fs)
      /\ Last(Pushed(fs, v)) = [Last(fs) EXCEPT !.ops = Append(Last(fs).ops, v)]
  BY OperandPushed
<1>3. /\ Last(Pushed(fs, v)).ops = Append(Last(fs).ops, v)
      /\ Last(Pushed(fs, v)).code = Last(fs).code
  BY <1>1, <1>2 DEF Frame
<1> DEFINE ops == Last(fs).ops
           more == Append(ops, v)
<1>4. /\ Len(ops) \in Nat /\ more \in Seq(Operand) /\ Len(more) = Len(ops) + 1 /\ more[Len(more)] = v
      /\ \A k \in 1 .. Len(ops) : more[k] = ops[k]
  <2>1. ops \in Seq(Operand) /\ Len(ops) \in Nat
    BY <1>1, LenProperties
  <2> HIDE DEF ops
  <2> QED BY <2>1
<1> HIDE DEF more
<1>5. \A k \in 1 .. Len(more) : more[k] = "export" => v = "export" /\ k = Len(more)
  <2>1. \A k \in 1 .. Len(ops) : ops[k] # "export"
    BY DEF ExportsOnTop
  <2> HIDE DEF ops
  <2> QED BY <1>4, <2>1
<1>6. more # << >>
  BY <1>4
<1> QED BY <1>2, <1>3, <1>5, <1>6 DEF ExportsOnTop, more

\* LOAD and every other instruction that pushes one value.
LEMMA LoadKeeps == IInv /\ Load => IInv'
<1> SUFFICES ASSUME IInv, Load PROVE IInv'
  OBVIOUS
<1>1. Running /\ Stack(frames) /\ Top = Last(frames) /\ ExportsOnTop(Last(frames).ops, FALSE)
  BY RunningFrames DEF Load, ExportsOnTop
<1>2. CASE HasRoom(frames, 1)
  <2>1. Continue(Pushed(frames, "value"))
    BY <1>2 DEF Load
  <2> QED BY <1>1, <1>2, <2>1, PushKeepsClear, ContinueKeeps DEF Operand
<1>3. CASE ~HasRoom(frames, 1)
  BY <1>1, <1>3, ThrowKeeps DEF Load
<1> QED BY <1>2, <1>3

\* POP and the instructions that store a value.
LEMMA PopKeeps == IInv /\ Pop => IInv'
<1> SUFFICES ASSUME IInv, Pop PROVE IInv'
  OBVIOUS
<1>1. Running /\ Stack(frames)
  BY RunningFrames DEF Pop
<1>2. CASE HasOperands(frames, 1)
  <2>1. Continue(Discarded(frames, 1))
    BY <1>2 DEF Pop
  <2> QED BY <1>1, <1>2, <2>1, RunningDiscarded, ContinueKeeps
<1>3. CASE ~HasOperands(frames, 1)
  BY <1>1, <1>3, ThrowKeeps DEF Pop
<1> QED BY <1>2, <1>3

\* DUPLICATE and DUPLICATE_MULTIPLE.
LEMMA DuplicateKeeps ==
    ASSUME IInv, NEW n \in Nat, Duplicate(n)
    PROVE  IInv'
<1> DEFINE ops == Top.ops
           copy == SubSeq(ops, Len(ops) - n + 1, Len(ops))
           twice == ops \o copy
<1>1. /\ Running /\ Stack(frames) /\ Top = Last(frames) /\ Top \in Frame
      /\ ops \in Seq(Operand) /\ Len(ops) \in Nat
      /\ \A k \in 1 .. Len(ops) : ops[k] # "export"
  BY RunningFrames DEF Duplicate
<1>2. CASE HasRoom(frames, n) /\ HasOperands(frames, n)
  <2>1. Continue(WithTop(frames, [Top EXCEPT !.ops = twice]))
    BY <1>2 DEF Duplicate
  <2>2. Len(ops) >= n /\ StackTop(Top) + n < StackSize
    BY <1>1, <1>2 DEF HasOperands, HasRoom
  <2> HIDE DEF ops
  <2>3. /\ copy \in Seq(Operand) /\ Len(copy) = n
        /\ \A k \in 1 .. n : copy[k] = ops[Len(ops) - n + k]
    <3>1. \A k \in Len(ops) - n + 1 .. Len(ops) : ops[k] \in Operand
      BY <1>1, <2>2, ElementOfSeq
    <3> QED BY <1>1, <2>2, <3>1, SubSeqProperties
  <2> HIDE DEF copy
  <2>4. /\ twice \in Seq(Operand) /\ Len(twice) = Len(ops) + n
        /\ \A k \in 1 .. Len(twice) : twice[k] # "export"
    <3>1. /\ twice \in Seq(Operand) /\ Len(twice) = Len(ops) + n
          /\ \A k \in 1 .. Len(ops) + n : twice[k] = IF k <= Len(ops) THEN ops[k] ELSE copy[k - Len(ops)]
      BY <1>1, <2>3, ConcatProperties
    <3> HIDE DEF twice
    <3>2. ASSUME NEW k \in 1 .. n
          PROVE  copy[k] # "export"
      <4>1. Len(ops) - n + k \in 1 .. Len(ops)
        BY <1>1, <2>2
      <4> QED BY <1>1, <2>3, <4>1
    <3> QED BY <1>1, <3>1, <3>2
  <2> HIDE DEF twice
  <2>5. Last(frames).base + FrameSize - 1 + Len(twice) < StackSize
    <3>1. Top.base \in Nat
      BY <1>1, LastFrame DEF Stack
    <3>2. StackTop(Top) = Top.base + FrameSize - 1 + Len(ops)
      BY DEF StackTop, ops
    <3> QED BY <1>1, <2>2, <2>4, <3>1, <3>2, CallStackAssumption
  <2> DEFINE gs == WithTop(frames, [Last(frames) EXCEPT !.ops = twice])
  <2>6. Stack(gs) /\ Len(gs) = Len(frames) /\ Last(gs) = [Last(frames) EXCEPT !.ops = twice]
    BY <1>1, <2>4, <2>5, OperandsChanged
  <2>7. Continue(gs)
    BY <1>1, <2>1
  <2> HIDE DEF gs
  <2>8. Last(gs).ops = twice /\ Last(gs).code = Top.code
    BY <1>1, <2>6 DEF Frame
  <2>9. ExportsOnTop(Last(gs).ops, FALSE)
    BY <2>4, <2>8 DEF ExportsOnTop
  <2> QED BY <1>1, <2>6, <2>7, <2>8, <2>9, ContinueKeeps
<1>3. CASE ~(HasRoom(frames, n) /\ HasOperands(frames, n))
  BY <1>1, <1>3, ThrowKeeps DEF Duplicate
<1> QED BY <1>2, <1>3

\* CALL_INTERNAL and the INVOKE of a native function.
LEMMA InvokeNativeKeeps ==
    ASSUME IInv, NEW n \in Nat, InvokeNative(n)
    PROVE  IInv'
<1> DEFINE taken == Discarded(frames, n)
<1>1. Running /\ Stack(frames)
  BY RunningFrames DEF InvokeNative
<1>2. CASE HasOperands(frames, n)
  <2>1. /\ Stack(taken) /\ Len(taken) = Len(frames)
        /\ Last(taken).code = Top.code /\ ExportsOnTop(Last(taken).ops, FALSE)
    BY <1>1, <1>2, RunningDiscarded
  <2>2. CASE HasRoom(taken, 1)
    <3>1. Continue(Pushed(taken, "value"))
      BY <1>2, <2>2 DEF InvokeNative
    <3> HIDE DEF taken
    <3> QED BY <1>1, <2>1, <2>2, <3>1, PushKeepsClear, ContinueKeeps DEF Operand
  <2>3. CASE ~HasRoom(taken, 1)
    <3>1. Throw(taken)
      BY <1>2, <2>3 DEF InvokeNative
    <3> QED BY <1>1, <2>1, <3>1, ThrowKeeps
  <2> QED BY <2>2, <2>3
<1>3. CASE ~HasOperands(frames, n)
  BY <1>1, <1>3, ThrowKeeps DEF InvokeNative
<1> QED BY <1>2, <1>3

\* The exception of an instruction that changed nothing else.
LEMMA StoppedKeeps ==
    ASSUME IInv, executing', fault' = TRUE, NEW gs, Stack(gs), frames' = gs,
           UNCHANGED <<domain, next, finished>>
    PROVE  IInv'
BY DEF IInv, Types, Running

\* A new activation keeps the invariant.
LEMMA EnteredKeeps ==
    ASSUME Stack(frames'), Types', executing', ~fault' => Ready(frames)'
    PROVE  IInv'
BY DEF IInv, Running

\* CALL.
LEMMA CallKeeps ==
    ASSUME IInv, NEW f \in Functions, NEW n \in Nat, NEW ret \in BOOLEAN, Call(f, n, ret)
    PROVE  /\ IInv'
           /\ ~fault' => HasOperands(frames, n)
           /\ HasOperands(frames, n) =>
                LET tail == IsTailCall(Discarded(frames, n), ret)
                IN  Activated(Discarded(frames, n), f, tail, IF tail THEN Top.return_domain ELSE None, FALSE)
<1> DEFINE taken == Discarded(frames, n)
           tail == IsTailCall(taken, ret)
           return_domain == IF tail THEN Top.return_domain ELSE None
<1>1. Running /\ executing' /\ Stack(frames) /\ Types /\ Top \in Frame /\ next = Top.code
  BY RunningFrames DEF Call
<1>2. CASE HasOperands(frames, n)
  <2>1. Enter(taken, f, tail, return_domain, FALSE)
    BY <1>2 DEF Call
  <2>2. /\ Stack(taken) /\ Len(taken) = Len(frames)
        /\ Last(taken).code = Top.code /\ ExportsOnTop(Last(taken).ops, FALSE)
    BY <1>1, <1>2, RunningDiscarded
  <2>7. tail \in BOOLEAN
    BY DEF IsTailCall
  <2>3. tail \in BOOLEAN /\ return_domain \in Domains \cup {None}
    <3>1. Top.return_domain \in Domains \cup {None}
      BY <1>1 DEF Frame
    <3> HIDE DEF tail
    <3> QED BY <3>1, <2>7
  <2>4. tail => ~Last(taken).discard_result /\ Last(taken).ops = << >>
    BY DEF IsTailCall
  <2>5. Len(taken) > 1
    BY <1>1, <2>2, RunningFrames
  <2> HIDE DEF taken, tail, return_domain
  <2>6. /\ Stack(frames') /\ Types' /\ (~fault' => Ready(frames)')
        /\ Activated(taken, f, tail, return_domain, FALSE)
    BY <1>1, <2>1, <2>2, <2>3, <2>4, <2>5, EnterKeeps
  <2>8. IInv'
    BY <1>1, <2>6, EnteredKeeps
  <2> QED BY <1>2, <2>6, <2>8 DEF taken, tail, return_domain
<1>3. CASE ~HasOperands(frames, n)
  <2>1. fault' = TRUE
    BY <1>3 DEF Call
  <2>2. IInv'
    BY <1>1, <1>3, StoppedKeeps DEF Call
  <2> QED BY <1>3, <2>1, <2>2
<1> QED BY <1>2, <1>3

\* INVOKE, INVOKE_MEMBER and the accessors.
LEMMA InvokeActionKeeps ==
    ASSUME IInv, NEW f \in Functions, NEW n \in Nat, NEW ret \in BOOLEAN, Invoke(f, n, ret)
    PROVE  /\ IInv'
           /\ ~fault' => HasOperands(frames, n + 1)
           /\ HasOperands(frames, n + 1) =>
                LET taken == Discarded(frames, n + 1)
                IN  Activated(taken, f, IsTailCall(taken, ret) /\ domain = DomainOf(f), domain, FALSE)
<1>1. /\ Running /\ executing' /\ Stack(frames) /\ Types /\ next = Last(frames).code
      /\ InvokeManaged(frames, f, n + 1, ret, FALSE)
  BY RunningFrames DEF Invoke
<1> DEFINE offset == n + 1
<1>4. offset \in Nat
  OBVIOUS
<1> HIDE DEF offset
<1>2. HasOperands(frames, offset) => ExportsOnTop(Last(Discarded(frames, offset)).ops, FALSE)
  BY <1>1, <1>4, RunningDiscarded
<1>5. InvokeManaged(frames, f, offset, ret, FALSE)
  BY <1>1 DEF offset
<1>3. /\ Stack(frames') /\ Types' /\ (~fault' => Ready(frames)')
      /\ ~fault' => HasOperands(frames, offset)
      /\ HasOperands(frames, offset) =>
           LET taken == Discarded(frames, offset)
           IN  Activated(taken, f, IsTailCall(taken, ret) /\ domain = DomainOf(f), domain, FALSE)
  BY <1>1, <1>2, <1>4, <1>5, InvokeKeeps
<1>6. IInv'
  BY <1>1, <1>3, EnteredKeeps
<1> QED BY <1>3, <1>6 DEF offset

\* NEW, which pushes the instance before it enters the constructor.
LEMMA NewKeeps ==
    ASSUME IInv, NEW f \in Functions, NEW n \in Nat, New(f, n)
    PROVE  /\ IInv'
           /\ ~fault' => HasOperands(frames, n + 1) /\ HasRoom(Discarded(frames, n + 1), 1)
           /\ HasOperands(frames, n + 1) =>
                Activated(Pushed(Discarded(frames, n + 1), "instance"), f, FALSE, domain, TRUE)
<1> DEFINE taken == Discarded(frames, n + 1)
           ready == Pushed(taken, "instance")
<1>1. /\ Running /\ executing' /\ Stack(frames) /\ Types /\ next = Top.code
      /\ Len(Top.ops) \in Nat
  BY RunningFrames DEF New
<1>2. CASE HasOperands(frames, n + 1)
  <2>1. Enter(ready, f, FALSE, domain, TRUE)
    BY <1>2 DEF New
  <2>2. /\ Stack(taken) /\ Last(taken).code = Top.code /\ ExportsOnTop(Last(taken).ops, FALSE)
        /\ StackTop(Last(taken)) = StackTop(Top) - (n + 1) /\ StackTop(Top) \in Nat
    <3>1. n + 1 \in Nat
      OBVIOUS
    <3> QED BY <1>1, <1>2, <3>1, RunningDiscarded
  <2>3. HasRoom(taken, 1)
    <3>1. StackTop(Top) < StackSize
      BY <1>1 DEF Stack, Top
    <3> QED BY <2>2, <3>1, CallStackAssumption DEF HasRoom
  <2>4. /\ Stack(ready) /\ Last(ready).code = Top.code /\ Last(ready).ops # << >>
        /\ ExportsOnTop(Last(ready).ops, TRUE)
    <3> HIDE DEF taken
    <3> QED BY <2>2, <2>3, PushKeepsClear DEF Operand
  <2>5. domain \in Domains \cup {None}
    BY <1>1 DEF Types
  <2> HIDE DEF ready
  <2>6. /\ Stack(frames') /\ Types' /\ (~fault' => Ready(frames)')
        /\ Activated(ready, f, FALSE, domain, TRUE)
    BY <1>1, <2>1, <2>4, <2>5, EnterKeeps
  <2>7. IInv'
    BY <1>1, <2>6, EnteredKeeps
  <2> QED BY <1>2, <2>3, <2>6, <2>7 DEF ready
<1>3. CASE ~HasOperands(frames, n + 1)
  <2>1. fault' = TRUE
    BY <1>3 DEF New
  <2>2. IInv'
    BY <1>1, <1>3, StoppedKeeps DEF New
  <2> QED BY <1>3, <2>1, <2>2
<1> QED BY <1>2, <1>3

\* The operand pushed last is the one a call takes first.
LEMMA PushedThenDiscarded ==
    ASSUME NEW fs, Stack(fs), HasRoom(fs, 1), NEW v \in Operand
    PROVE  LET gs == Discarded(Pushed(fs, v), 1)
           IN  /\ Stack(Pushed(fs, v)) /\ Last(Pushed(fs, v)).code = Last(fs).code
               /\ Last(gs).ops = Last(fs).ops
               /\ Stack(gs) /\ HasOperands(Pushed(fs, v), 1)
<1> DEFINE old == Last(fs).ops
           more == Append(old, v)
           top == Last(Pushed(fs, v))
           kept == SubSeq(top.ops, 1, Len(top.ops) - 1)
<1>1. Last(fs) \in Frame /\ old \in Seq(Operand) /\ Len(old) \in Nat
  BY LastFrame DEF Stack
<1>2. Stack(Pushed(fs, v)) /\ top = [Last(fs) EXCEPT !.ops = more]
  BY OperandPushed
<1>3. top \in Frame /\ top.ops = more /\ top.code = Last(fs).code
  BY <1>1, <1>2, LastFrame DEF Stack, Frame
<1>4. /\ more \in Seq(Operand) /\ Len(more) = Len(old) + 1
      /\ \A k \in 1 .. Len(old) : more[k] = old[k]
  <2> HIDE DEF old
  <2> QED BY <1>1
<1> HIDE DEF more, top
<1>5. HasOperands(Pushed(fs, v), 1)
  BY <1>1, <1>3, <1>4 DEF HasOperands, top
<1>6. /\ Stack(Discarded(Pushed(fs, v), 1))
      /\ Last(Discarded(Pushed(fs, v), 1)) = [top EXCEPT !.ops = kept]
      /\ kept \in Seq(Operand) /\ Len(kept) = Len(top.ops) - 1
      /\ \A k \in 1 .. Len(kept) : kept[k] = top.ops[k]
  BY <1>2, <1>5, OperandsDiscarded DEF top
<1> HIDE DEF kept
<1>7. kept = old
  <2>1. Len(kept) = Len(old)
    BY <1>1, <1>3, <1>4, <1>6
  <2>2. \A k \in 1 .. Len(kept) : kept[k] = old[k]
    BY <1>3, <1>4, <1>6, <2>1
  <2> HIDE DEF old
  <2> QED BY <1>1, <1>6, <2>1, <2>2, SeqEqual
<1>8. Last(Discarded(Pushed(fs, v), 1)).ops = old
  BY <1>3, <1>6, <1>7 DEF Frame
<1> QED BY <1>2, <1>3, <1>5, <1>6, <1>8 DEF top

\* The frames require invokes the start function of the loaded module on.
RequireReady(n, exports) == Pushed(Pushed(Discarded(frames, n), exports), "value")

\* The native require, whose exports are the operand below the frame of the module.
LEMMA RequireKeeps ==
    ASSUME IInv, NEW f \in Functions, NEW n \in Nat, NEW exports \in {"export", "value"},
           NEW ret \in BOOLEAN, Require(f, n, exports, ret)
    PROVE  /\ IInv'
           /\ \/ fault' = TRUE /\ frames' = IF HasOperands(frames, n) THEN Discarded(frames, n) ELSE frames
              \/ LET ready == RequireReady(n, exports)
                     taken == Discarded(ready, 1)
                 IN  /\ HasOperands(frames, n) /\ HasRoom(Discarded(frames, n), 1)
                     /\ Stack(Pushed(Discarded(frames, n), exports))
                     /\ Stack(ready) /\ Stack(taken) /\ HasOperands(ready, 1)
                     /\ Last(taken).ops # << >>
                     /\ Activated(taken, f, IsTailCall(taken, ret) /\ domain = DomainOf(f), domain, TRUE)
<1> DEFINE taken == Discarded(frames, n)
           first == Pushed(taken, exports)
           ready == Pushed(first, "value")
<1>1. /\ Running /\ executing' /\ Stack(frames) /\ Types /\ next = Top.code
  BY RunningFrames DEF Require
<1>2. HasOperands(frames, n) =>
        /\ Stack(taken) /\ Last(taken).code = Top.code /\ ExportsOnTop(Last(taken).ops, FALSE)
        /\ Last(taken).ops \in Seq(Operand) /\ StackTop(Last(taken)) \in Nat
  BY <1>1, RunningDiscarded, LastFrame DEF Stack
<1>3. CASE HasOperands(frames, n) /\ HasRoom(taken, 2)
  <2>1. InvokeManaged(ready, f, 1, ret, TRUE)
    BY <1>3 DEF Require
  <2> HIDE DEF taken
  <2>2. HasRoom(taken, 1) /\ exports \in Operand /\ "value" \in Operand
    BY <1>2, <1>3, CallStackAssumption DEF HasRoom, Operand
  <2>3. /\ Stack(first) /\ Last(first).code = Top.code
        /\ ExportsOnTop(Last(first).ops, TRUE) /\ Last(first).ops # << >>
        /\ StackTop(Last(first)) = StackTop(Last(taken)) + 1
    BY <1>2, <1>3, <2>2, PushKeepsClear, OperandPushed
  <2> HIDE DEF first
  <2>4. HasRoom(first, 1)
    BY <1>2, <1>3, <2>3 DEF HasRoom
  <2>5. /\ Stack(ready) /\ Last(ready).code = Top.code
        /\ Last(Discarded(ready, 1)).ops = Last(first).ops
        /\ Stack(Discarded(ready, 1)) /\ HasOperands(ready, 1)
    BY <2>2, <2>3, <2>4, PushedThenDiscarded
  <2> HIDE DEF ready
  <2>6. /\ Stack(frames') /\ Types' /\ (~fault' => Ready(frames)')
        /\ LET left == Discarded(ready, 1)
           IN  Activated(left, f, IsTailCall(left, ret) /\ domain = DomainOf(f), domain, TRUE)
    BY <1>1, <2>1, <2>3, <2>5, InvokeKeeps
  <2>7. IInv'
    BY <1>1, <2>6, EnteredKeeps
  <2>8. ready = RequireReady(n, exports)
    BY DEF ready, first, taken, RequireReady
  <2> QED BY <1>3, <2>2, <2>3, <2>5, <2>6, <2>7, <2>8 DEF first, taken
<1>4. CASE ~(HasOperands(frames, n) /\ HasRoom(taken, 2))
  <2>1. /\ frames' = IF HasOperands(frames, n) THEN taken ELSE frames
        /\ fault' = TRUE /\ UNCHANGED <<domain, next, finished>>
    BY <1>4 DEF Require
  <2>2. Stack(IF HasOperands(frames, n) THEN taken ELSE frames)
    BY <1>1, <1>2
  <2>3. IInv'
    BY <1>1, <2>1, <2>2, StoppedKeeps
  <2> QED BY <2>1, <2>3
<1> QED BY <1>3, <1>4

\* The host starts a module: the one call made on the base frame.
LEMMA ExecuteModuleKeeps ==
    ASSUME IInv, NEW f \in Functions, ExecuteModule(f)
    PROVE  /\ IInv'
           /\ Stack(frames) /\ Types /\ frames = <<BaseFrame>>
           /\ \/ fault' = TRUE /\ frames' = frames
              \/ LET ready == Pushed(frames, "value")
                     taken == Discarded(ready, 1)
                 IN  /\ Stack(ready) /\ HasRoom(frames, 1) /\ HasOperands(ready, 1)
                     /\ Activated(taken, f, IsTailCall(taken, FALSE) /\ domain = DomainOf(f), domain, FALSE)
<1> DEFINE ready == Pushed(frames, "value")
<1>1. /\ executing' /\ Stack(frames) /\ Types /\ frames = <<BaseFrame>> /\ next = None
  BY DEF IInv, ExecuteModule
<1>2. Last(frames) = BaseFrame /\ BaseFrame.ops = << >> /\ BaseFrame.code = None
  <2>1. Len(<<BaseFrame>>) = 1 /\ <<BaseFrame>>[1] = BaseFrame
    BY BaseFrameIsFrame
  <2> QED BY <1>1, <2>1 DEF Last, BaseFrame
<1>3. CASE HasRoom(frames, 1)
  <2>1. InvokeManaged(ready, f, 1, FALSE, FALSE)
    BY <1>3 DEF ExecuteModule
  <2>2. /\ Stack(ready) /\ Last(ready).code = None
        /\ Last(Discarded(ready, 1)).ops = << >> /\ HasOperands(ready, 1)
    BY <1>1, <1>2, <1>3, PushedThenDiscarded DEF Operand
  <2>3. ExportsOnTop(<< >>, FALSE)
    BY DEF ExportsOnTop
  <2> HIDE DEF ready
  <2>4. /\ Stack(frames') /\ Types' /\ (~fault' => Ready(frames)')
        /\ LET taken == Discarded(ready, 1)
           IN  Activated(taken, f, IsTailCall(taken, FALSE) /\ domain = DomainOf(f), domain, FALSE)
    BY <1>1, <2>1, <2>2, <2>3, InvokeKeeps
  <2>5. IInv'
    BY <1>1, <2>4, EnteredKeeps
  <2> QED BY <1>1, <1>3, <2>2, <2>4, <2>5 DEF ready
<1>4. CASE ~HasRoom(frames, 1)
  <2>1. fault' = TRUE /\ frames' = frames
    BY <1>4 DEF ExecuteModule
  <2>2. IInv'
    BY <1>1, <1>4, StoppedKeeps DEF ExecuteModule
  <2> QED BY <1>1, <2>1, <2>2
<1> QED BY <1>3, <1>4

-----------------------------------------------------------------------------
(* RETURN *)

\* The frames a return goes back to, the operand the result goes to included.
LEMMA ReturnedFrames ==
    ASSUME IInv, Running, HasOperands(frames, 1)
    PROVE  /\ Stack(Returned) /\ Len(Returned) = Len(frames) - 1 /\ Len(Returned) \in Nat
           /\ Top.return_address = Last(Returned).code
           /\ Top.discard_result => Last(Returned).ops # << >>
           /\ ExportsOnTop(Last(Returned).ops, Top.discard_result)
           /\ HasRoom(Returned, 1)
           /\ ~Top.is_final
<1>1. /\ Stack(frames) /\ Len(frames) > 1 /\ Top = Last(frames) /\ Len(Top.ops) \in Nat
  BY RunningFrames
<1>2. /\ Stack(Returned) /\ Len(Returned) = Len(frames) - 1
      /\ FrameOn(Top, Last(Returned))
      /\ StackTop(Last(Returned)) + FrameSize + Len(Top.ops) < StackSize
  BY <1>1, FramePopped DEF Returned
<1>3. StackTop(Last(Returned)) \in Nat /\ Len(Returned) \in Nat
  BY <1>2, LastFrame DEF Stack
<1>4. HasRoom(Returned, 1)
  <2>1. Len(Top.ops) >= 1
    BY <1>1 DEF HasOperands
  <2> QED BY <1>1, <1>2, <1>3, <2>1, CallStackAssumption DEF HasRoom
<1> QED BY <1>2, <1>3, <1>4 DEF FrameOn

\* With the result in place, the caller has no export left.
LEMMA ResultKeeps ==
    ASSUME IInv, Running, HasOperands(frames, 1)
    PROVE  /\ Stack(WithResult(Returned))
           /\ Len(WithResult(Returned)) = Len(Returned)
           /\ Last(WithResult(Returned)).code = Last(Returned).code
           /\ ExportsOnTop(Last(WithResult(Returned)).ops, FALSE)
<1> DEFINE fs == Returned
           ops == Last(fs).ops
<1>1. /\ Stack(fs) /\ Len(fs) \in Nat /\ ExportsOnTop(ops, Top.discard_result)
      /\ Top.discard_result => ops # << >>
      /\ HasRoom(fs, 1)
  BY ReturnedFrames
<1>2. /\ ops \in Seq(Operand) /\ Len(ops) \in Nat /\ StackTop(Last(fs)) \in Nat /\ Last(fs) \in Frame
      /\ Last(fs).base \in Nat
  BY <1>1, LastFrame DEF Stack
<1> HIDE DEF fs
<1>3. CASE ~Top.discard_result
  <2>1. ExportsOnTop(ops, FALSE)
    BY <1>1, <1>3 DEF ExportsOnTop
  <2>2. WithResult(fs) = Pushed(fs, "value")
    BY <1>3 DEF WithResult
  <2> QED BY <1>1, <2>1, <2>2, PushKeepsClear DEF Operand, fs
<1>4. CASE Top.discard_result /\ ops # << >> /\ Last(ops) = "export"
  <2> DEFINE gs == Discarded(fs, 1)
             rest == SubSeq(ops, 1, Len(ops) - 1)
  <2>1. WithResult(fs) = Pushed(gs, "value")
    BY <1>4 DEF WithResult
  <2>2. Len(ops) >= 1 /\ HasOperands(fs, 1)
    <3>1. Len(ops) # 0
      BY <1>2, <1>4, EmptySeq
    <3> QED BY <1>2, <3>1 DEF HasOperands
  <2>3. /\ Stack(gs) /\ Len(gs) = Len(fs) /\ Last(gs) = [Last(fs) EXCEPT !.ops = rest]
        /\ rest \in Seq(Operand) /\ Len(rest) = Len(ops) - 1
        /\ \A k \in 1 .. Len(rest) : rest[k] = ops[k]
    BY <1>1, <2>2, OperandsDiscarded
  <2> HIDE DEF gs, rest, ops
  <2>4. Last(gs).ops = rest /\ Last(gs).code = Last(fs).code /\ Last(gs).base = Last(fs).base
    BY <1>2, <2>3 DEF Frame, ops
  <2>5. ExportsOnTop(rest, FALSE)
    <3>1. \A k \in 1 .. Len(rest) : rest[k] # "export"
      BY <1>1, <1>2, <2>3 DEF ExportsOnTop
    <3> QED BY <3>1 DEF ExportsOnTop
  <2>6. HasRoom(gs, 1)
    <3>1. /\ StackTop(Last(fs)) = Last(fs).base + FrameSize - 1 + Len(ops)
          /\ StackTop(Last(gs)) = Last(fs).base + FrameSize - 1 + Len(rest)
      BY <2>4 DEF StackTop, ops
    <3> QED BY <1>1, <1>2, <2>3, <3>1, CallStackAssumption DEF HasRoom
  <2> QED BY <2>1, <2>3, <2>4, <2>5, <2>6, PushKeepsClear DEF Operand, fs
<1>5. CASE Top.discard_result /\ ~(ops # << >> /\ Last(ops) = "export")
  <2>1. WithResult(fs) = fs
    BY <1>5 DEF WithResult
  <2>2. ops[Len(ops)] # "export"
    BY <1>1, <1>5 DEF Last
  <2> HIDE DEF ops
  <2>3. ExportsOnTop(ops, FALSE)
    BY <1>1, <2>2 DEF ExportsOnTop
  <2> QED BY <1>1, <2>1, <2>3 DEF fs, ops
<1> QED BY <1>3, <1>4, <1>5

\* RETURN: the last of the program, one with room for the result, one without.
LEMMA ReturnKeeps == IInv /\ Return => IInv'
<1> SUFFICES ASSUME IInv, Return PROVE IInv'
  OBVIOUS
<1>1. /\ Running /\ Types /\ Stack(frames) /\ executing
      /\ Top \in Frame /\ Len(frames) > 1
  BY RunningFrames DEF Return
<1>2. CASE ~HasOperands(frames, 1)
  BY <1>1, <1>2, ThrowKeeps DEF Return
<1>3. CASE HasOperands(frames, 1) /\ Last(Returned).is_final
  <2>1. /\ frames' = Returned /\ finished' = TRUE /\ UNCHANGED <<next, fault, executing>>
        /\ domain' = IF Top.return_domain # None THEN Top.return_domain ELSE domain
    BY <1>1, <1>3 DEF Return
  <2>2. Stack(Returned)
    BY <1>1, <1>3, ReturnedFrames
  <2>3. Types'
    BY <1>1, <2>1 DEF Types, Frame
  <2>4. executing' /\ ~Running'
    BY <1>1, <2>1 DEF Running
  <2> QED BY <2>1, <2>2, <2>3, <2>4 DEF IInv
<1>4. CASE HasOperands(frames, 1) /\ ~Last(Returned).is_final
  <2>1. /\ ~Top.is_final /\ HasRoom(Returned, 1) /\ Stack(Returned) /\ Len(Returned) \in Nat
        /\ Top.return_address = Last(Returned).code
    BY <1>1, <1>4, ReturnedFrames
  <2>2. ResultFits
    BY <2>1 DEF ResultFits
  <2>3. /\ frames' = WithResult(Returned) /\ next' = Top.return_address /\ fault' = ~ResultFits
        /\ UNCHANGED <<finished, executing>>
        /\ domain' = IF Top.return_domain # None THEN Top.return_domain ELSE domain
    BY <1>1, <1>4, <2>1, <2>2 DEF Return
  <2>4. Types'
    <3>1. domain' \in Domains \cup {None} /\ next' \in Functions \cup {None}
      BY <1>1, <2>3 DEF Types, Frame
    <3>2. fault' = FALSE
      BY <2>2, <2>3
    <3> QED BY <1>1, <2>3, <3>1, <3>2 DEF Types
  <2>5. Len(Returned) > 1
    <3>1. Returned[1].is_final
      BY <2>1 DEF Stack
    <3>2. Returned \in Seq(Frame) /\ Returned # << >>
      BY <2>1 DEF Stack
    <3> DEFINE m == Len(Returned)
    <3>3. m \in Nat \ {0}
      BY <3>2, EmptySeq
    <3>4. m # 1
      BY <1>4, <3>1 DEF Last
    <3> HIDE DEF m
    <3>5. m > 1
      BY <3>3, <3>4
    <3> QED BY <3>5 DEF m
  <2>6. Ready(frames)'
    BY <1>1, <1>4, <2>1, <2>3, <2>5, ResultKeeps DEF Ready
  <2>7. Stack(frames') /\ executing'
    BY <1>1, <1>4, <2>3, ResultKeeps
  <2> QED BY <2>4, <2>6, <2>7 DEF IInv
<1> QED BY <1>2, <1>3, <1>4

\* EXIT only sets code_finished.
LEMMA ExitKeeps == IInv /\ Exit => IInv'
BY RunningFrames DEF Exit, IInv, Types, Running

\* Any other exception leaves the stack as it was.
LEMMA FailKeeps == IInv /\ Fail => IInv'
BY RunningFrames, ThrowKeeps DEF Fail

-----------------------------------------------------------------------------
(* The theorems *)

\* The thread starts in the invariant.
LEMMA InitIInv == Init => IInv
<1> SUFFICES ASSUME Init PROVE IInv
  OBVIOUS
<1>1. Stack(frames)
  BY InitialStack DEF Init
<1> QED BY <1>1 DEF Init, IInv, Types, Running

\* Every step keeps the invariant.
LEMMA NextIInv == IInv /\ [Next]_vars => IInv'
<1> SUFFICES ASSUME IInv, [Next]_vars PROVE IInv'
  OBVIOUS
<1>1. CASE UNCHANGED vars
  BY <1>1 DEF vars, IInv, Types, Running, Ready
<1>2. CASE Load \/ Pop \/ Return \/ Exit \/ Fail
  BY <1>2, LoadKeeps, PopKeeps, ReturnKeeps, ExitKeeps, FailKeeps
<1>3. ASSUME NEW n \in Arguments, Duplicate(n) \/ InvokeNative(n)
      PROVE  IInv'
  <2>1. n \in Nat
    BY CallStackAssumption
  <2> QED BY <1>3, <2>1, DuplicateKeeps, InvokeNativeKeeps
<1>4. ASSUME NEW f \in Functions, ExecuteModule(f)
      PROVE  IInv'
  BY <1>4, ExecuteModuleKeeps
<1>5. ASSUME NEW f \in Functions, NEW n \in Arguments, New(f, n)
      PROVE  IInv'
  <2>1. n \in Nat
    BY CallStackAssumption
  <2> QED BY <1>5, <2>1, NewKeeps
<1>6. ASSUME NEW f \in Functions, NEW n \in Arguments, NEW ret \in BOOLEAN,
             Call(f, n, ret) \/ Invoke(f, n, ret)
      PROVE  IInv'
  <2>1. n \in Nat
    BY CallStackAssumption
  <2> QED BY <1>6, <2>1, CallKeeps, InvokeActionKeeps
<1>7. ASSUME NEW f \in Functions, NEW n \in Arguments, NEW ret \in BOOLEAN,
             NEW exports \in {"export", "value"}, Require(f, n, exports, ret)
      PROVE  IInv'
  <2>1. n \in Nat
    BY CallStackAssumption
  <2> QED BY <1>7, <2>1, RequireKeeps
<1> QED BY <1>1, <1>2, <1>3, <1>4, <1>5, <1>6, <1>7 DEF Next

\* The inductive invariant holds of every execution.
THEOREM Inductive == Spec => []IInv
BY InitIInv, NextIInv, PTL DEF Spec

\* The thread keeps its type: in particular the header of every frame lies within the stack.
THEOREM TypeCorrect == Spec => []TypeOK
<1>1. IInv => TypeOK
  BY DEF IInv, Stack, Types, TypeOK
<1> QED BY <1>1, Inductive, PTL

\* The frames always tile the stack: what push, duplicate and pinta_lib_frame_push check
\* separately keeps every operand below stack_end, and a caller's operands are where it
\* left them when its callee returns.
THEOREM Tiling == Spec => []FramesTileStack
<1>1. IInv => FramesTileStack
  <2> SUFFICES ASSUME IInv PROVE FramesTileStack
    OBVIOUS
  <2>1. Stack(frames) /\ frames \in Seq(Frame)
    BY DEF IInv, Stack
  <2>2. ASSUME NEW i \in 1 .. Len(frames) - 1
        PROVE  frames[i + 1].base = StackTop(frames[i]) + 1
    <3>1. FrameOn(frames[i + 1], frames[(i + 1) - 1])
      BY <2>1, LenProperties DEF Stack
    <3>2. (i + 1) - 1 = i
      OBVIOUS
    <3> QED BY <3>1, <3>2 DEF FrameOn
  <2> QED BY <2>1, <2>2 DEF FramesTileStack, Stack, Top
<1> QED BY <1>1, Inductive, PTL

\* Only the frame of pinta_frame_init is final, and no code runs in it.
THEOREM FinalFrame == Spec => []OnlyBaseIsFinal
<1>1. IInv => OnlyBaseIsFinal
  <2> SUFFICES ASSUME IInv PROVE OnlyBaseIsFinal
    OBVIOUS
  <2>1. Stack(frames) /\ (Running => Len(frames) > 1)
    BY DEF IInv, Ready
  <2>2. ASSUME NEW i \in 1 .. Len(frames)
        PROVE  frames[i].is_final <=> i = 1
    <3>1. CASE i = 1
      BY <2>1, <3>1 DEF Stack
    <3>2. CASE i # 1
      <4>1. i \in 2 .. Len(frames)
        BY <3>2
      <4> QED BY <2>1, <3>2, <4>1 DEF Stack, FrameOn
    <3> QED BY <3>1, <3>2
  <2> QED BY <2>1, <2>2 DEF OnlyBaseIsFinal
<1> QED BY <1>1, Inductive, PTL

\* A return resumes the function that made the call, however many tail calls took the
\* place of the callee in between.
THEOREM ReturnAddresses == Spec => []ReturnsIntoCaller
<1>1. IInv => ReturnsIntoCaller
  BY DEF IInv, Stack, FrameOn, Ready, ReturnsIntoCaller, Top
<1> QED BY <1>1, Inductive, PTL

\* A result is discarded only where its caller holds the value that stands for it.
THEOREM Prepushed == Spec => []DiscardHasPrepushed
<1>1. IInv => DiscardHasPrepushed
  BY DEF IInv, Stack, FrameOn, DiscardHasPrepushed
<1> QED BY <1>1, Inductive, PTL

\* No instruction of the program ever meets a DOMAIN_GLOBAL among its operands.
THEOREM ExportsResolved == Spec => []NoRawExport
<1>1. IInv => NoRawExport
  BY DEF IInv, Ready, ExportsOnTop, NoRawExport, Top
<1> QED BY <1>1, Inductive, PTL

\* A return never overflows the stack.
THEOREM ReturnFits == Spec => ReturnHasRoom
<1>1. IInv /\ [Next]_vars => [Return /\ HasOperands(frames, 1) => ~fault']_vars
  <2> SUFFICES ASSUME IInv, Return, HasOperands(frames, 1)
               PROVE  ~fault'
    OBVIOUS
  <2>1. Running /\ ~fault /\ Len(frames) > 1
    BY RunningFrames DEF Return, Running
  <2>2. ResultFits
    BY <2>1, ReturnedFrames DEF ResultFits
  <2> QED BY <2>1, <2>2 DEF Return
<1> QED BY <1>1, Inductive, PTL DEF Spec, ReturnHasRoom

-----------------------------------------------------------------------------
(* Domains.  Code runs in its own domain, as long as no function entered from      *)
(* another domain invokes a function of its own domain in tail position (CrossTail *)
(* is FALSE).  The inductive invariant relates return_domain of a frame to the     *)
(* function of the frame below it.                                                 *)

\* A return from fr to caller leaves the domain of the caller's function.
DomainBack(fr, caller) ==
    IF fr.return_domain = None
    THEN DomainOf(fr.code) = DomainOf(caller.code)
    ELSE fr.return_domain = DomainOf(caller.code)

\* The base frame runs no code: what is returned to it is not used.
DomainsKept(fs) == \A i \in 3 .. Len(fs) : DomainBack(fs[i], fs[i - 1])

DInv == /\ IInv
        /\ DomainsKept(frames)
        /\ RunsInOwnDomain

-----------------------------------------------------------------------------
\* The domains stay right when the top frame changes in its operands only.
LEMMA DomainsTopChanged ==
    ASSUME NEW fs \in Seq(Frame), fs # << >>, NEW fr \in Frame, DomainsKept(fs),
           Len(fs) > 2 => DomainBack(fr, fs[Len(fs) - 1])
    PROVE  DomainsKept(WithTop(fs, fr)) /\ Last(WithTop(fs, fr)) = fr
<1> DEFINE gs == WithTop(fs, fr)
<1>1. Len(fs) \in Nat \ {0}
  BY EmptySeq
<1>2. /\ gs \in Seq(Frame) /\ Len(gs) = Len(fs)
      /\ \A i \in 1 .. Len(fs) : gs[i] = IF i = Len(fs) THEN fr ELSE fs[i]
  BY <1>1, ExceptSeq DEF WithTop
<1> HIDE DEF gs
<1>3. ASSUME NEW i \in 3 .. Len(gs)
      PROVE  DomainBack(gs[i], gs[i - 1])
  <2>1. gs[i - 1] = fs[i - 1]
    BY <1>1, <1>2
  <2>2. CASE i = Len(fs)
    BY <1>1, <1>2, <2>1, <2>2
  <2>3. CASE i # Len(fs)
    BY <1>1, <1>2, <2>1, <2>3 DEF DomainsKept
  <2> QED BY <2>2, <2>3
<1>4. Last(gs) = fr
  BY <1>1, <1>2 DEF Last
<1> QED BY <1>3, <1>4 DEF DomainsKept, gs

\* The domains stay right when a frame is pushed whose return domain is the caller's.
LEMMA DomainsAppended ==
    ASSUME NEW fs \in Seq(Frame), fs # << >>, NEW fr \in Frame, DomainsKept(fs),
           Len(fs) > 1 => DomainBack(fr, Last(fs))
    PROVE  DomainsKept(Append(fs, fr)) /\ Last(Append(fs, fr)) = fr
<1> DEFINE gs == Append(fs, fr)
<1>1. Len(fs) \in Nat \ {0}
  BY EmptySeq
<1>2. /\ gs \in Seq(Frame) /\ Len(gs) = Len(fs) + 1
      /\ \A i \in 1 .. Len(fs) : gs[i] = fs[i]
      /\ gs[Len(fs) + 1] = fr
  BY <1>1
<1> HIDE DEF gs
<1>3. ASSUME NEW i \in 3 .. Len(gs)
      PROVE  DomainBack(gs[i], gs[i - 1])
  <2>1. CASE i = Len(fs) + 1
    BY <1>1, <1>2, <2>1 DEF Last
  <2>2. CASE i # Len(fs) + 1
    BY <1>1, <1>2, <2>2 DEF DomainsKept
  <2> QED BY <2>1, <2>2
<1>4. Last(gs) = fr
  BY <1>1, <1>2 DEF Last
<1> QED BY <1>3, <1>4 DEF DomainsKept, gs

\* Only the operands of the top frame differ.
LEMMA DomainsSameTop ==
    ASSUME NEW fs, Stack(fs), DomainsKept(fs), NEW ops \in Seq(Operand)
    PROVE  LET gs == WithTop(fs, [Last(fs) EXCEPT !.ops = ops])
           IN  /\ DomainsKept(gs) /\ Last(gs).code = Last(fs).code
               /\ Last(gs).return_domain = Last(fs).return_domain
<1> DEFINE fr == [Last(fs) EXCEPT !.ops = ops]
<1>1. fs \in Seq(Frame) /\ fs # << >> /\ Len(fs) \in Nat \ {0} /\ Last(fs) \in Frame
  BY LastFrame DEF Stack
<1>2. fr \in Frame /\ fr.code = Last(fs).code /\ fr.return_domain = Last(fs).return_domain
  BY <1>1 DEF Frame
<1> HIDE DEF fr
<1>3. Len(fs) > 2 => DomainBack(fr, fs[Len(fs) - 1])
  BY <1>1, <1>2 DEF DomainsKept, DomainBack, Last
<1>4. DomainsKept(WithTop(fs, fr)) /\ Last(WithTop(fs, fr)) = fr
  BY <1>1, <1>2, <1>3, DomainsTopChanged
<1> QED BY <1>2, <1>4 DEF fr

\* A push of an operand leaves the domains alone.
LEMMA DomainsPushed ==
    ASSUME NEW fs, Stack(fs), DomainsKept(fs), NEW v \in Operand
    PROVE  /\ DomainsKept(Pushed(fs, v)) /\ Last(Pushed(fs, v)).code = Last(fs).code
           /\ Last(Pushed(fs, v)).return_domain = Last(fs).return_domain
<1>1. Last(fs).ops \in Seq(Operand)
  BY LastFrame DEF Stack
<1>2. Append(Last(fs).ops, v) \in Seq(Operand)
  BY <1>1
<1> QED BY <1>2, DomainsSameTop DEF Pushed

\* So does taking operands off.
LEMMA DomainsDiscarded ==
    ASSUME NEW fs, Stack(fs), DomainsKept(fs), NEW n \in Nat, HasOperands(fs, n)
    PROVE  /\ DomainsKept(Discarded(fs, n)) /\ Last(Discarded(fs, n)).code = Last(fs).code
           /\ Last(Discarded(fs, n)).return_domain = Last(fs).return_domain
<1>1. SubSeq(Last(fs).ops, 1, Len(Last(fs).ops) - n) \in Seq(Operand)
  BY OperandsDiscarded
<1> QED BY <1>1, DomainsSameTop DEF Discarded

-----------------------------------------------------------------------------
(* Calls *)

\* The frame set up for f has the domain of f to run in.
LEMMA DomainsActivated ==
    ASSUME NEW fs, Stack(fs), DomainsKept(fs), NEW f \in Functions, NEW tail \in BOOLEAN,
           NEW return_domain, NEW discard, Activated(fs, f, tail, return_domain, discard),
           NEW d, return_domain = None => d = DomainOf(f),
           return_domain # None => d = return_domain,
           ~tail /\ Len(fs) > 1 => d = DomainOf(Last(fs).code),
           tail /\ Len(fs) > 2 => d = DomainOf(fs[Len(fs) - 1].code)
    PROVE  DomainsKept(frames') /\ (~fault' => domain' = DomainOf(Last(frames').code))
<1>1. fs \in Seq(Frame) /\ fs # << >>
  BY DEF Stack
<1>2. CASE frames' = fs /\ fault'
  BY <1>2
<1>3. ASSUME NEW fr \in Frame, fr.code = f, fr.return_domain = return_domain,
             frames' = IF tail THEN WithTop(fs, fr) ELSE Append(fs, fr),
             domain' = DomainOf(f)
      PROVE  DomainsKept(frames') /\ (~fault' => domain' = DomainOf(Last(frames').code))
  <2>1. CASE tail
    <3>1. Len(fs) > 2 => DomainBack(fr, fs[Len(fs) - 1])
      BY <1>3, <2>1 DEF DomainBack
    <3>2. DomainsKept(WithTop(fs, fr)) /\ Last(WithTop(fs, fr)) = fr
      BY <1>1, <3>1, DomainsTopChanged
    <3> QED BY <1>3, <2>1, <3>2
  <2>2. CASE ~tail
    <3>1. Len(fs) > 1 => DomainBack(fr, Last(fs))
      BY <1>3, <2>2 DEF DomainBack
    <3>2. DomainsKept(Append(fs, fr)) /\ Last(Append(fs, fr)) = fr
      BY <1>1, <3>1, DomainsAppended
    <3> QED BY <1>3, <2>2, <3>2
  <2> QED BY <2>1, <2>2
<1> QED BY <1>2, <1>3 DEF Activated

\* A running function, its domain, and the frames below it.
LEMMA RunningDomain ==
    ASSUME DInv, Running
    PROVE  /\ IInv /\ Stack(frames) /\ DomainsKept(frames) /\ Top = Last(frames)
           /\ domain = DomainOf(Top.code) /\ Top.code \in Functions
           /\ domain \in Domains /\ domain # None
           /\ Len(frames) > 2 => DomainBack(Top, frames[Len(frames) - 1])
<1>1. /\ IInv /\ Stack(frames) /\ DomainsKept(frames) /\ Top = Last(frames)
      /\ domain = DomainOf(Top.code) /\ Len(frames) > 1
  BY RunningFrames DEF DInv, RunsInOwnDomain
<1>2. Len(frames) \in Nat
  BY <1>1, LenProperties DEF Stack
<1>3. Top.code \in Functions
  BY <1>1, <1>2 DEF Stack, FrameOn, Last
<1>4. Len(frames) > 2 => DomainBack(Top, frames[Len(frames) - 1])
  BY <1>1, <1>2 DEF DomainsKept, Last
<1> QED BY <1>1, <1>3, <1>4, CallStackAssumption

\* Domains after an invocation, for whoever makes it.
LEMMA DomainsInvoked ==
    ASSUME NEW fs, Stack(fs), Types, DomainsKept(fs), NEW f \in Functions, NEW n \in Nat,
           NEW ret \in BOOLEAN, NEW discard, HasOperands(fs, n),
           Len(fs) > 1 => domain = DomainOf(Last(fs).code) /\ domain # None,
           domain = None => Len(fs) < 2,
           LET taken == Discarded(fs, n)
               tail == IsTailCall(taken, ret) /\ domain = DomainOf(f)
           IN  /\ tail => Last(fs).return_domain \in {None, domain}
               /\ Activated(taken, f, tail, domain, discard)
    PROVE  DomainsKept(frames') /\ (~fault' => domain' = DomainOf(Last(frames').code))
<1> DEFINE taken == Discarded(fs, n)
           tail == IsTailCall(taken, ret) /\ domain = DomainOf(f)
           d == IF domain = None THEN DomainOf(f) ELSE domain
<1>1. /\ Stack(taken) /\ Len(taken) = Len(fs) /\ DomainsKept(taken)
      /\ Last(taken).code = Last(fs).code /\ Last(taken).return_domain = Last(fs).return_domain
  BY OperandsDiscarded, DomainsDiscarded
<1>2. tail \in BOOLEAN /\ Activated(taken, f, tail, domain, discard)
  OBVIOUS
<1>3. tail => domain = DomainOf(f) /\ Last(taken).return_domain \in {None, domain}
  BY <1>1
<1> HIDE DEF taken, tail
<1>4. ~tail /\ Len(taken) > 1 => d = DomainOf(Last(taken).code)
  BY <1>1
<1>5. tail /\ Len(taken) > 2 => d = DomainOf(taken[Len(taken) - 1].code)
  <2> SUFFICES ASSUME tail, Len(taken) > 2
               PROVE  d = DomainOf(taken[Len(taken) - 1].code)
    OBVIOUS
  <2>1. Len(taken) \in Nat
    BY <1>1, LenProperties DEF Stack
  <2>2. DomainBack(Last(taken), taken[Len(taken) - 1])
    BY <1>1, <2>1 DEF DomainsKept, Last
  <2>3. d = domain /\ domain = DomainOf(Last(taken).code)
    BY <1>1, <2>1
  <2> QED BY <1>3, <2>2, <2>3 DEF DomainBack
<1> QED BY <1>1, <1>2, <1>4, <1>5, DomainsActivated

-----------------------------------------------------------------------------
(* The steps *)

\* An instruction that only changes operands.
LEMMA DomainsContinue ==
    ASSUME DInv, Running, NEW gs, DomainsKept(gs), Last(gs).code = Top.code, Continue(gs)
    PROVE  DomainsKept(frames') /\ RunsInOwnDomain'
BY RunningDomain DEF Continue, RunsInOwnDomain, Top

\* An exception stops the thread, and domain no longer matters.
LEMMA DomainsThrow ==
    ASSUME NEW gs, DomainsKept(gs), frames' = gs, fault' = TRUE
    PROVE  DomainsKept(frames') /\ RunsInOwnDomain'
BY DEF RunsInOwnDomain, Running

\* Entering f, on a new frame or on the reused one.
LEMMA DomainsEntered ==
    ASSUME DomainsKept(frames') /\ (~fault' => domain' = DomainOf(Last(frames').code))
    PROVE  DomainsKept(frames') /\ RunsInOwnDomain'
BY DEF RunsInOwnDomain, Running, Top

\* LOAD, POP, DUPLICATE and the native calls.
LEMMA DomainsOperands ==
    ASSUME DInv, NEW n \in Nat, Load \/ Pop \/ Duplicate(n) \/ InvokeNative(n) \/ Fail
    PROVE  DomainsKept(frames') /\ RunsInOwnDomain'
<1>1. Running /\ Stack(frames) /\ DomainsKept(frames) /\ Top = Last(frames) /\ "value" \in Operand
  BY RunningDomain DEF Load, Pop, Duplicate, InvokeNative, Fail, Operand
<1>2. CASE Throw(frames)
  BY <1>1, <1>2, DomainsThrow DEF Throw
<1>3. CASE Continue(Pushed(frames, "value"))
  BY <1>1, <1>3, DomainsPushed, DomainsContinue
<1>4. CASE HasOperands(frames, 1) /\ Continue(Discarded(frames, 1))
  BY <1>1, <1>4, DomainsDiscarded, DomainsContinue
<1>5. CASE Duplicate(n) /\ ~Throw(frames)
  <2> DEFINE ops == Top.ops
             copy == SubSeq(ops, Len(ops) - n + 1, Len(ops))
             twice == ops \o copy
  <2>1. HasOperands(frames, n) /\ Continue(WithTop(frames, [Top EXCEPT !.ops = twice]))
    BY <1>5 DEF Duplicate
  <2>2. ops \in Seq(Operand) /\ Len(ops) \in Nat /\ Len(ops) >= n
    BY <1>1, <2>1, LastFrame DEF Stack, HasOperands
  <2> HIDE DEF ops
  <2>3. twice \in Seq(Operand)
    <3>1. \A k \in Len(ops) - n + 1 .. Len(ops) : ops[k] \in Operand
      BY <2>2, ElementOfSeq
    <3>2. copy \in Seq(Operand)
      BY <2>2, <3>1, SubSeqProperties
    <3> HIDE DEF copy
    <3> QED BY <2>2, <3>2, ConcatProperties
  <2> HIDE DEF twice
  <2> QED BY <1>1, <2>1, <2>3, DomainsSameTop, DomainsContinue
<1>6. CASE InvokeNative(n) /\ ~Throw(frames)
  <2> DEFINE taken == Discarded(frames, n)
  <2>1. HasOperands(frames, n) /\ (Continue(Pushed(taken, "value")) \/ Throw(taken))
    BY <1>6 DEF InvokeNative
  <2>2. Stack(taken) /\ DomainsKept(taken) /\ Last(taken).code = Top.code
    BY <1>1, <2>1, OperandsDiscarded, DomainsDiscarded
  <2> HIDE DEF taken
  <2>3. CASE Throw(taken)
    BY <2>2, <2>3, DomainsThrow DEF Throw
  <2>4. CASE Continue(Pushed(taken, "value"))
    BY <1>1, <2>2, <2>4, DomainsPushed, DomainsContinue
  <2> QED BY <2>1, <2>3, <2>4
<1> QED BY <1>2, <1>3, <1>4, <1>5, <1>6 DEF Load, Pop, Fail

\* CALL stays within the domain.
LEMMA DomainsCall ==
    ASSUME DInv, NEW f \in Functions, NEW n \in Nat, NEW ret \in BOOLEAN, Call(f, n, ret)
    PROVE  IInv' /\ DomainsKept(frames') /\ RunsInOwnDomain'
<1> DEFINE taken == Discarded(frames, n)
           tail == IsTailCall(taken, ret)
           return_domain == IF tail THEN Top.return_domain ELSE None
<1>1. /\ Running /\ IInv /\ Stack(frames) /\ DomainsKept(frames) /\ Top = Last(frames)
      /\ domain = DomainOf(Top.code) /\ DomainOf(f) = domain /\ domain # None
      /\ Len(frames) > 2 => DomainBack(Top, frames[Len(frames) - 1])
  BY RunningDomain DEF Call
<1>2. CASE fault' = TRUE /\ ~HasOperands(frames, n)
  <2>1. frames' = frames
    BY <1>2 DEF Call
  <2> QED BY <1>1, <1>2, <2>1, CallKeeps, DomainsThrow
<1>3. CASE HasOperands(frames, n)
  <2>1. IInv' /\ Activated(taken, f, tail, return_domain, FALSE) /\ tail \in BOOLEAN
    BY <1>1, <1>3, CallKeeps DEF IsTailCall
  <2>2. /\ Stack(taken) /\ Len(taken) = Len(frames) /\ DomainsKept(taken)
        /\ Last(taken).code = Top.code
    BY <1>1, <1>3, OperandsDiscarded, DomainsDiscarded
  <2>3. \A i \in 1 .. Len(frames) - 1 : taken[i] = frames[i]
    <3>1. Top \in Frame /\ frames \in Seq(Frame) /\ Len(frames) \in Nat
      BY <1>1, LastFrame DEF Stack
    <3> QED BY <1>1, <3>1 DEF Discarded, WithTop
  <2> HIDE DEF taken, tail
  <2> DEFINE d == IF return_domain = None THEN domain ELSE return_domain
  <2>4. Len(taken) > 2 /\ tail => d = DomainOf(taken[Len(taken) - 1].code)
    <3> SUFFICES ASSUME Len(taken) > 2, tail
                 PROVE  d = DomainOf(taken[Len(taken) - 1].code)
      OBVIOUS
    <3>1. Len(frames) \in Nat
      BY <1>1, LenProperties DEF Stack
    <3>2. taken[Len(taken) - 1] = frames[Len(frames) - 1]
      BY <2>2, <2>3, <3>1
    <3>3. DomainBack(Top, frames[Len(frames) - 1])
      BY <1>1, <2>2
    <3> QED BY <1>1, <3>2, <3>3 DEF DomainBack
  <2>5. ~tail /\ Len(taken) > 1 => d = DomainOf(Last(taken).code)
    BY <1>1, <2>2
  <2>6. (return_domain = None => d = DomainOf(f)) /\ (return_domain # None => d = return_domain)
    BY <1>1
  <2> HIDE DEF d, return_domain
  <2>7. DomainsKept(frames') /\ (~fault' => domain' = DomainOf(Last(frames').code))
    BY <2>1, <2>2, <2>4, <2>5, <2>6, DomainsActivated
  <2> QED BY <2>1, <2>7, DomainsEntered
<1>4. fault' = TRUE \/ HasOperands(frames, n)
  BY DEF Call
<1> QED BY <1>2, <1>3, <1>4

\* INVOKE crosses domains on a new frame only.
LEMMA DomainsInvoke ==
    ASSUME DInv, CrossTail = FALSE,
           NEW f \in Functions, NEW n \in Nat, NEW ret \in BOOLEAN, Invoke(f, n, ret)
    PROVE  IInv' /\ DomainsKept(frames') /\ RunsInOwnDomain'
<1> DEFINE offset == n + 1
<1>1. /\ Running /\ IInv /\ Stack(frames) /\ DomainsKept(frames) /\ Top = Last(frames)
      /\ domain = DomainOf(Top.code) /\ domain # None /\ Types
  BY RunningDomain, RunningFrames DEF Invoke
<1>2. offset \in Nat
  OBVIOUS
<1>3. CASE ~HasOperands(frames, offset)
  <2>1. frames' = frames /\ fault' = TRUE
    BY <1>3 DEF Invoke, InvokeManaged
  <2> QED BY <1>1, <2>1, InvokeActionKeeps, DomainsThrow
<1>4. CASE HasOperands(frames, offset)
  <2> DEFINE taken == Discarded(frames, offset)
             tail == IsTailCall(taken, ret) /\ domain = DomainOf(f)
  <2>1. IInv' /\ Activated(taken, f, tail, domain, FALSE)
    BY <1>1, <1>4, InvokeActionKeeps
  <2>2. tail => Last(frames).return_domain \in {None, domain}
    BY <1>1 DEF Invoke
  <2> HIDE DEF offset
  <2>3. DomainsKept(frames') /\ (~fault' => domain' = DomainOf(Last(frames').code))
    BY <1>1, <1>2, <1>4, <2>1, <2>2, DomainsInvoked
  <2> QED BY <2>1, <2>3, DomainsEntered
<1> QED BY <1>3, <1>4

\* NEW always pushes a frame.
LEMMA DomainsNew ==
    ASSUME DInv, NEW f \in Functions, NEW n \in Nat, New(f, n)
    PROVE  IInv' /\ DomainsKept(frames') /\ RunsInOwnDomain'
<1> DEFINE offset == n + 1
           taken == Discarded(frames, offset)
           ready == Pushed(taken, "instance")
<1>1. /\ Running /\ IInv /\ Stack(frames) /\ DomainsKept(frames) /\ Top = Last(frames)
      /\ domain = DomainOf(Top.code) /\ domain # None
  BY RunningDomain DEF New
<1>2. offset \in Nat
  OBVIOUS
<1>3. CASE ~HasOperands(frames, offset)
  <2>1. frames' = frames /\ fault' = TRUE
    BY <1>3 DEF New
  <2> QED BY <1>1, <2>1, NewKeeps, DomainsThrow
<1>4. CASE HasOperands(frames, offset)
  <2>1. IInv' /\ Activated(ready, f, FALSE, domain, TRUE)
    BY <1>1, <1>4, NewKeeps
  <2>2. /\ Stack(taken) /\ DomainsKept(taken) /\ Last(taken).code = Top.code
        /\ StackTop(Last(taken)) = StackTop(Top) - offset /\ StackTop(Top) \in Nat
    <3> HIDE DEF offset
    <3> QED BY <1>1, <1>2, <1>4, RunningDiscarded, DomainsDiscarded
  <2>3. HasRoom(taken, 1) /\ "instance" \in Operand
    <3>1. StackTop(Top) < StackSize
      BY <1>1 DEF Stack
    <3> QED BY <2>2, <3>1, CallStackAssumption DEF HasRoom, Operand
  <2> HIDE DEF taken
  <2>4. Stack(ready) /\ DomainsKept(ready) /\ Last(ready).code = Top.code
    BY <2>2, <2>3, OperandPushed, DomainsPushed
  <2> HIDE DEF ready
  <2>5. DomainsKept(frames') /\ (~fault' => domain' = DomainOf(Last(frames').code))
    BY <1>1, <2>1, <2>4, DomainsActivated
  <2> QED BY <2>1, <2>5, DomainsEntered
<1> QED BY <1>3, <1>4

\* The native require enters the start function of another module.
LEMMA DomainsRequire ==
    ASSUME DInv, NEW f \in Functions, NEW n \in Nat, NEW exports \in {"export", "value"},
           NEW ret \in BOOLEAN, Require(f, n, exports, ret)
    PROVE  IInv' /\ DomainsKept(frames') /\ RunsInOwnDomain'
<1> DEFINE taken == Discarded(frames, n)
           first == Pushed(taken, exports)
           ready == RequireReady(n, exports)
           left == Discarded(ready, 1)
           tail == IsTailCall(left, ret) /\ domain = DomainOf(f)
<1>1. /\ Running /\ IInv /\ Stack(frames) /\ DomainsKept(frames) /\ Top = Last(frames)
      /\ domain = DomainOf(Top.code) /\ domain # None /\ Types
  BY RunningDomain, RunningFrames DEF Require
<1>2. HasOperands(frames, n) => DomainsKept(taken) /\ Last(taken).code = Top.code /\ Stack(taken)
  BY <1>1, DomainsDiscarded, OperandsDiscarded
<1>3. CASE fault' = TRUE /\ frames' = IF HasOperands(frames, n) THEN taken ELSE frames
  <2>1. DomainsKept(frames')
    BY <1>1, <1>2, <1>3
  <2> QED BY <1>1, <1>3, <2>1, RequireKeeps, DomainsThrow
<1>4. CASE /\ HasOperands(frames, n) /\ HasRoom(taken, 1)
           /\ Stack(first) /\ Stack(ready) /\ Stack(left) /\ HasOperands(ready, 1)
           /\ Last(left).ops # << >> /\ Activated(left, f, tail, domain, TRUE)
  <2>1. exports \in Operand /\ "value" \in Operand
    BY DEF Operand
  <2>2. DomainsKept(first) /\ Last(first).code = Top.code
    <3> HIDE DEF taken
    <3> QED BY <1>2, <1>4, <2>1, DomainsPushed
  <2>3. DomainsKept(ready) /\ Last(ready).code = Top.code
    <3> HIDE DEF first
    <3>1. ready = Pushed(first, "value")
      BY DEF first, RequireReady
    <3> QED BY <1>4, <2>1, <2>2, <3>1, DomainsPushed
  <2>4. tail => FALSE
    BY <1>4 DEF IsTailCall
  <2>5. Stack(ready) /\ HasOperands(ready, 1) /\ Activated(left, f, tail, domain, TRUE)
    BY <1>4
  <2> HIDE DEF ready
  <2>6. DomainsKept(frames') /\ (~fault' => domain' = DomainOf(Last(frames').code))
    BY <1>1, <2>3, <2>4, <2>5, DomainsInvoked
  <2> QED BY <1>1, <2>6, RequireKeeps, DomainsEntered
<1> QED BY <1>1, <1>3, <1>4, RequireKeeps

\* The host starts a module in the null domain.
LEMMA DomainsExecuteModule ==
    ASSUME DInv, NEW f \in Functions, ExecuteModule(f)
    PROVE  IInv' /\ DomainsKept(frames') /\ RunsInOwnDomain'
<1> DEFINE ready == Pushed(frames, "value")
           taken == Discarded(ready, 1)
           tail == IsTailCall(taken, FALSE) /\ domain = DomainOf(f)
<1>1. IInv /\ Stack(frames) /\ Types /\ DomainsKept(frames) /\ frames = <<BaseFrame>>
  BY ExecuteModuleKeeps DEF DInv
<1>2. CASE fault' = TRUE /\ frames' = frames
  BY <1>1, <1>2, ExecuteModuleKeeps, DomainsThrow
<1>3. CASE /\ Stack(ready) /\ HasRoom(frames, 1) /\ HasOperands(ready, 1)
           /\ Activated(taken, f, tail, domain, FALSE)
  <2>1. Len(ready) < 2
    <3>1. Len(ready) = Len(frames)
      BY <1>1, <1>3, OperandPushed DEF Operand
    <3>2. Len(<<BaseFrame>>) = 1
      OBVIOUS
    <3> HIDE DEF ready
    <3> QED BY <1>1, <3>1, <3>2
  <2>2. DomainsKept(ready)
    BY <1>1, DomainsPushed DEF Operand
  <2>3. tail => FALSE
    BY DEF IsTailCall
  <2>4. ~(Len(ready) > 1)
    <3>1. Len(ready) \in Nat
      BY <1>3, LenProperties DEF Stack
    <3> HIDE DEF ready
    <3> QED BY <2>1, <3>1
  <2>5. Stack(ready) /\ HasOperands(ready, 1) /\ Activated(taken, f, tail, domain, FALSE)
    BY <1>3
  <2> HIDE DEF ready
  <2>6. DomainsKept(frames') /\ (~fault' => domain' = DomainOf(Last(frames').code))
    BY <1>1, <2>1, <2>2, <2>3, <2>4, <2>5, DomainsInvoked
  <2> QED BY <1>1, <2>6, ExecuteModuleKeeps, DomainsEntered
<1> QED BY <1>1, <1>2, <1>3, ExecuteModuleKeeps

\* RETURN restores the domain of the frame below.
LEMMA DomainsReturn ==
    ASSUME DInv, Return
    PROVE  DomainsKept(frames') /\ RunsInOwnDomain'
<1>1. /\ Running /\ IInv /\ Stack(frames) /\ DomainsKept(frames) /\ Top = Last(frames)
      /\ domain = DomainOf(Top.code) /\ domain # None /\ Len(frames) > 1 /\ Len(frames) \in Nat
      /\ Len(frames) > 2 => DomainBack(Top, frames[Len(frames) - 1])
  BY RunningDomain, RunningFrames, LenProperties DEF Return, Stack
<1>2. CASE ~HasOperands(frames, 1)
  BY <1>1, <1>2, DomainsThrow DEF Return, Throw
<1>3. CASE HasOperands(frames, 1)
  <2>1. /\ Stack(Returned) /\ ~Top.is_final /\ HasRoom(Returned, 1) /\ Len(Returned) = Len(frames) - 1
    BY <1>1, <1>3, ReturnedFrames
  <2>2. /\ Last(Returned) = frames[Len(frames) - 1]
        /\ \A i \in 1 .. Len(frames) - 1 : Returned[i] = frames[i]
    BY <1>1, FramePopped DEF Returned
  <2>3. DomainsKept(Returned)
    BY <1>1, <2>1, <2>2 DEF DomainsKept
  <2>4. CASE Last(Returned).is_final
    <3>1. frames' = Returned /\ finished' = TRUE
      BY <1>1, <1>3, <2>4 DEF Return
    <3> QED BY <2>3, <3>1 DEF RunsInOwnDomain, Running
  <2>5. CASE ~Last(Returned).is_final
    <3>1. /\ frames' = WithResult(Returned)
          /\ domain' = IF Top.return_domain # None THEN Top.return_domain ELSE domain
      BY <1>1, <1>3, <2>1, <2>5 DEF Return, ResultFits
    <3>2. Len(frames) > 2
      <4> DEFINE m == Len(frames)
      <4>1. m # 2
        BY <2>1, <2>2, <2>5 DEF Stack
      <4>2. m \in Nat /\ m > 1
        BY <1>1
      <4> HIDE DEF m
      <4>3. m > 2
        BY <4>1, <4>2
      <4> QED BY <4>3 DEF m
    <3>3. domain' = DomainOf(Last(Returned).code)
      BY <1>1, <2>2, <3>1, <3>2 DEF DomainBack
    <3>4. DomainsKept(WithResult(Returned)) /\ Last(WithResult(Returned)).code = Last(Returned).code
      <4>1. CASE WithResult(Returned) = Returned
        BY <2>3, <4>1
      <4>2. CASE WithResult(Returned) = Pushed(Returned, "value")
        BY <2>1, <2>3, <4>2, DomainsPushed DEF Operand
      <4>3. CASE /\ WithResult(Returned) = Pushed(Discarded(Returned, 1), "value")
                 /\ Last(Returned).ops # << >>
        <5>1. Last(Returned).ops \in Seq(Operand) /\ Len(Last(Returned).ops) \in Nat
          BY <2>1, LastFrame DEF Stack
        <5> DEFINE m == Len(Last(Returned).ops)
        <5>2. m # 0
          BY <4>3, <5>1, EmptySeq
        <5>3. m \in Nat
          BY <5>1
        <5> HIDE DEF m
        <5>4. m >= 1
          BY <5>2, <5>3
        <5>5. HasOperands(Returned, 1)
          BY <5>4 DEF m, HasOperands
        <5>6. /\ Stack(Discarded(Returned, 1)) /\ DomainsKept(Discarded(Returned, 1))
              /\ Last(Discarded(Returned, 1)).code = Last(Returned).code
          BY <2>1, <2>3, <5>5, OperandsDiscarded, DomainsDiscarded
        <5> DEFINE gs == Discarded(Returned, 1)
        <5> HIDE DEF gs
        <5>7. /\ WithResult(Returned) = Pushed(gs, "value") /\ Stack(gs) /\ DomainsKept(gs)
              /\ Last(gs).code = Last(Returned).code /\ "value" \in Operand
          BY <4>3, <5>6 DEF gs, Operand
        <5> QED BY <5>7, DomainsPushed
      <4> QED BY <4>1, <4>2, <4>3 DEF WithResult
    <3> QED BY <3>1, <3>3, <3>4 DEF RunsInOwnDomain, Top
  <2> QED BY <2>4, <2>5
<1> QED BY <1>2, <1>3

-----------------------------------------------------------------------------
\* The thread starts in the invariant.
LEMMA InitDInv == Init => DInv
<1> SUFFICES ASSUME Init PROVE DInv
  OBVIOUS
<1>1. IInv
  BY InitIInv
<1>2. DomainsKept(frames)
  <2>1. Len(<<BaseFrame>>) = 1
    OBVIOUS
  <2> QED BY <2>1 DEF Init, DomainsKept
<1> QED BY <1>1, <1>2 DEF DInv, Init, RunsInOwnDomain, Running

\* Every step keeps the invariant.
LEMMA NextDInv ==
    ASSUME CrossTail = FALSE, DInv, [Next]_vars
    PROVE  DInv'
<1>1. IInv'
  BY NextIInv DEF DInv
<1>2. CASE UNCHANGED vars
  BY <1>1, <1>2 DEF vars, DInv, RunsInOwnDomain, Running, Top
<1>3. CASE Load \/ Pop \/ Fail
  <2>1. DomainsKept(frames') /\ RunsInOwnDomain'
    <3>1. 0 \in Nat
      OBVIOUS
    <3> QED BY <1>3, <3>1, DomainsOperands
  <2> QED BY <1>1, <2>1 DEF DInv
<1>4. CASE Return
  BY <1>1, <1>4, DomainsReturn DEF DInv
<1>5. CASE Exit
  BY <1>1, <1>5 DEF Exit, DInv, RunsInOwnDomain, Running
<1>6. ASSUME NEW n \in Arguments, Duplicate(n) \/ InvokeNative(n)
      PROVE  DInv'
  <2>1. n \in Nat
    BY CallStackAssumption
  <2> QED BY <1>1, <1>6, <2>1, DomainsOperands DEF DInv
<1>7. ASSUME NEW f \in Functions, ExecuteModule(f)
      PROVE  DInv'
  BY <1>7, DomainsExecuteModule DEF DInv
<1>8. ASSUME NEW f \in Functions, NEW n \in Arguments, New(f, n)
      PROVE  DInv'
  <2>1. n \in Nat
    BY CallStackAssumption
  <2> QED BY <1>8, <2>1, DomainsNew DEF DInv
<1>9. ASSUME NEW f \in Functions, NEW n \in Arguments, NEW ret \in BOOLEAN,
             Call(f, n, ret) \/ Invoke(f, n, ret)
      PROVE  DInv'
  <2>1. n \in Nat
    BY CallStackAssumption
  <2> QED BY <1>9, <2>1, DomainsCall, DomainsInvoke DEF DInv
<1>10. ASSUME NEW f \in Functions, NEW n \in Arguments, NEW ret \in BOOLEAN,
              NEW exports \in {"export", "value"}, Require(f, n, exports, ret)
       PROVE  DInv'
  <2>1. n \in Nat
    BY CallStackAssumption
  <2> QED BY <1>10, <2>1, DomainsRequire DEF DInv
<1> QED BY <1>2, <1>3, <1>4, <1>5, <1>6, <1>7, <1>8, <1>9, <1>10 DEF Next

\* Without tail calls out of a function entered from another domain, code always runs with
\* the globals, the strings and the functions of its own module.
THEOREM OwnDomain ==
    ASSUME CrossTail = FALSE
    PROVE  Spec => []RunsInOwnDomain
<1>1. DInv /\ [Next]_vars => DInv'
  BY NextDInv
<1>2. DInv => RunsInOwnDomain
  BY DEF DInv
<1> QED BY <1>1, <1>2, InitDInv, PTL DEF Spec

-----------------------------------------------------------------------------
(* The activations the frames stand for *)

Activation == [fn : Functions, ops : Seq(Operand), result : Operand]

OpsAt(fs, i) == IF i < Len(fs) /\ fs[i + 1].discard_result
                THEN SubSeq(fs[i].ops, 1, Len(fs[i].ops) - 1) ELSE fs[i].ops
ResultAt(fs, i) == IF ~fs[i].discard_result THEN "value"
                   ELSE IF Last(fs[i - 1].ops) = "export" THEN "value" ELSE Last(fs[i - 1].ops)
Act(fs, i) == [fn |-> fs[i].code, ops |-> OpsAt(fs, i), result |-> ResultAt(fs, i)]
Acts(fs) == [i \in 1 .. Len(fs) - 1 |-> Act(fs, i + 1)]

-----------------------------------------------------------------------------
(* Sequences *)

\* A sequence is its front and its last element.
LEMMA FrontAndLast ==
    ASSUME NEW S, NEW A \in Seq(S), A # << >>, NEW B \in Seq(S), Len(B) = Len(A),
           \A i \in 1 .. Len(A) - 1 : B[i] = A[i]
    PROVE  B = Append(SubSeq(A, 1, Len(A) - 1), B[Len(A)])
<1> DEFINE n == Len(A)
           F == SubSeq(A, 1, n - 1)
<1>1. n \in Nat \ {0}
  BY EmptySeq
<1>2. \A i \in 1 .. n - 1 : A[i] \in S
  BY <1>1, ElementOfSeq
<1>3. /\ F \in Seq(S) /\ Len(F) = n - 1
      /\ \A i \in 1 .. n - 1 : F[i] = A[i]
  <2> HIDE DEF n
  <2> QED BY <1>1, <1>2, SubSeqProperties
<1> HIDE DEF F
<1>4. B[n] \in S
  BY <1>1, ElementOfSeq
<1> DEFINE G == Append(F, B[n])
<1>5. /\ G \in Seq(S) /\ Len(G) = n /\ G[n] = B[n]
      /\ \A i \in 1 .. n - 1 : G[i] = F[i]
  <2> HIDE DEF n
  <2> QED BY <1>1, <1>3, <1>4
<1>6. \A i \in 1 .. Len(B) : B[i] = G[i]
  <2> HIDE DEF G
  <2> QED BY <1>1, <1>3, <1>5
<1>7. B = G
  <2> HIDE DEF G
  <2> QED BY <1>5, <1>6, SeqEqual
<1> QED BY <1>7 DEF F

\* All but the last operand.
LEMMA ButLast ==
    ASSUME NEW S, NEW s \in Seq(S), s # << >>
    PROVE  LET r == SubSeq(s, 1, Len(s) - 1)
           IN  /\ r \in Seq(S) /\ Len(r) = Len(s) - 1 /\ Len(s) \in Nat \ {0}
               /\ \A k \in 1 .. Len(r) : r[k] = s[k]
               /\ Last(s) \in S /\ s = Append(r, Last(s))
<1> DEFINE n == Len(s)
<1>1. n \in Nat \ {0}
  BY EmptySeq
<1>2. \A i \in 1 .. n - 1 : s[i] \in S
  BY <1>1, ElementOfSeq
<1>3. Last(s) \in S
  BY <1>1, ElementOfSeq DEF Last
<1>4. s = Append(SubSeq(s, 1, n - 1), s[n])
  BY FrontAndLast
<1>5. /\ SubSeq(s, 1, n - 1) \in Seq(S) /\ Len(SubSeq(s, 1, n - 1)) = n - 1
      /\ \A k \in 1 .. n - 1 : SubSeq(s, 1, n - 1)[k] = s[k]
  <2> HIDE DEF n
  <2> QED BY <1>1, <1>2, SubSeqProperties
<1> QED BY <1>1, <1>3, <1>4, <1>5 DEF Last

-----------------------------------------------------------------------------
(* The activations of a list of frames *)

\* What a frame above the base one has.
LEMMA FrameFacts ==
    ASSUME NEW fs, Stack(fs), NEW i \in 2 .. Len(fs)
    PROVE  /\ fs \in Seq(Frame) /\ Len(fs) \in Nat
           /\ fs[i] \in Frame /\ fs[i - 1] \in Frame
           /\ fs[i].code \in Functions
           /\ fs[i].ops \in Seq(Operand) /\ fs[i - 1].ops \in Seq(Operand)
           /\ fs[i].discard_result \in BOOLEAN
           /\ fs[i].discard_result => fs[i - 1].ops # << >>
<1>1. fs \in Seq(Frame) /\ Len(fs) \in Nat
  BY LenProperties DEF Stack
<1>2. i \in 1 .. Len(fs) /\ i - 1 \in 1 .. Len(fs)
  BY <1>1
<1>3. fs[i] \in Frame /\ fs[i - 1] \in Frame
  BY <1>1, <1>2, ElementOfSeq
<1>4. FrameOn(fs[i], fs[i - 1])
  BY DEF Stack
<1> QED BY <1>1, <1>3, <1>4 DEF Frame, FrameOn

\* Each frame above the base one is an activation.
LEMMA ActType ==
    ASSUME NEW fs, Stack(fs), NEW i \in 2 .. Len(fs)
    PROVE  Act(fs, i) \in Activation
<1>1. /\ Len(fs) \in Nat /\ fs[i].code \in Functions
      /\ fs[i].ops \in Seq(Operand) /\ fs[i - 1].ops \in Seq(Operand)
      /\ fs[i].discard_result => fs[i - 1].ops # << >>
  BY FrameFacts
<1>2. OpsAt(fs, i) \in Seq(Operand)
  <2>1. CASE i < Len(fs) /\ fs[i + 1].discard_result
    <3>1. i + 1 \in 2 .. Len(fs) /\ (i + 1) - 1 = i
      BY <1>1, <2>1
    <3>2. fs[i].ops # << >>
      BY <2>1, <3>1, FrameFacts
    <3>3. SubSeq(fs[i].ops, 1, Len(fs[i].ops) - 1) \in Seq(Operand)
      BY <1>1, <3>2, ButLast
    <3> QED BY <2>1, <3>3 DEF OpsAt
  <2>2. CASE ~(i < Len(fs) /\ fs[i + 1].discard_result)
    BY <1>1, <2>2 DEF OpsAt
  <2> QED BY <2>1, <2>2
<1>3. ResultAt(fs, i) \in Operand
  <2>1. CASE fs[i].discard_result
    <3>1. Last(fs[i - 1].ops) \in Operand
      BY <1>1, <2>1, ButLast
    <3> QED BY <2>1, <3>1 DEF ResultAt, Operand
  <2>2. CASE ~fs[i].discard_result
    BY <2>2 DEF ResultAt, Operand
  <2> QED BY <2>1, <2>2
<1> QED BY <1>1, <1>2, <1>3 DEF Act, Activation

\* They form a sequence, one shorter than the frames.
LEMMA ActsType ==
    ASSUME NEW fs, Stack(fs)
    PROVE  /\ Acts(fs) \in Seq(Activation) /\ Len(Acts(fs)) = Len(fs) - 1 /\ Len(fs) \in Nat \ {0}
           /\ \A i \in 1 .. Len(fs) - 1 : Acts(fs)[i] = Act(fs, i + 1)
<1> DEFINE n == Len(fs) - 1
<1>1. Len(fs) \in Nat \ {0}
  BY EmptySeq DEF Stack
<1>2. n \in Nat
  BY <1>1
<1>3. \A i \in 1 .. n : Act(fs, i + 1) \in Activation
  <2> SUFFICES ASSUME NEW i \in 1 .. n PROVE Act(fs, i + 1) \in Activation
    OBVIOUS
  <2>1. i + 1 \in 2 .. Len(fs)
    BY <1>1
  <2> QED BY <2>1, ActType
<1>4. Acts(fs) = [i \in 1 .. n |-> Act(fs, i + 1)]
  BY DEF Acts
<1> HIDE DEF n
<1>5. /\ Acts(fs) \in Seq(Activation) /\ Len(Acts(fs)) = n
      /\ \A i \in 1 .. n : Acts(fs)[i] = Act(fs, i + 1)
  BY <1>2, <1>3, <1>4
<1> QED BY <1>1, <1>5 DEF n

-----------------------------------------------------------------------------
(* What a change of the frames does to the activations *)

\* An activation depends on its frame, the one below and the flag of the one above.
LEMMA ActSame ==
    ASSUME NEW fs, Stack(fs), NEW gs, Stack(gs), NEW i \in 2 .. Len(fs), i \in 2 .. Len(gs),
           gs[i] = fs[i], gs[i - 1] = fs[i - 1],
           i < Len(fs) /\ fs[i + 1].discard_result <=> i < Len(gs) /\ gs[i + 1].discard_result
    PROVE  Act(gs, i) = Act(fs, i)
<1>1. OpsAt(gs, i) = OpsAt(fs, i)
  BY DEF OpsAt
<1>2. ResultAt(gs, i) = ResultAt(fs, i)
  BY DEF ResultAt
<1> QED BY <1>1, <1>2 DEF Act

\* Other operands of the top frame are other operands of the running activation.
LEMMA OperandsActs ==
    ASSUME NEW fs, Stack(fs), Len(fs) > 1, NEW gs, Stack(gs), Len(gs) = Len(fs),
           \A i \in 1 .. Len(fs) - 1 : gs[i] = fs[i],
           NEW ops \in Seq(Operand), Last(gs) = [Last(fs) EXCEPT !.ops = ops]
    PROVE  /\ \A i \in 2 .. Len(fs) - 1 : Act(gs, i) = Act(fs, i)
           /\ Act(gs, Len(fs)) = [Act(fs, Len(fs)) EXCEPT !.ops = ops]
<1> DEFINE n == Len(fs)
<1>1. n \in Nat /\ n > 1 /\ fs[n] \in Frame
  BY LastFrame DEF Stack, Last
<1>2. gs[n] = [fs[n] EXCEPT !.ops = ops]
  BY DEF Last
<1>3. /\ gs[n].ops = ops /\ gs[n].code = fs[n].code /\ gs[n].discard_result = fs[n].discard_result
  BY <1>1, <1>2 DEF Frame
<1>4. ASSUME NEW i \in 2 .. n - 1
      PROVE  Act(gs, i) = Act(fs, i)
  <2>1. i \in 2 .. Len(fs) /\ i \in 2 .. Len(gs) /\ gs[i] = fs[i] /\ gs[i - 1] = fs[i - 1]
    BY <1>1
  <2>2. gs[i + 1].discard_result = fs[i + 1].discard_result
    <3>1. CASE i + 1 = n
      BY <1>3, <3>1
    <3>2. CASE i + 1 # n
      BY <1>1, <3>2
    <3> QED BY <3>1, <3>2
  <2>3. i < Len(fs) /\ fs[i + 1].discard_result <=> i < Len(gs) /\ gs[i + 1].discard_result
    BY <2>1, <2>2
  <2> QED BY <2>1, <2>3, ActSame
<1>5. OpsAt(gs, n) = ops /\ gs[n - 1] = fs[n - 1]
  <2>1. gs[n - 1] = fs[n - 1]
    BY <1>1
  <2>2. ~(n < Len(gs))
    BY <1>1
  <2> HIDE DEF n
  <2> QED BY <1>3, <2>1, <2>2 DEF OpsAt
<1>6. ResultAt(gs, n) = ResultAt(fs, n)
  BY <1>3, <1>5 DEF ResultAt
<1>7. Act(gs, n) = [Act(fs, n) EXCEPT !.ops = ops]
  BY <1>3, <1>5, <1>6 DEF Act
<1> QED BY <1>4, <1>7

\* The top frame reused is the running activation begun again with another function.
LEMMA ReusedActs ==
    ASSUME NEW fs, Stack(fs), Len(fs) > 1, NEW gs, Stack(gs), Len(gs) = Len(fs),
           \A i \in 1 .. Len(fs) - 1 : gs[i] = fs[i],
           Last(gs).ops = << >>, Last(gs).discard_result = Last(fs).discard_result
    PROVE  /\ \A i \in 2 .. Len(fs) - 1 : Act(gs, i) = Act(fs, i)
           /\ Act(gs, Len(fs)).fn = Last(gs).code /\ Act(gs, Len(fs)).ops = << >>
           /\ Act(gs, Len(fs)).result = Act(fs, Len(fs)).result
<1> DEFINE n == Len(fs)
<1>1. n \in Nat /\ n > 1
  BY LastFrame DEF Stack
<1>2. gs[n] = Last(gs) /\ fs[n] = Last(fs)
  BY DEF Last
<1>4. ASSUME NEW i \in 2 .. n - 1
      PROVE  Act(gs, i) = Act(fs, i)
  <2>1. i \in 2 .. Len(fs) /\ i \in 2 .. Len(gs) /\ gs[i] = fs[i] /\ gs[i - 1] = fs[i - 1]
    BY <1>1
  <2>2. gs[i + 1].discard_result = fs[i + 1].discard_result
    <3>1. CASE i + 1 = n
      BY <1>2, <3>1
    <3>2. CASE i + 1 # n
      BY <1>1, <3>2
    <3> QED BY <3>1, <3>2
  <2>3. i < Len(fs) /\ fs[i + 1].discard_result <=> i < Len(gs) /\ gs[i + 1].discard_result
    BY <2>1, <2>2
  <2> QED BY <2>1, <2>3, ActSame
<1>5. OpsAt(gs, n) = << >> /\ gs[n - 1] = fs[n - 1]
  BY <1>1, <1>2 DEF OpsAt
<1>6. ResultAt(gs, n) = ResultAt(fs, n)
  BY <1>2, <1>5 DEF ResultAt
<1>7. /\ Act(gs, n).fn = Last(gs).code /\ Act(gs, n).ops = << >>
      /\ Act(gs, n).result = Act(fs, n).result
  BY <1>2, <1>5, <1>6 DEF Act
<1> QED BY <1>4, <1>7

\* A frame pushed is an activation more; what its discarded result stands for is no
\* longer an operand of its caller.
LEMMA PushedActs ==
    ASSUME NEW fs, Stack(fs), NEW fr \in Frame, Stack(Append(fs, fr)), fr.ops = << >>
    PROVE  LET gs == Append(fs, fr)
               ops == Last(fs).ops
           IN  /\ \A i \in 2 .. Len(fs) - 1 : Act(gs, i) = Act(fs, i)
               /\ Len(fs) > 1 =>
                    Act(gs, Len(fs)) = [Act(fs, Len(fs)) EXCEPT
                        !.ops = IF fr.discard_result THEN SubSeq(ops, 1, Len(ops) - 1) ELSE ops]
               /\ Act(gs, Len(fs) + 1) =
                    [fn |-> fr.code, ops |-> << >>, result |-> ResultAt(gs, Len(fs) + 1)]
<1> DEFINE n == Len(fs)
           gs == Append(fs, fr)
           ops == Last(fs).ops
<1>1. n \in Nat /\ n > 0 /\ fs \in Seq(Frame)
  BY LastFrame DEF Stack
<1>2. Len(gs) = n + 1 /\ gs[n + 1] = fr /\ \A i \in 1 .. n : gs[i] = fs[i]
  BY <1>1
<1>3. ops = fs[n].ops
  BY DEF Last
<1> HIDE DEF gs, ops
<1>4. ASSUME NEW i \in 2 .. n - 1
      PROVE  Act(gs, i) = Act(fs, i)
  <2>1. i \in 2 .. Len(fs) /\ i \in 2 .. Len(gs) /\ gs[i] = fs[i] /\ gs[i - 1] = fs[i - 1]
        /\ gs[i + 1] = fs[i + 1] /\ i < Len(fs) /\ i < Len(gs)
    BY <1>1, <1>2
  <2>2. Stack(gs)
    BY DEF gs
  <2> QED BY <2>1, <2>2, ActSame
<1>5. ASSUME n > 1
      PROVE  Act(gs, n) = [Act(fs, n) EXCEPT
                              !.ops = IF fr.discard_result THEN SubSeq(ops, 1, Len(ops) - 1) ELSE ops]
  <2>1. gs[n] = fs[n] /\ gs[n - 1] = fs[n - 1]
    BY <1>1, <1>2, <1>5
  <2>2. OpsAt(gs, n) = IF fr.discard_result THEN SubSeq(ops, 1, Len(ops) - 1) ELSE ops
    BY <1>1, <1>2, <1>3 DEF OpsAt
  <2>3. ResultAt(gs, n) = ResultAt(fs, n)
    BY <2>1 DEF ResultAt
  <2> QED BY <2>1, <2>2, <2>3 DEF Act
<1>6. Act(gs, n + 1) = [fn |-> fr.code, ops |-> << >>, result |-> ResultAt(gs, n + 1)]
  BY <1>1, <1>2 DEF Act, OpsAt
<1> QED BY <1>4, <1>5, <1>6 DEF gs, ops

\* The top frame popped: its caller has the operands it was left with again.
LEMMA PoppedActs ==
    ASSUME NEW fs, Stack(fs), Len(fs) > 2, NEW gs, Stack(gs), Len(gs) = Len(fs) - 1,
           \A i \in 1 .. Len(fs) - 1 : gs[i] = fs[i]
    PROVE  /\ \A i \in 2 .. Len(fs) - 2 : Act(gs, i) = Act(fs, i)
           /\ Act(gs, Len(fs) - 1) = [Act(fs, Len(fs) - 1) EXCEPT !.ops = Last(gs).ops]
<1> DEFINE n == Len(fs)
<1>1. n \in Nat /\ n > 2
  BY LastFrame DEF Stack
<1>2. gs[n - 1] = Last(gs) /\ gs[n - 1] = fs[n - 1] /\ gs[(n - 1) - 1] = fs[(n - 1) - 1]
  BY <1>1 DEF Last
<1>3. ASSUME NEW i \in 2 .. n - 2
      PROVE  Act(gs, i) = Act(fs, i)
  <2>1. i \in 2 .. Len(fs) /\ i \in 2 .. Len(gs) /\ gs[i] = fs[i] /\ gs[i - 1] = fs[i - 1]
        /\ gs[i + 1] = fs[i + 1] /\ i < Len(fs) /\ i < Len(gs)
    BY <1>1
  <2> QED BY <2>1, ActSame
<1>4. OpsAt(gs, n - 1) = Last(gs).ops
  BY <1>1, <1>2 DEF OpsAt
<1>5. ResultAt(gs, n - 1) = ResultAt(fs, n - 1)
  BY <1>2 DEF ResultAt
<1>6. Act(gs, n - 1) = [Act(fs, n - 1) EXCEPT !.ops = Last(gs).ops]
  BY <1>2, <1>4, <1>5 DEF Act
<1> QED BY <1>3, <1>6

-----------------------------------------------------------------------------
(* What the steps of Activations need *)

\* Another last element leaves the callers.
LEMMA FrontReplaced ==
    ASSUME NEW A \in Seq(Activation), A # << >>, NEW B \in Seq(Activation), Len(B) = Len(A),
           \A i \in 1 .. Len(A) - 1 : B[i] = A[i],
           NEW x, B[Len(A)] = x
    PROVE  B = Append(Program!Callers(A), x)
<1>1. B = Append(SubSeq(A, 1, Len(A) - 1), B[Len(A)])
  BY FrontAndLast
<1> QED BY <1>1 DEF Program!Callers

\* Other operands of the running activation.
LEMMA ComputeStep ==
    ASSUME NEW A \in Seq(Activation), A # << >>, NEW B \in Seq(Activation), Len(B) = Len(A),
           \A i \in 1 .. Len(A) - 1 : B[i] = A[i],
           NEW ops, B[Len(A)] = [A[Len(A)] EXCEPT !.ops = ops]
    PROVE  Program!Compute(A, B)
<1>1. B = Append(Program!Callers(A), [A[Len(A)] EXCEPT !.ops = ops])
  BY FrontReplaced
<1>2. Len(A) \in Nat \ {0}
  BY EmptySeq
<1>3. A[Len(A)] \in Activation
  BY <1>2, ElementOfSeq
<1>4. B[Len(B)].ops = ops
  BY <1>3 DEF Activation
<1>5. B = Program!WithOps(A, Program!Last(B).ops)
  BY <1>1, <1>4 DEF Program!WithOps, Program!Last
<1> QED BY <1>5 DEF Program!Compute

\* An activation with other operands.
LEMMA OtherOperands ==
    ASSUME NEW a \in Activation, NEW b \in Activation, NEW ops,
           b.fn = a.fn, b.ops = ops, b.result = a.result
    PROVE  b = [a EXCEPT !.ops = ops]
<1> DEFINE x == [a EXCEPT !.ops = ops]
<1>1. x \in Activation /\ x.fn = a.fn /\ x.ops = ops /\ x.result = a.result
  BY DEF Activation
<1> HIDE DEF x
<1>2. x = b
  BY <1>1 DEF Activation
<1> QED BY <1>2 DEF x

\* An activation begun again keeps its result.
LEMMA BegunAgain ==
    ASSUME NEW a \in Activation, NEW f \in Functions,
           NEW b \in Activation, b.fn = f, b.ops = << >>, b.result = a.result
    PROVE  b = [a EXCEPT !.fn = f, !.ops = << >>]
<1> DEFINE x == [a EXCEPT !.fn = f, !.ops = << >>]
<1>1. x \in Activation /\ x.fn = f /\ x.ops = << >> /\ x.result = a.result
  BY DEF Activation
<1> HIDE DEF x
<1>2. x = b
  BY <1>1 DEF Activation
<1> QED BY <1>2 DEF x

\* The running activation begun again in place of a return.
LEMMA TailCallStep ==
    ASSUME NEW A \in Seq(Activation), A # << >>, NEW B \in Seq(Activation), Len(B) = Len(A),
           \A i \in 1 .. Len(A) - 1 : B[i] = A[i],
           NEW f \in Functions, B[Len(A)].fn = f, B[Len(A)].ops = << >>,
           B[Len(A)].result = A[Len(A)].result
    PROVE  Program!TailCall(A, B, DomainOf(f))
<1>1. Len(A) \in Nat \ {0}
  BY EmptySeq
<1>2. A[Len(A)] \in Activation /\ B[Len(A)] \in Activation
  BY <1>1, ElementOfSeq
<1>3. B[Len(A)] = [A[Len(A)] EXCEPT !.fn = f, !.ops = << >>]
  BY <1>2, BegunAgain
<1>4. B = Append(Program!Callers(A), [A[Len(A)] EXCEPT !.fn = f, !.ops = << >>])
  BY <1>3, FrontReplaced
<1> QED BY <1>4 DEF Program!TailCall, Program!Last

\* Operands taken and an activation more.
LEMMA CallStep ==
    ASSUME NEW A \in Seq(Activation), NEW B \in Seq(Activation), Len(B) = Len(A) + 1,
           \A i \in 1 .. Len(A) - 1 : B[i] = A[i],
           NEW k \in Nat,
           A # << >> => /\ k <= Len(A[Len(A)].ops)
                        /\ B[Len(A)] = [A[Len(A)] EXCEPT !.ops = SubSeq(A[Len(A)].ops, 1, k)],
           NEW f \in Functions, NEW result \in {"value", "instance"},
           B[Len(B)] = [fn |-> f, ops |-> << >>, result |-> result]
    PROVE  Program!Call(A, B, DomainOf(f))
<1> DEFINE n == Len(A)
<1>1. n \in Nat
  BY LenProperties
<1>2. B # << >>
  BY <1>1
<1>3. ASSUME A # << >>
      PROVE  LET kept == Program!Last(Program!Callers(B)).ops IN
             /\ Len(kept) <= Len(Program!Last(A).ops)
             /\ kept = SubSeq(Program!Last(A).ops, 1, Len(kept))
             /\ Program!Callers(B) = Program!WithOps(A, kept)
  <2> DEFINE C == SubSeq(B, 1, Len(B) - 1)
             ops == A[n].ops
             short == SubSeq(ops, 1, k)
  <2>1. n \in Nat \ {0} /\ A[n] \in Activation
    <3>1. n \in Nat \ {0}
      BY <1>3, EmptySeq
    <3> QED BY <3>1, ElementOfSeq
  <2>2. ops \in Seq(Operand) /\ Len(ops) \in Nat
    BY <2>1, LenProperties DEF Activation
  <2>3. k <= Len(ops) /\ B[n] = [A[n] EXCEPT !.ops = short]
    BY <1>3
  <2>4. Len(short) = k
    <3>1. \A i \in 1 .. k : ops[i] \in Operand
      BY <2>2, <2>3, ElementOfSeq
    <3> HIDE DEF ops
    <3> QED BY <2>2, <2>3, <3>1, SubSeqProperties
  <2>5. /\ C \in Seq(Activation) /\ Len(C) = n
        /\ \A i \in 1 .. n : C[i] = B[i]
    <3>1. \A i \in 1 .. n : B[i] \in Activation
      BY <1>1, ElementOfSeq
    <3>2. C = SubSeq(B, 1, n) /\ Len(B) = n + 1
      BY <1>1
    <3> HIDE DEF C, n
    <3> QED BY <1>1, <3>1, <3>2, SubSeqProperties
  <2>6. Program!Callers(B) = C
    BY DEF Program!Callers
  <2> HIDE DEF C, short, ops
  <2>7. C[n].ops = short
    <3>1. C[n] = B[n]
      BY <2>1, <2>5
    <3> HIDE DEF n
    <3> QED BY <2>1, <2>3, <3>1 DEF Activation
  <2>8. C = Append(Program!Callers(A), [A[n] EXCEPT !.ops = short])
    <3>1. \A i \in 1 .. Len(A) - 1 : C[i] = A[i]
      BY <2>1, <2>5
    <3>2. C[n] = [A[n] EXCEPT !.ops = short]
      <4>1. C[n] = B[n]
        BY <2>1, <2>5
      <4> HIDE DEF n
      <4> QED BY <2>3, <4>1
    <3>3. Len(C) = Len(A)
      BY <2>5
    <3> QED BY <1>3, <2>5, <3>1, <3>2, <3>3, FrontReplaced
  <2>9. C = Program!WithOps(A, short)
    BY <2>8 DEF Program!WithOps, Program!Last
  <2>10. Program!Last(C).ops = short
    BY <2>5, <2>7 DEF Program!Last
  <2> QED BY <2>3, <2>4, <2>6, <2>9, <2>10 DEF Program!Last, ops, short
<1> QED BY <1>3 DEF Program!Call, Program!Last

\* One activation less and its result among the operands of the one below.
LEMMA ReturnStep ==
    ASSUME NEW A \in Seq(Activation), Len(A) > 1, NEW B \in Seq(Activation), Len(B) = Len(A) - 1,
           \A i \in 1 .. Len(A) - 2 : B[i] = A[i],
           A[Len(A)].ops # << >>,
           B[Len(B)] = [A[Len(B)] EXCEPT !.ops = Append(A[Len(B)].ops, A[Len(A)].result)]
    PROVE  Program!Return(A, B, DomainOf(B[Len(B)].fn))
<1> DEFINE n == Len(A)
           C == SubSeq(A, 1, n - 1)
           x == [A[n - 1] EXCEPT !.ops = Append(A[n - 1].ops, A[n].result)]
<1>1. n \in Nat /\ n > 1
  BY LenProperties
<1>2. C \in Seq(Activation) /\ Len(C) = n - 1 /\ \A i \in 1 .. n - 1 : C[i] = A[i]
  <2>1. \A i \in 1 .. n - 1 : A[i] \in Activation
    BY <1>1, ElementOfSeq
  <2>2. C = SubSeq(A, 1, n - 1) /\ n - 1 \in Nat /\ n - 1 <= Len(A)
    BY <1>1
  <2> HIDE DEF n, C
  <2> QED BY <2>1, <2>2, SubSeqProperties
<1>3. Program!Callers(A) = C
  BY DEF Program!Callers
<1> HIDE DEF C, x
<1>4. C # << >> /\ C[n - 1] = A[n - 1]
  BY <1>1, <1>2
<1>5. B = Append(Program!Callers(C), x)
  <2>1. \A i \in 1 .. Len(C) - 1 : B[i] = C[i]
    BY <1>1, <1>2
  <2>2. B[Len(C)] = x
    BY <1>1, <1>2 DEF x
  <2>3. Len(B) = Len(C)
    BY <1>2
  <2> QED BY <1>2, <1>4, <2>1, <2>2, <2>3, FrontReplaced
<1>6. B = Program!WithOps(C, Append(Program!Last(C).ops, Program!Last(A).result))
  BY <1>2, <1>4, <1>5 DEF Program!WithOps, Program!Last, x
<1> QED BY <1>3, <1>6 DEF Program!Return, Program!Last

-----------------------------------------------------------------------------
(* Changes of the frames as steps of Activations *)

\* gs differs from fs in the operands of the top frame at most.
Topped(fs, gs) == /\ Len(gs) = Len(fs)
                  /\ \A i \in 1 .. Len(fs) - 1 : gs[i] = fs[i]
                  /\ Last(gs) = [Last(fs) EXCEPT !.ops = Last(gs).ops]

\* Any frames written at the top.
LEMMA TopWritten ==
    ASSUME NEW fs, Stack(fs), NEW x
    PROVE  /\ Len(WithTop(fs, x)) = Len(fs) /\ Last(WithTop(fs, x)) = x
           /\ \A i \in 1 .. Len(fs) - 1 : WithTop(fs, x)[i] = fs[i]
<1> DEFINE S == Frame \cup {x}
           gs == WithTop(fs, x)
<1>1. fs \in Seq(Frame) /\ Len(fs) \in Nat \ {0}
  BY EmptySeq DEF Stack
<1>2. fs \in Seq(S) /\ x \in S
  <2>1. \A i \in 1 .. Len(fs) : fs[i] \in S
    BY <1>1, ElementOfSeq
  <2>2. fs = [i \in 1 .. Len(fs) |-> fs[i]]
    BY <1>1
  <2> QED BY <1>1, <2>1, <2>2
<1> HIDE DEF S
<1>3. /\ gs \in Seq(S) /\ Len(gs) = Len(fs)
      /\ \A i \in 1 .. Len(fs) : gs[i] = IF i = Len(fs) THEN x ELSE fs[i]
  BY <1>1, <1>2, ExceptSeq DEF WithTop
<1> QED BY <1>1, <1>3 DEF Last

\* Operands written at the top.
LEMMA OperandsTopped ==
    ASSUME NEW fs, Stack(fs), NEW ops
    PROVE  LET gs == WithTop(fs, [Last(fs) EXCEPT !.ops = ops])
           IN  Topped(fs, gs) /\ Last(gs).ops = ops
<1>1. Last(fs) \in Frame
  BY LastFrame DEF Stack
<1> DEFINE x == [Last(fs) EXCEPT !.ops = ops]
<1>2. x.ops = ops
  BY <1>1 DEF Frame
<1> HIDE DEF x
<1>3. /\ Len(WithTop(fs, x)) = Len(fs) /\ Last(WithTop(fs, x)) = x
      /\ \A i \in 1 .. Len(fs) - 1 : WithTop(fs, x)[i] = fs[i]
  BY TopWritten
<1>4. Last(WithTop(fs, x)) = [Last(fs) EXCEPT !.ops = Last(WithTop(fs, x)).ops]
  BY <1>2, <1>3 DEF x
<1> QED BY <1>2, <1>3, <1>4 DEF Topped, x

\* One such change after another.
LEMMA ToppedTwice ==
    ASSUME NEW fs, Stack(fs), NEW gs, Stack(gs), Topped(fs, gs), NEW hs, Topped(gs, hs)
    PROVE  Topped(fs, hs)
<1>1. Last(fs) \in Frame /\ Last(gs) \in Frame
  BY LastFrame DEF Stack
<1>2. Last(hs) = [Last(fs) EXCEPT !.ops = Last(hs).ops]
  BY <1>1 DEF Topped, Frame
<1> QED BY <1>2 DEF Topped

\* An instruction that changes operands only computes.
LEMMA OperandsStep ==
    ASSUME NEW fs, Stack(fs), Len(fs) > 1, NEW gs, Stack(gs), Topped(fs, gs)
    PROVE  Program!Compute(Acts(fs), Acts(gs))
<1> DEFINE n == Len(fs) - 1
           A == Acts(fs)
           B == Acts(gs)
           ops == Last(gs).ops
<1>1. /\ A \in Seq(Activation) /\ Len(A) = n /\ B \in Seq(Activation) /\ Len(B) = n
      /\ \A i \in 1 .. n : A[i] = Act(fs, i + 1) /\ B[i] = Act(gs, i + 1)
      /\ n \in Nat \ {0}
  BY ActsType DEF Topped
<1>2. ops \in Seq(Operand)
  BY LastFrame DEF Stack
<1>3. /\ \A i \in 2 .. n : Act(gs, i) = Act(fs, i)
      /\ Act(gs, n + 1) = [Act(fs, n + 1) EXCEPT !.ops = ops]
  <2>1. /\ \A i \in 2 .. Len(fs) - 1 : Act(gs, i) = Act(fs, i)
        /\ Act(gs, Len(fs)) = [Act(fs, Len(fs)) EXCEPT !.ops = ops]
    BY <1>2, OperandsActs DEF Topped
  <2>2. n + 1 = Len(fs)
    BY ActsType
  <2> QED BY <2>1, <2>2
<1> HIDE DEF n, A, B, ops
<1>4. \A i \in 1 .. Len(A) - 1 : B[i] = A[i]
  <2> SUFFICES ASSUME NEW i \in 1 .. n - 1 PROVE B[i] = A[i]
    BY <1>1
  <2>1. i + 1 \in 2 .. n /\ i \in 1 .. n
    BY <1>1
  <2>2. Act(gs, i + 1) = Act(fs, i + 1)
    BY <1>3, <2>1
  <2>3. A[i] = Act(fs, i + 1) /\ B[i] = Act(gs, i + 1)
    BY <1>1, <2>1
  <2> QED BY <2>2, <2>3
<1>5. B[Len(A)] = [A[Len(A)] EXCEPT !.ops = ops]
  BY <1>1, <1>3
<1>6. A # << >>
  BY <1>1
<1>7. Program!Compute(A, B)
  BY <1>1, <1>4, <1>5, <1>6, ComputeStep
<1> QED BY <1>7 DEF A, B

\* A frame reused is a tail call.
LEMMA ReusedStep ==
    ASSUME NEW fs, Stack(fs), Len(fs) > 1, NEW gs, Stack(gs), Len(gs) = Len(fs),
           \A i \in 1 .. Len(fs) - 1 : gs[i] = fs[i],
           Last(gs).ops = << >>, Last(gs).discard_result = Last(fs).discard_result
    PROVE  Program!TailCall(Acts(fs), Acts(gs), DomainOf(Last(gs).code))
<1> DEFINE n == Len(fs) - 1
           A == Acts(fs)
           B == Acts(gs)
<1>1. /\ A \in Seq(Activation) /\ Len(A) = n /\ B \in Seq(Activation) /\ Len(B) = n
      /\ \A i \in 1 .. n : A[i] = Act(fs, i + 1) /\ B[i] = Act(gs, i + 1)
      /\ n \in Nat \ {0}
  BY ActsType
<1>2. Last(gs).code \in Functions
  <2>1. Len(gs) \in 2 .. Len(gs)
    BY LastFrame DEF Stack
  <2> QED BY <2>1, FrameFacts DEF Last
<1>3. /\ \A i \in 2 .. n : Act(gs, i) = Act(fs, i)
      /\ Act(gs, n + 1).fn = Last(gs).code /\ Act(gs, n + 1).ops = << >>
      /\ Act(gs, n + 1).result = Act(fs, n + 1).result
  <2>1. /\ \A i \in 2 .. Len(fs) - 1 : Act(gs, i) = Act(fs, i)
        /\ Act(gs, Len(fs)).fn = Last(gs).code /\ Act(gs, Len(fs)).ops = << >>
        /\ Act(gs, Len(fs)).result = Act(fs, Len(fs)).result
    BY ReusedActs
  <2>2. n + 1 = Len(fs)
    BY ActsType
  <2> QED BY <2>1, <2>2
<1> HIDE DEF n, A, B
<1>4. \A i \in 1 .. Len(A) - 1 : B[i] = A[i]
  <2> SUFFICES ASSUME NEW i \in 1 .. n - 1 PROVE B[i] = A[i]
    BY <1>1
  <2>1. i + 1 \in 2 .. n /\ i \in 1 .. n
    BY <1>1
  <2>2. Act(gs, i + 1) = Act(fs, i + 1)
    BY <1>3, <2>1
  <2>3. A[i] = Act(fs, i + 1) /\ B[i] = Act(gs, i + 1)
    BY <1>1, <2>1
  <2> QED BY <2>2, <2>3
<1>5. B[Len(A)].fn = Last(gs).code /\ B[Len(A)].ops = << >> /\ B[Len(A)].result = A[Len(A)].result
  BY <1>1, <1>3
<1>6. A # << >>
  BY <1>1
<1>7. Program!TailCall(A, B, DomainOf(Last(gs).code))
  BY <1>1, <1>2, <1>4, <1>5, <1>6, TailCallStep
<1> QED BY <1>7 DEF A, B

\* Operands taken, one perhaps put in place of the result, and a frame pushed: a call.
LEMMA PushedStep ==
    ASSUME NEW fs, Stack(fs), NEW hs, Stack(hs), Topped(fs, hs),
           NEW fr \in Frame, Stack(Append(hs, fr)), fr.ops = << >>,
           NEW k \in Nat, k <= Len(Last(fs).ops),
           Len(fs) > 1 =>
               (IF fr.discard_result THEN SubSeq(Last(hs).ops, 1, Len(Last(hs).ops) - 1) ELSE Last(hs).ops)
                 = SubSeq(Last(fs).ops, 1, k)
    PROVE  Program!Call(Acts(fs), Acts(Append(hs, fr)), DomainOf(fr.code))
<1> DEFINE n == Len(fs) - 1
           gs == Append(hs, fr)
           A == Acts(fs)
           B == Acts(gs)
           kept == SubSeq(Last(fs).ops, 1, k)
<1>1. Len(gs) = Len(fs) + 1 /\ Last(gs) = fr /\ Len(fs) \in Nat \ {0} /\ hs \in Seq(Frame)
      /\ gs[Len(gs)] = fr
  <2>1. hs \in Seq(Frame) /\ Len(hs) = Len(fs)
    BY DEF Stack, Topped
  <2>2. Len(hs) \in Nat \ {0}
    BY LastFrame DEF Stack
  <2> QED BY <2>1, <2>2 DEF Last
<1>2. /\ A \in Seq(Activation) /\ Len(A) = n /\ B \in Seq(Activation) /\ Len(B) = n + 1
      /\ \A i \in 1 .. n : A[i] = Act(fs, i + 1)
      /\ \A i \in 1 .. n + 1 : B[i] = Act(gs, i + 1)
      /\ n \in Nat /\ Len(fs) = n + 1
  <2>1. /\ A \in Seq(Activation) /\ Len(A) = Len(fs) - 1
        /\ \A i \in 1 .. Len(fs) - 1 : A[i] = Act(fs, i + 1)
    BY ActsType
  <2>2. /\ B \in Seq(Activation) /\ Len(B) = Len(gs) - 1
        /\ \A i \in 1 .. Len(gs) - 1 : B[i] = Act(gs, i + 1)
    BY ActsType
  <2> HIDE DEF A, B, gs
  <2>3. n + 1 = Len(gs) - 1
    BY <1>1
  <2> QED BY <1>1, <2>1, <2>2, <2>3
<1>3. fr.code \in Functions
  <2>1. Len(gs) \in 2 .. Len(gs)
    BY <1>1
  <2> HIDE DEF gs
  <2>2. gs[Len(gs)].code \in Functions
    BY <2>1, FrameFacts DEF gs
  <2> QED BY <1>1, <2>2
<1>4. /\ \A i \in 2 .. Len(hs) - 1 : Act(gs, i) = Act(hs, i)
      /\ Len(hs) > 1 =>
           Act(gs, Len(hs)) = [Act(hs, Len(hs)) EXCEPT
               !.ops = IF fr.discard_result THEN SubSeq(Last(hs).ops, 1, Len(Last(hs).ops) - 1) ELSE Last(hs).ops]
      /\ Act(gs, Len(hs) + 1) = [fn |-> fr.code, ops |-> << >>, result |-> ResultAt(gs, Len(hs) + 1)]
  BY PushedActs
<1>5. Len(fs) > 1 =>
        /\ \A i \in 2 .. Len(fs) - 1 : Act(hs, i) = Act(fs, i)
        /\ Act(hs, Len(fs)) = [Act(fs, Len(fs)) EXCEPT !.ops = Last(hs).ops]
  <2>1. Last(hs).ops \in Seq(Operand)
    BY LastFrame DEF Stack
  <2> QED BY <2>1, OperandsActs DEF Topped
<1>6. Len(hs) = n + 1
  BY <1>2 DEF Topped
<1>7. ResultAt(gs, n + 2) \in {"value", "instance"}
  <2>1. n + 2 \in 2 .. Len(gs) /\ Act(gs, n + 2) \in Activation
    <3>1. n + 2 \in 2 .. Len(gs)
      BY <1>1, <1>2
    <3> HIDE DEF gs
    <3> QED BY <3>1, ActType DEF gs
  <2>2. ResultAt(gs, n + 2) \in Operand
    BY <2>1 DEF Act, Activation
  <2>3. ResultAt(gs, n + 2) # "export"
    BY DEF ResultAt
  <2> QED BY <2>2, <2>3 DEF Operand
<1>8. n > 0 => /\ \A i \in 2 .. n : Act(gs, i) = Act(fs, i)
               /\ Act(gs, n + 1) = [Act(fs, n + 1) EXCEPT !.ops = kept]
  <2> SUFFICES ASSUME n > 0
               PROVE  /\ \A i \in 2 .. n : Act(gs, i) = Act(fs, i)
                      /\ Act(gs, n + 1) = [Act(fs, n + 1) EXCEPT !.ops = kept]
    OBVIOUS
  <2> HIDE DEF gs, kept, n
  <2>1. Len(fs) > 1 /\ n + 1 \in 2 .. Len(fs)
    BY <1>2
  <2>2. Act(fs, n + 1) \in Activation
    BY <2>1, ActType
  <2>3. Act(gs, n + 1) = [Act(hs, n + 1) EXCEPT !.ops = kept]
    BY <1>2, <1>4, <1>6, <2>1 DEF kept
  <2>4. Act(hs, n + 1) = [Act(fs, n + 1) EXCEPT !.ops = Last(hs).ops]
    BY <1>2, <1>5, <2>1
  <2>5. Act(gs, n + 1) = [Act(fs, n + 1) EXCEPT !.ops = kept]
    BY <2>2, <2>3, <2>4 DEF Activation
  <2>6. \A i \in 2 .. n : Act(gs, i) = Act(fs, i)
    BY <1>2, <1>4, <1>5, <1>6, <2>1
  <2> QED BY <2>5, <2>6
<1>9. Act(gs, n + 2) = [fn |-> fr.code, ops |-> << >>, result |-> ResultAt(gs, n + 2)]
  <2>1. Len(hs) + 1 = n + 2
    BY <1>2, <1>6
  <2> QED BY <1>4, <2>1
<1> HIDE DEF gs, kept, A, B
<1>10. \A i \in 1 .. Len(A) - 1 : B[i] = A[i]
  <2> SUFFICES ASSUME NEW i \in 1 .. n - 1 PROVE B[i] = A[i]
    BY <1>2
  <2>1. i + 1 \in 2 .. n /\ i \in 1 .. n /\ i \in 1 .. n + 1 /\ n > 0
    BY <1>2
  <2> HIDE DEF n
  <2> QED BY <1>2, <1>8, <2>1
<1>11. A # << >> => /\ k <= Len(A[Len(A)].ops)
                    /\ B[Len(A)] = [A[Len(A)] EXCEPT !.ops = SubSeq(A[Len(A)].ops, 1, k)]
  <2> SUFFICES ASSUME A # << >>
               PROVE  /\ k <= Len(A[n].ops)
                      /\ B[n] = [A[n] EXCEPT !.ops = SubSeq(A[n].ops, 1, k)]
    BY <1>2
  <2>1. n > 0
    BY <1>2, EmptySeq
  <2> HIDE DEF n
  <2>2. A[n] = Act(fs, n + 1) /\ B[n] = Act(gs, n + 1)
    BY <1>2, <2>1
  <2>3. A[n].ops = Last(fs).ops
    <3>1. OpsAt(fs, n + 1) = fs[n + 1].ops
      BY <1>2 DEF OpsAt
    <3> QED BY <1>2, <2>2, <3>1 DEF Act, Last
  <2> QED BY <1>8, <2>1, <2>2, <2>3 DEF kept
<1>12. B[Len(B)] = [fn |-> fr.code, ops |-> << >>, result |-> ResultAt(gs, n + 2)]
  <2>1. n + 1 \in 1 .. n + 1 /\ (n + 1) + 1 = n + 2 /\ Len(B) = n + 1
    BY <1>2
  <2> HIDE DEF n
  <2> QED BY <1>2, <1>9, <2>1
<1>13. Len(B) = Len(A) + 1
  BY <1>2
<1> HIDE DEF n
<1>14. Program!Call(A, B, DomainOf(fr.code))
  BY <1>2, <1>3, <1>7, <1>10, <1>11, <1>12, <1>13, CallStep
<1> QED BY <1>14 DEF A, B, gs

-----------------------------------------------------------------------------
(* The instructions that do not return *)

\* A push leaves all but the operands of the top frame.
LEMMA PushedTopped ==
    ASSUME NEW fs, Stack(fs), NEW v
    PROVE  Topped(fs, Pushed(fs, v)) /\ Last(Pushed(fs, v)).ops = Append(Last(fs).ops, v)
BY OperandsTopped DEF Pushed

\* So does taking operands off.
LEMMA DiscardedTopped ==
    ASSUME NEW fs, Stack(fs), NEW n
    PROVE  /\ Topped(fs, Discarded(fs, n))
           /\ Last(Discarded(fs, n)).ops = SubSeq(Last(fs).ops, 1, Len(Last(fs).ops) - n)
BY OperandsTopped DEF Discarded

\* All but the last of a longer sequence.
LEMMA FrontOfAppend ==
    ASSUME NEW S, NEW s \in Seq(S), NEW v \in S
    PROVE  SubSeq(Append(s, v), 1, Len(Append(s, v)) - 1) = s
<1> DEFINE t == Append(s, v)
           r == SubSeq(t, 1, Len(t) - 1)
<1>1. t \in Seq(S) /\ Len(t) = Len(s) + 1 /\ t # << >> /\ Len(s) \in Nat
      /\ \A k \in 1 .. Len(s) : t[k] = s[k]
  OBVIOUS
<1> HIDE DEF t
<1>2. r \in Seq(S) /\ Len(r) = Len(t) - 1 /\ \A k \in 1 .. Len(r) : r[k] = t[k]
  BY <1>1, ButLast
<1> HIDE DEF r
<1>3. Len(r) = Len(s) /\ \A k \in 1 .. Len(r) : r[k] = s[k]
  BY <1>1, <1>2
<1>4. r = s
  BY <1>2, <1>3, SeqEqual
<1> QED BY <1>4 DEF r, t

\* While code runs, the program sees an activation.
LEMMA RunningIsLive ==
    ASSUME DInv, Running
    PROVE  /\ Live /\ Stack(frames) /\ Len(frames) > 1 /\ Top = Last(frames)
           /\ Acts(frames) \in Seq(Activation) /\ Acts(frames) # << >>
           /\ Last(frames).ops \in Seq(Operand) /\ Len(Last(frames).ops) \in Nat
<1>1. /\ Stack(frames) /\ Len(frames) > 1 /\ Top = Last(frames)
      /\ Last(frames).ops \in Seq(Operand) /\ Len(Last(frames).ops) \in Nat
  BY RunningFrames DEF DInv
<1>2. Acts(frames) \in Seq(Activation) /\ Len(Acts(frames)) = Len(frames) - 1 /\ Len(frames) \in Nat
  BY <1>1, ActsType
<1>3. Acts(frames) # << >>
  <2> DEFINE A == Acts(frames)
  <2> HIDE DEF A
  <2>1. Len(A) > 0
    BY <1>1, <1>2 DEF A
  <2>2. A # << >>
    BY <2>1
  <2> QED BY <2>2 DEF A
<1> QED BY <1>1, <1>2, <1>3 DEF Live

\* LOAD, POP, DUPLICATE and the native calls compute.
LEMMA OperandsSeen ==
    ASSUME DInv, DInv', ~fault', NEW n \in Nat, Load \/ Pop \/ Duplicate(n) \/ InvokeNative(n)
    PROVE  domain' = domain /\ Program!Compute(Acts(frames), Acts(frames'))
<1>1. Running /\ Stack(frames) /\ Len(frames) > 1 /\ Top = Last(frames) /\ Stack(frames')
  BY RunningIsLive DEF Load, Pop, Duplicate, InvokeNative, DInv, IInv
<1>2. CASE Continue(Pushed(frames, "value"))
  BY <1>1, <1>2, PushedTopped, OperandsStep DEF Continue
<1>3. CASE Continue(Discarded(frames, 1))
  BY <1>1, <1>3, DiscardedTopped, OperandsStep DEF Continue
<1>4. CASE Duplicate(n)
  <2> DEFINE twice == Top.ops \o SubSeq(Top.ops, Len(Top.ops) - n + 1, Len(Top.ops))
  <2>1. Continue(WithTop(frames, [Top EXCEPT !.ops = twice]))
    BY <1>4 DEF Duplicate, Throw
  <2> HIDE DEF twice
  <2>2. frames' = WithTop(frames, [Last(frames) EXCEPT !.ops = twice]) /\ domain' = domain
    BY <1>1, <2>1 DEF Continue
  <2>3. Topped(frames, frames')
    BY <1>1, <2>2, OperandsTopped
  <2> QED BY <1>1, <2>2, <2>3, OperandsStep
<1>5. CASE InvokeNative(n)
  <2> DEFINE taken == Discarded(frames, n)
  <2>1. HasOperands(frames, n) /\ Continue(Pushed(taken, "value"))
    BY <1>5 DEF InvokeNative, Throw
  <2>2. Stack(taken)
    BY <1>1, <2>1, OperandsDiscarded
  <2>3. Topped(frames, taken)
    BY <1>1, DiscardedTopped
  <2> HIDE DEF taken
  <2>4. Topped(frames, Pushed(taken, "value"))
    BY <1>1, <2>2, <2>3, PushedTopped, ToppedTwice
  <2> QED BY <1>1, <2>1, <2>4, OperandsStep DEF Continue
<1> QED BY <1>2, <1>3, <1>4, <1>5 DEF Load, Pop, Throw

\* Entering f on frames that differ from the thread's in the operands of the top one.
LEMMA EnteredStep ==
    ASSUME Stack(frames), Stack(frames'), ~fault', NEW hs, Stack(hs), Topped(frames, hs),
           NEW f \in Functions, NEW tail \in BOOLEAN, NEW return_domain,
           NEW discard \in BOOLEAN, Activated(hs, f, tail, return_domain, discard),
           tail => Len(frames) > 1 /\ ~discard /\ Last(hs).discard_result = FALSE,
           NEW k \in Nat, k <= Len(Last(frames).ops),
           ~tail /\ Len(frames) > 1 =>
               (IF discard THEN SubSeq(Last(hs).ops, 1, Len(Last(hs).ops) - 1) ELSE Last(hs).ops)
                 = SubSeq(Last(frames).ops, 1, k)
    PROVE  \/ Program!Call(Acts(frames), Acts(frames'), domain')
           \/ Program!TailCall(Acts(frames), Acts(frames'), domain')
<1>1. PICK fr \in Frame :
        /\ fr.code = f /\ fr.ops = << >> /\ fr.discard_result = discard
        /\ frames' = IF tail THEN WithTop(hs, fr) ELSE Append(hs, fr)
        /\ domain' = DomainOf(f)
  BY DEF Activated
<1>2. CASE tail
  <2>1. frames' = WithTop(hs, fr)
    BY <1>1, <1>2
  <2>2. /\ Len(frames') = Len(frames) /\ Last(frames') = fr
        /\ \A i \in 1 .. Len(frames) - 1 : frames'[i] = frames[i]
    <3>1. /\ Len(frames') = Len(hs) /\ Last(frames') = fr
          /\ \A i \in 1 .. Len(hs) - 1 : frames'[i] = hs[i]
      BY <2>1, TopWritten
    <3> QED BY <3>1 DEF Topped
  <2>3. Last(frames).discard_result = FALSE
    <3>1. Last(frames) \in Frame
      BY LastFrame DEF Stack
    <3> QED BY <1>2, <3>1 DEF Topped, Frame
  <2>4. Last(frames').discard_result = Last(frames).discard_result /\ Last(frames').ops = << >>
    BY <1>1, <1>2, <2>2, <2>3
  <2>5. Program!TailCall(Acts(frames), Acts(frames'), DomainOf(Last(frames').code))
    BY <1>2, <2>2, <2>4, ReusedStep
  <2> QED BY <1>1, <2>2, <2>5
<1>3. CASE ~tail
  <2>1. frames' = Append(hs, fr) /\ Stack(Append(hs, fr))
    BY <1>1, <1>3
  <2>2. Program!Call(Acts(frames), Acts(Append(hs, fr)), DomainOf(fr.code))
    BY <1>1, <1>3, <2>1, PushedStep
  <2> QED BY <1>1, <2>1, <2>2
<1> QED BY <1>2, <1>3

\* CALL and INVOKE.
LEMMA CallSeen ==
    ASSUME DInv, DInv', ~fault', NEW f \in Functions, NEW n \in Nat, NEW ret \in BOOLEAN,
           Call(f, n, ret) \/ Invoke(f, n, ret)
    PROVE  \/ Program!Call(Acts(frames), Acts(frames'), domain')
           \/ Program!TailCall(Acts(frames), Acts(frames'), domain')
<1>1. Running /\ Stack(frames) /\ Len(frames) > 1 /\ Stack(frames') /\ IInv
      /\ Last(frames).ops \in Seq(Operand) /\ Len(Last(frames).ops) \in Nat
  BY RunningIsLive DEF Call, Invoke, DInv, IInv
<1>2. ASSUME NEW offset \in Nat, HasOperands(frames, offset), NEW tail \in BOOLEAN,
             tail => IsTailCall(Discarded(frames, offset), ret),
             NEW return_domain, Activated(Discarded(frames, offset), f, tail, return_domain, FALSE)
      PROVE  \/ Program!Call(Acts(frames), Acts(frames'), domain')
             \/ Program!TailCall(Acts(frames), Acts(frames'), domain')
  <2> DEFINE taken == Discarded(frames, offset)
             k == Len(Last(frames).ops) - offset
  <2>1. k \in Nat /\ k <= Len(Last(frames).ops)
    BY <1>1, <1>2 DEF HasOperands
  <2>2. /\ Stack(taken) /\ Topped(frames, taken)
        /\ Last(taken).ops = SubSeq(Last(frames).ops, 1, k)
    BY <1>1, <1>2, OperandsDiscarded, DiscardedTopped
  <2>3. Last(taken) \in Frame
    BY <2>2, LastFrame DEF Stack
  <2> HIDE DEF k
  <2>4. tail => Last(taken).discard_result = FALSE
    BY <1>2, <2>3 DEF IsTailCall, Frame
  <2>5. Activated(taken, f, tail, return_domain, FALSE) /\ FALSE \in BOOLEAN
    BY <1>2
  <2> HIDE DEF taken
  <2> QED BY <1>1, <2>1, <2>2, <2>4, <2>5, EnteredStep
<1>3. CASE Call(f, n, ret)
  <2> DEFINE tail == IsTailCall(Discarded(frames, n), ret)
             return_domain == IF tail THEN Top.return_domain ELSE None
  <2>1. HasOperands(frames, n) /\ Activated(Discarded(frames, n), f, tail, return_domain, FALSE)
    BY <1>1, <1>3, CallKeeps
  <2>2. tail \in BOOLEAN /\ (tail => IsTailCall(Discarded(frames, n), ret))
    BY DEF IsTailCall
  <2> HIDE DEF tail, return_domain
  <2> QED BY <1>2, <2>1, <2>2
<1>4. CASE Invoke(f, n, ret)
  <2> DEFINE offset == n + 1
             tail == IsTailCall(Discarded(frames, offset), ret) /\ domain = DomainOf(f)
  <2>1. HasOperands(frames, offset) /\ Activated(Discarded(frames, offset), f, tail, domain, FALSE)
    BY <1>1, <1>4, InvokeActionKeeps
  <2>2. tail \in BOOLEAN /\ (tail => IsTailCall(Discarded(frames, offset), ret)) /\ offset \in Nat
    OBVIOUS
  <2> HIDE DEF tail, offset
  <2> QED BY <1>2, <2>1, <2>2
<1> QED BY <1>3, <1>4

\* NEW.
LEMMA NewSeen ==
    ASSUME DInv, DInv', ~fault', NEW f \in Functions, NEW n \in Nat, New(f, n)
    PROVE  \/ Program!Call(Acts(frames), Acts(frames'), domain')
           \/ Program!TailCall(Acts(frames), Acts(frames'), domain')
<1> DEFINE offset == n + 1
           taken == Discarded(frames, offset)
           ready == Pushed(taken, "instance")
           k == Len(Last(frames).ops) - offset
<1>1. Running /\ Stack(frames) /\ Len(frames) > 1 /\ Stack(frames') /\ IInv /\ Top = Last(frames)
      /\ Last(frames).ops \in Seq(Operand) /\ Len(Last(frames).ops) \in Nat
  BY RunningIsLive DEF New, DInv, IInv
<1>2. offset \in Nat
  OBVIOUS
<1>3. HasOperands(frames, offset) /\ HasRoom(taken, 1) /\ Activated(ready, f, FALSE, domain, TRUE)
  BY <1>1, NewKeeps
<1> HIDE DEF offset
<1>4. k \in Nat /\ k <= Len(Last(frames).ops)
  BY <1>1, <1>2, <1>3 DEF HasOperands
<1>5. /\ Stack(taken) /\ Topped(frames, taken)
      /\ Last(taken).ops = SubSeq(Last(frames).ops, 1, k) /\ Last(taken).ops \in Seq(Operand)
  <2>1. /\ Stack(taken) /\ Topped(frames, taken)
        /\ Last(taken).ops = SubSeq(Last(frames).ops, 1, k)
    BY <1>1, <1>2, <1>3, OperandsDiscarded, DiscardedTopped
  <2> HIDE DEF taken
  <2>2. Last(taken).ops \in Seq(Operand)
    BY <2>1, LastFrame DEF Stack
  <2> QED BY <2>1, <2>2
<1> HIDE DEF taken, k
<1>6. "instance" \in Operand
  BY DEF Operand
<1>7. /\ Stack(ready) /\ Topped(taken, ready)
      /\ Last(ready).ops = Append(Last(taken).ops, "instance")
  BY <1>3, <1>5, <1>6, OperandPushed, PushedTopped
<1> HIDE DEF ready
<1>8. Topped(frames, ready)
  BY <1>1, <1>5, <1>7, ToppedTwice
<1>9. SubSeq(Last(ready).ops, 1, Len(Last(ready).ops) - 1) = SubSeq(Last(frames).ops, 1, k)
  BY <1>5, <1>6, <1>7, FrontOfAppend
<1> QED BY <1>1, <1>3, <1>4, <1>7, <1>8, <1>9, EnteredStep

\* The native require.
LEMMA RequireSeen ==
    ASSUME DInv, DInv', ~fault', NEW f \in Functions, NEW n \in Nat,
           NEW exports \in {"export", "value"}, NEW ret \in BOOLEAN, Require(f, n, exports, ret)
    PROVE  \/ Program!Call(Acts(frames), Acts(frames'), domain')
           \/ Program!TailCall(Acts(frames), Acts(frames'), domain')
<1> DEFINE taken == Discarded(frames, n)
           first == Pushed(taken, exports)
           ready == RequireReady(n, exports)
           left == Discarded(ready, 1)
           tail == IsTailCall(left, ret) /\ domain = DomainOf(f)
           k == Len(Last(frames).ops) - n
<1>1. Running /\ Stack(frames) /\ Len(frames) > 1 /\ Stack(frames') /\ IInv
      /\ Last(frames).ops \in Seq(Operand) /\ Len(Last(frames).ops) \in Nat
  BY RunningIsLive DEF Require, DInv, IInv
<1>2. /\ HasOperands(frames, n) /\ HasRoom(taken, 1) /\ Stack(first)
      /\ Stack(ready) /\ Stack(left) /\ Last(left).ops # << >>
      /\ Activated(left, f, tail, domain, TRUE)
  BY <1>1, RequireKeeps
<1>3. k \in Nat /\ k <= Len(Last(frames).ops)
  BY <1>1, <1>2 DEF HasOperands
<1>4. /\ Stack(taken) /\ Topped(frames, taken)
      /\ Last(taken).ops = SubSeq(Last(frames).ops, 1, k) /\ Last(taken).ops \in Seq(Operand)
  <2>1. /\ Stack(taken) /\ Topped(frames, taken)
        /\ Last(taken).ops = SubSeq(Last(frames).ops, 1, k)
    BY <1>1, <1>2, OperandsDiscarded, DiscardedTopped
  <2> HIDE DEF taken
  <2>2. Last(taken).ops \in Seq(Operand)
    BY <2>1, LastFrame DEF Stack
  <2> QED BY <2>1, <2>2
<1>5. tail = FALSE
  BY <1>2 DEF IsTailCall
<1>6. Activated(left, f, FALSE, domain, TRUE)
  BY <1>2, <1>5
<1> HIDE DEF taken, k, tail
<1>7. exports \in Operand /\ "value" \in Operand
  BY DEF Operand
<1>8. /\ Topped(frames, first) /\ Last(first).ops = Append(Last(taken).ops, exports)
      /\ Last(first).ops \in Seq(Operand)
  <2>1. Topped(taken, first) /\ Last(first).ops = Append(Last(taken).ops, exports)
    BY <1>4, PushedTopped
  <2> QED BY <1>1, <1>2, <1>4, <2>1, ToppedTwice, LastFrame DEF Stack
<1> HIDE DEF first
<1>9. /\ Topped(frames, ready) /\ Last(ready).ops = Append(Last(first).ops, "value")
  <2>1. ready = Pushed(first, "value")
    BY DEF first, taken, RequireReady
  <2>2. Topped(first, ready) /\ Last(ready).ops = Append(Last(first).ops, "value")
    BY <1>2, <2>1, PushedTopped
  <2> HIDE DEF ready
  <2> QED BY <1>1, <1>2, <1>8, <2>2, ToppedTwice
<1> HIDE DEF ready
<1>10. /\ Topped(frames, left)
       /\ Last(left).ops = SubSeq(Last(ready).ops, 1, Len(Last(ready).ops) - 1)
  <2>1. /\ Topped(ready, left)
        /\ Last(left).ops = SubSeq(Last(ready).ops, 1, Len(Last(ready).ops) - 1)
    BY <1>2, DiscardedTopped
  <2> HIDE DEF left
  <2> QED BY <1>1, <1>2, <1>9, <2>1, ToppedTwice
<1> HIDE DEF left
<1>11. Last(left).ops = Append(Last(taken).ops, exports)
  BY <1>7, <1>8, <1>9, <1>10, FrontOfAppend
<1>12. SubSeq(Last(left).ops, 1, Len(Last(left).ops) - 1) = SubSeq(Last(frames).ops, 1, k)
  BY <1>4, <1>7, <1>11, FrontOfAppend
<1> QED BY <1>1, <1>2, <1>3, <1>6, <1>10, <1>12, EnteredStep

\* The host starts a module: the first activation.
LEMMA ExecuteSeen ==
    ASSUME DInv, DInv', ~fault', NEW f \in Functions, ExecuteModule(f)
    PROVE  Program!Call(<< >>, Acts(frames'), domain') /\ ~Live
<1> DEFINE ready == Pushed(frames, "value")
           taken == Discarded(ready, 1)
           tail == IsTailCall(taken, FALSE) /\ domain = DomainOf(f)
<1>1. Stack(frames) /\ Stack(frames') /\ frames = <<BaseFrame>>
  BY ExecuteModuleKeeps DEF DInv, IInv
<1>2. /\ Stack(ready) /\ HasRoom(frames, 1) /\ HasOperands(ready, 1)
      /\ Activated(taken, f, tail, domain, FALSE)
  BY ExecuteModuleKeeps DEF DInv
<1>3. Activated(taken, f, FALSE, domain, FALSE)
  <2>1. tail = FALSE
    BY DEF IsTailCall
  <2> HIDE DEF tail
  <2> QED BY <1>2, <2>1
<1>4. Len(frames) = 1
  <2>1. Len(<<BaseFrame>>) = 1
    OBVIOUS
  <2> QED BY <1>1, <2>1
<1>5. Topped(frames, ready)
  BY <1>1, PushedTopped
<1>6. Stack(taken) /\ Topped(ready, taken)
  <2> HIDE DEF ready
  <2> QED BY <1>2, OperandsDiscarded, DiscardedTopped
<1> HIDE DEF ready
<1>7. Topped(frames, taken)
  <2> HIDE DEF taken
  <2> QED BY <1>1, <1>2, <1>5, <1>6, ToppedTwice
<1>8. 0 \in Nat /\ 0 <= Len(Last(frames).ops) /\ ~(Len(frames) > 1)
  <2>1. Len(Last(frames).ops) \in Nat
    BY <1>1, LastFrame, LenProperties DEF Stack
  <2> QED BY <1>4, <2>1
<1> HIDE DEF taken
<1>9. PICK fr \in Frame :
        /\ fr.code = f /\ fr.ops = << >>
        /\ frames' = Append(taken, fr) /\ domain' = DomainOf(f)
  BY <1>3 DEF Activated
<1>10. Program!Call(Acts(frames), Acts(Append(taken, fr)), DomainOf(fr.code))
  BY <1>1, <1>6, <1>7, <1>8, <1>9, PushedStep
<1>11. Acts(frames) = << >>
  <2>1. Acts(frames) \in Seq(Activation) /\ Len(Acts(frames)) = 0
    BY <1>1, <1>4, ActsType
  <2> QED BY <2>1, EmptySeq
<1> QED BY <1>8, <1>9, <1>10, <1>11 DEF Live

-----------------------------------------------------------------------------
(* RETURN *)

\* The frame below, with the result of the popped one among its operands.
LEMMA PoppedStep ==
    ASSUME NEW fs, Stack(fs), Len(fs) > 2, Last(fs).ops # << >>, NEW gs, Stack(gs),
           Len(gs) = Len(fs) - 1, \A i \in 1 .. Len(fs) - 2 : gs[i] = fs[i],
           LET caller == fs[Len(fs) - 1]
               ops == IF Last(fs).discard_result
                      THEN SubSeq(caller.ops, 1, Len(caller.ops) - 1) ELSE caller.ops
           IN  Last(gs) = [caller EXCEPT !.ops = Append(ops, ResultAt(fs, Len(fs)))]
    PROVE  Program!Return(Acts(fs), Acts(gs), DomainOf(Last(gs).code))
<1> DEFINE n == Len(fs)
           caller == fs[n - 1]
           ops == IF Last(fs).discard_result
                  THEN SubSeq(caller.ops, 1, Len(caller.ops) - 1) ELSE caller.ops
           A == Acts(fs)
           B == Acts(gs)
           r == ResultAt(fs, n)
<1>1. n \in Nat /\ n > 2 /\ Len(gs) = n - 1 /\ Last(fs) = fs[n] /\ Last(gs) = gs[n - 1]
  BY ActsType DEF Last
<1>2. /\ A \in Seq(Activation) /\ Len(A) = n - 1 /\ B \in Seq(Activation) /\ Len(B) = n - 2
      /\ \A i \in 1 .. n - 1 : A[i] = Act(fs, i + 1)
      /\ \A i \in 1 .. n - 2 : B[i] = Act(gs, i + 1)
  <2>1. /\ A \in Seq(Activation) /\ Len(A) = n - 1
        /\ \A i \in 1 .. n - 1 : A[i] = Act(fs, i + 1)
    BY ActsType
  <2>2. /\ B \in Seq(Activation) /\ Len(B) = Len(gs) - 1
        /\ \A i \in 1 .. Len(gs) - 1 : B[i] = Act(gs, i + 1)
    BY ActsType
  <2> HIDE DEF A, B, n
  <2>3. Len(gs) - 1 = n - 2
    BY <1>1
  <2> QED BY <2>1, <2>2, <2>3
<1>3. /\ Last(gs) = [caller EXCEPT !.ops = Append(ops, r)] /\ Last(fs).ops # << >>
      /\ \A i \in 1 .. n - 2 : gs[i] = fs[i]
  OBVIOUS
<1>4. caller \in Frame /\ ops = OpsAt(fs, n - 1)
  <2>1. n - 1 \in 2 .. Len(fs)
    BY <1>1
  <2>2. caller \in Frame
    BY <2>1, FrameFacts
  <2>3. OpsAt(fs, n - 1) = ops
    BY <1>1 DEF OpsAt
  <2> QED BY <2>2, <2>3
<1> HIDE DEF ops, A, B, r, caller
<1>5. gs[n - 1].ops = Append(ops, r) /\ gs[n - 1].code = caller.code
      /\ gs[n - 1].discard_result = caller.discard_result
  BY <1>1, <1>3, <1>4 DEF Frame
<1>6. ASSUME NEW i \in 2 .. n - 2
      PROVE  Act(gs, i) = Act(fs, i)
  <2>1. i \in 2 .. Len(fs) /\ i \in 2 .. Len(gs) /\ gs[i] = fs[i] /\ gs[i - 1] = fs[i - 1]
        /\ i < Len(fs) /\ i < Len(gs)
    BY <1>1, <1>3
  <2>2. gs[i + 1].discard_result = fs[i + 1].discard_result
    <3>1. CASE i + 1 = n - 1
      BY <1>5, <3>1 DEF caller
    <3>2. CASE i + 1 # n - 1
      <4>1. i + 1 \in 1 .. n - 2
        BY <1>1, <3>2
      <4> QED BY <1>3, <4>1
    <3> QED BY <3>1, <3>2
  <2>3. i < Len(fs) /\ fs[i + 1].discard_result <=> i < Len(gs) /\ gs[i + 1].discard_result
    BY <2>1, <2>2
  <2> HIDE DEF n
  <2> QED BY ONLY Stack(fs), Stack(gs), <2>1, <2>3, ActSame
<1>7. Act(gs, n - 1) = [Act(fs, n - 1) EXCEPT !.ops = Append(ops, r)]
  <2>1. OpsAt(gs, n - 1) = Append(ops, r)
    BY <1>1, <1>5 DEF OpsAt
  <2>2. gs[(n - 1) - 1] = fs[(n - 1) - 1]
    <3>1. (n - 1) - 1 \in 1 .. n - 2
      BY <1>1
    <3> QED BY <1>3, <3>1
  <2>3. ResultAt(gs, n - 1) = ResultAt(fs, n - 1)
    BY <1>5, <2>2 DEF ResultAt, caller
  <2>4. gs[n - 1].code = fs[n - 1].code
    BY <1>5 DEF caller
  <2>5. Act(fs, n - 1) \in Activation /\ Act(gs, n - 1) \in Activation
    <3>1. n - 1 \in 2 .. Len(fs) /\ n - 1 \in 2 .. Len(gs)
      BY <1>1
    <3> QED BY <3>1, ActType
  <2>6. /\ Act(gs, n - 1).fn = Act(fs, n - 1).fn /\ Act(gs, n - 1).ops = Append(ops, r)
        /\ Act(gs, n - 1).result = Act(fs, n - 1).result
    BY <2>1, <2>3, <2>4 DEF Act
  <2> QED BY <2>5, <2>6, OtherOperands
<1> HIDE DEF n
<1>8. A[n - 2] = Act(fs, n - 1) /\ B[n - 2] = Act(gs, n - 1) /\ A[n - 1] = Act(fs, n)
  <2>1. (n - 2) + 1 = n - 1 /\ (n - 1) + 1 = n /\ n - 2 \in 1 .. n - 1 /\ n - 2 \in 1 .. n - 2
        /\ n - 1 \in 1 .. n - 1
    BY <1>1
  <2> QED BY <1>2, <2>1
<1>9. \A i \in 1 .. Len(A) - 2 : B[i] = A[i]
  <2> SUFFICES ASSUME NEW i \in 1 .. n - 3 PROVE B[i] = A[i]
    BY <1>1, <1>2
  <2>1. i + 1 \in 2 .. n - 2 /\ i \in 1 .. n - 1 /\ i \in 1 .. n - 2
    BY <1>1
  <2> QED BY <1>2, <1>6, <2>1
<1>10. A[Len(A)].ops # << >> /\ A[Len(A)].result = r
  <2>1. OpsAt(fs, n) = Last(fs).ops
    BY <1>1 DEF OpsAt, n
  <2> QED BY <1>2, <1>3, <1>8, <2>1 DEF Act, r
<1>11. A[n - 2].ops = ops
  BY <1>4, <1>8 DEF Act
<1>12. B[Len(B)] = [A[Len(B)] EXCEPT !.ops = Append(A[Len(B)].ops, A[Len(A)].result)]
  BY <1>2, <1>7, <1>8, <1>10, <1>11
<1>13. Len(A) > 1 /\ Len(B) = Len(A) - 1
  BY <1>1, <1>2
<1>14. Program!Return(A, B, DomainOf(B[Len(B)].fn))
  BY <1>2, <1>9, <1>10, <1>12, <1>13, ReturnStep
<1>15. B[Len(B)].fn = Last(gs).code
  <2>1. B[Len(B)] = Act(gs, n - 1)
    BY <1>2, <1>8
  <2>2. Act(gs, n - 1).fn = gs[n - 1].code
    BY DEF Act
  <2>3. Last(gs) = gs[n - 1]
    BY <1>1
  <2> QED BY <2>1, <2>2, <2>3
<1> QED BY <1>14, <1>15 DEF A, B

\* The result in place of what stood for it, whichever way pinta_code_return puts it there.
LEMMA ResultInPlace ==
    ASSUME DInv, Running, HasOperands(frames, 1), Len(frames) > 2
    PROVE  LET gs == WithResult(Returned)
               caller == frames[Len(frames) - 1]
               ops == IF Top.discard_result
                      THEN SubSeq(caller.ops, 1, Len(caller.ops) - 1) ELSE caller.ops
           IN  /\ Len(gs) = Len(frames) - 1
               /\ \A i \in 1 .. Len(frames) - 2 : gs[i] = frames[i]
               /\ Last(gs) = [caller EXCEPT !.ops = Append(ops, ResultAt(frames, Len(frames)))]
<1> DEFINE gs == WithResult(Returned)
           caller == frames[Len(frames) - 1]
           ops == IF Top.discard_result
                  THEN SubSeq(caller.ops, 1, Len(caller.ops) - 1) ELSE caller.ops
           r == ResultAt(frames, Len(frames))
<1>1. /\ Stack(Returned) /\ Len(Returned) = Len(frames) - 1 /\ Last(Returned) = caller
      /\ \A i \in 1 .. Len(frames) - 1 : Returned[i] = frames[i]
      /\ Top.discard_result => caller.ops # << >>
      /\ Top = frames[Len(frames)] /\ Len(frames) \in Nat
  <2>1. Stack(frames) /\ Len(frames) > 1 /\ Top = Last(frames)
    BY RunningIsLive
  <2>2. /\ Last(Returned) = frames[Len(frames) - 1]
        /\ \A i \in 1 .. Len(frames) - 1 : Returned[i] = frames[i]
    BY <2>1, FramePopped DEF Returned
  <2>3. /\ Stack(Returned) /\ Len(Returned) = Len(frames) - 1
        /\ Top.discard_result => Last(Returned).ops # << >>
    BY ReturnedFrames DEF DInv
  <2>4. Len(frames) \in Nat
    BY <2>1, ActsType
  <2> QED BY <2>1, <2>2, <2>3, <2>4 DEF Last
<1>2. caller \in Frame /\ caller.ops \in Seq(Operand)
  BY <1>1, LastFrame DEF Stack
<1> HIDE DEF caller
<1>3. ASSUME Topped(Returned, gs), Last(gs).ops = Append(ops, r)
      PROVE  /\ Len(gs) = Len(frames) - 1
             /\ \A i \in 1 .. Len(frames) - 2 : gs[i] = frames[i]
             /\ Last(gs) = [caller EXCEPT !.ops = Append(ops, r)]
  <2>1. Len(gs) = Len(Returned) /\ Last(gs) = [Last(Returned) EXCEPT !.ops = Last(gs).ops]
        /\ \A i \in 1 .. Len(Returned) - 1 : gs[i] = Returned[i]
    BY <1>3 DEF Topped
  <2> HIDE DEF gs
  <2>2. Len(gs) = Len(frames) - 1 /\ Last(gs) = [caller EXCEPT !.ops = Append(ops, r)]
    BY <1>1, <1>3, <2>1
  <2>3. ASSUME NEW i \in 1 .. Len(frames) - 2
        PROVE  gs[i] = frames[i]
    <3>1. i \in 1 .. Len(Returned) - 1 /\ i \in 1 .. Len(frames) - 1
      BY <1>1
    <3> QED BY <1>1, <2>1, <3>1
  <2> QED BY <2>2, <2>3
<1>4. r = IF ~Top.discard_result THEN "value"
          ELSE IF Last(caller.ops) = "export" THEN "value" ELSE Last(caller.ops)
  BY <1>1 DEF ResultAt, caller
<1>5. Topped(Returned, gs) /\ Last(gs).ops = Append(ops, r)
  <2>1. CASE ~Top.discard_result
    <3>1. gs = Pushed(Returned, "value")
      BY <2>1 DEF WithResult
    <3> QED BY <1>1, <1>4, <2>1, <3>1, PushedTopped
  <2>2. CASE Top.discard_result /\ Last(caller.ops) = "export"
    <3> DEFINE hs == Discarded(Returned, 1)
    <3>1. gs = Pushed(hs, "value")
      BY <1>1, <2>2 DEF WithResult
    <3>2. Topped(Returned, hs) /\ Last(hs).ops = ops
      BY <1>1, <2>2, DiscardedTopped
    <3>3. Stack(hs)
      <4>1. Len(caller.ops) \in Nat \ {0}
        BY <1>1, <1>2, <2>2, EmptySeq
      <4>2. HasOperands(Returned, 1)
        BY <1>1, <4>1 DEF HasOperands
      <4> QED BY <1>1, <4>2, OperandsDiscarded
    <3> HIDE DEF hs, ops
    <3>4. Topped(hs, gs) /\ Last(gs).ops = Append(ops, "value")
      BY <3>1, <3>2, <3>3, PushedTopped
    <3> HIDE DEF gs
    <3>5. Topped(Returned, gs)
      BY <1>1, <3>2, <3>3, <3>4, ToppedTwice
    <3> QED BY <1>4, <2>2, <3>4, <3>5
  <2>3. CASE Top.discard_result /\ Last(caller.ops) # "export"
    <3>1. gs = Returned
      BY <1>1, <2>3 DEF WithResult
    <3>2. caller.ops = Append(ops, r)
      BY <1>1, <1>2, <1>4, <2>3, ButLast
    <3>3. Topped(Returned, gs)
      <4>1. caller = [caller EXCEPT !.ops = caller.ops]
        BY <1>2 DEF Frame
      <4> QED BY <1>1, <3>1, <4>1 DEF Topped
    <3> QED BY <1>1, <3>1, <3>2, <3>3
  <2> QED BY <2>1, <2>2, <2>3
<1> QED BY <1>3, <1>5 DEF caller

\* RETURN that does not end the program.
LEMMA ReturnSeen ==
    ASSUME DInv, DInv', Live', Return
    PROVE  Program!Return(Acts(frames), Acts(frames'), domain')
<1>1. Running /\ Stack(frames) /\ Len(frames) > 1 /\ Top = Last(frames) /\ Stack(frames')
      /\ Len(frames) \in Nat
  BY RunningIsLive, LenProperties DEF Return, DInv, IInv, Stack
<1>2. Running' /\ ~fault' /\ ~finished'
  BY DEF Live, Running
<1>3. HasOperands(frames, 1)
  BY <1>1, <1>2 DEF Return, Throw
<1>4. /\ Stack(Returned) /\ HasRoom(Returned, 1) /\ Len(Returned) = Len(frames) - 1
      /\ Last(Returned) = frames[Len(frames) - 1]
  BY <1>1, <1>3, ReturnedFrames, FramePopped DEF DInv, Returned
<1>5. frames' = WithResult(Returned) /\ ~Last(Returned).is_final
  BY <1>1, <1>2, <1>3, <1>4 DEF Return, ResultFits
<1>6. Len(frames) > 2
  <2> DEFINE m == Len(frames)
  <2>1. m # 2
    BY <1>1, <1>4, <1>5 DEF Stack
  <2>2. m \in Nat /\ m > 1
    BY <1>1
  <2> HIDE DEF m
  <2>3. m > 2
    BY <2>1, <2>2
  <2> QED BY <2>3 DEF m
<1>7. Last(frames).ops # << >>
  <2>1. Len(Last(frames).ops) >= 1
    BY <1>3 DEF HasOperands
  <2>2. Len(<< >>) = 0
    OBVIOUS
  <2> QED BY <2>1, <2>2
<1>8. Program!Return(Acts(frames), Acts(frames'), DomainOf(Last(frames').code))
  BY <1>1, <1>3, <1>5, <1>6, <1>7, ResultInPlace, PoppedStep
<1>9. domain' = DomainOf(Last(frames').code)
  BY <1>2 DEF DInv, RunsInOwnDomain, Top
<1> QED BY <1>8, <1>9

-----------------------------------------------------------------------------
(* The refinement *)

\* The values that ProgramSeesActivations gives the variables of Activations.
Seen == IF ~Live THEN << >>
        ELSE [i \in 1 .. Len(frames) - 1 |->
                [fn |-> frames[i + 1].code, ops |-> OpsOf(i + 1), result |-> ResultOf(i + 1)]]
SeenModule == IF Live THEN domain ELSE None

\* While code runs the program sees the activations of the frames.
LEMMA SeenActs ==
    /\ Live => Seen = Acts(frames) /\ SeenModule = domain
    /\ ~Live => Seen = << >> /\ SeenModule = None
BY DEF Seen, SeenModule, Acts, Act, OpsAt, OpsOf, ResultAt, ResultOf

\* And after a step.
LEMMA SeenActsNext ==
    /\ Live' => Seen' = Acts(frames') /\ SeenModule' = domain'
    /\ ~Live' => Seen' = << >> /\ SeenModule' = None
BY DEF Seen, SeenModule, Acts, Act, OpsAt, OpsOf, ResultAt, ResultOf

\* Every step of the thread is a step of the program, or none.
LEMMA StepSeen ==
    ASSUME DInv, DInv', [Next]_vars
    PROVE  \/ Program!Compute(Seen, Seen') /\ SeenModule' = SeenModule
           \/ Program!Call(Seen, Seen', SeenModule')
           \/ Program!TailCall(Seen, Seen', SeenModule')
           \/ Program!Return(Seen, Seen', SeenModule')
           \/ Program!End(Seen, Seen', SeenModule')
           \/ Seen' = Seen /\ SeenModule' = SeenModule
<1>1. CASE UNCHANGED vars
  BY <1>1 DEF vars, Seen, SeenModule, Live, Running, OpsOf, ResultOf
<1>2. CASE ~Live'
  <2>1. Seen' = << >> /\ SeenModule' = None
    BY <1>2, SeenActsNext
  <2>2. CASE Live
    <3>1. Acts(frames) # << >>
      BY <2>2, RunningIsLive DEF Live
    <3> QED BY <2>1, <2>2, <3>1, SeenActs DEF Program!End
  <2>3. CASE ~Live
    BY <2>1, <2>3, SeenActs
  <2> QED BY <2>2, <2>3
<1>3. CASE Live' /\ Next
  <2>1. ~fault' /\ ~finished'
    BY <1>3 DEF Live, Running
  <2>2. Seen' = Acts(frames') /\ SeenModule' = domain'
    BY <1>3, SeenActsNext
  <2>3. Running => Live /\ Seen = Acts(frames) /\ SeenModule = domain
    BY RunningIsLive, SeenActs
  <2>4. \A n \in Arguments : n \in Nat
    BY CallStackAssumption
  <2>5. CASE Load \/ Pop
    <3>1. 0 \in Nat /\ Running
      BY <2>5 DEF Load, Pop
    <3> QED BY <2>1, <2>2, <2>3, <2>5, <3>1, OperandsSeen
  <2>6. ASSUME NEW n \in Arguments, Duplicate(n) \/ InvokeNative(n)
        PROVE  Program!Compute(Seen, Seen') /\ SeenModule' = SeenModule
    <3>1. Running /\ n \in Nat
      BY <2>4, <2>6 DEF Duplicate, InvokeNative
    <3> QED BY <2>1, <2>2, <2>3, <2>6, <3>1, OperandsSeen
  <2>7. ASSUME NEW f \in Functions, ExecuteModule(f)
        PROVE  Program!Call(Seen, Seen', SeenModule')
    BY <2>1, <2>2, <2>7, ExecuteSeen, SeenActs
  <2>8. ASSUME NEW f \in Functions, NEW n \in Arguments, New(f, n)
        PROVE  \/ Program!Call(Seen, Seen', SeenModule')
               \/ Program!TailCall(Seen, Seen', SeenModule')
    <3>1. Running /\ n \in Nat
      BY <2>4, <2>8 DEF New
    <3> QED BY <2>1, <2>2, <2>3, <2>8, <3>1, NewSeen
  <2>9. ASSUME NEW f \in Functions, NEW n \in Arguments, NEW ret \in BOOLEAN,
               Call(f, n, ret) \/ Invoke(f, n, ret)
        PROVE  \/ Program!Call(Seen, Seen', SeenModule')
               \/ Program!TailCall(Seen, Seen', SeenModule')
    <3>1. Running /\ n \in Nat
      BY <2>4, <2>9 DEF Call, Invoke
    <3> QED BY <2>1, <2>2, <2>3, <2>9, <3>1, CallSeen
  <2>10. ASSUME NEW f \in Functions, NEW n \in Arguments, NEW ret \in BOOLEAN,
                NEW exports \in {"export", "value"}, Require(f, n, exports, ret)
         PROVE  \/ Program!Call(Seen, Seen', SeenModule')
                \/ Program!TailCall(Seen, Seen', SeenModule')
    <3>1. Running /\ n \in Nat
      BY <2>4, <2>10 DEF Require
    <3> QED BY <2>1, <2>2, <2>3, <2>10, <3>1, RequireSeen
  <2>11. CASE Return
    <3>1. Running
      BY <2>11 DEF Return
    <3> QED BY <1>3, <2>2, <2>3, <2>11, <3>1, ReturnSeen
  <2>12. CASE Exit \/ Fail
    BY <2>1, <2>12 DEF Exit, Fail, Throw
  <2> QED BY <1>3, <2>5, <2>6, <2>7, <2>8, <2>9, <2>10, <2>11, <2>12 DEF Next
<1> QED BY <1>1, <1>2, <1>3

\* Frames, tail calls, discarded results and return domains implement activations: without
\* tail calls out of a function entered from another domain, whatever the thread does, the
\* program sees calls that each leave one result, in the module of the running function.
THEOREM ImplementsActivations ==
    ASSUME CrossTail = FALSE
    PROVE  Spec => ProgramSeesActivations
<1>1. Init => Program!Init
  <2> SUFFICES ASSUME Init PROVE Program!Init
    OBVIOUS
  <2>1. ~Live
    BY DEF Init, Live, Running
  <2> QED BY <2>1 DEF Program!Init
<1>2. DInv /\ [Next]_vars => DInv'
  BY NextDInv
<1>3. DInv /\ DInv' /\ [Next]_vars => [Program!Next]_Program!vars
  <2> SUFFICES ASSUME DInv, DInv', [Next]_vars PROVE [Program!Next]_Program!vars
    OBVIOUS
  <2> QED BY StepSeen DEF Program!Next, Program!vars, Seen, SeenModule
<1> QED BY <1>1, <1>2, <1>3, InitDInv, PTL DEF Spec, Program!Spec, ProgramSeesActivations
=============================================================================
