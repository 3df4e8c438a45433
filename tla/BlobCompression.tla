---------------------------- MODULE BlobCompression ----------------------------
(***************************************************************************)
(* The compression of blobs: PintaCodeCompressor.cs writes them,           *)
(* pinta_decompress (decompress.c) expands one in the interpreter.         *)
(*                                                                         *)
(* A byte below HighBit stands for itself, one above is written as an      *)
(* escape and its low bits.  A reference, of a length and a distance back  *)
(* from where it stands, repeats what decoding there yields: references    *)
(* nest, and the decoder's stack bounds how deep.  A byte of the output is *)
(* tagged with what it means there.                                        *)
(***************************************************************************)
(* A definition named Mutant... is a plausible bug in the one it is named after.  *)
EXTENDS Integers, Sequences, FiniteSets

CONSTANTS HighBit,      \* 0x80 in the code
          MaxOffset,    \* 255
          MaxLength,    \* 129
          MaxStack      \* 8: PINTA_DECOMPRESS_MAX_STACK

ASSUME BlobCompressionAssumption ==
    /\ HighBit \in Nat /\ HighBit > 0
    /\ MaxOffset \in Nat /\ MaxLength \in Nat /\ MaxLength >= 3
    /\ MaxStack \in Nat /\ MaxStack >= 2

Raw(n) == [tag |-> "raw", n |-> n]
Literal(b) == IF b < HighBit THEN <<[tag |-> "low", n |-> b]>>
                             ELSE <<[tag |-> "escape", n |-> 0], Raw(b - HighBit)>>
Reference(length, offset) == <<[tag |-> "reference", n |-> length - 3], Raw(offset)>>

\* A decoder's state: a stack of places in the output, each with the number of bytes it
\* has yet to yield.  WITHOUT_END is that of the compressor's, which stops it.
WITHOUT_END == -1

Popped(stack) == LET live == {k \in 1 .. Len(stack) : stack[k].left # 0}
                 IN  IF live = {} THEN <<>>
                     ELSE SubSeq(stack, 1, CHOOSE k \in live : \A j \in live : j <= k)
Yield(place, n) == IF place.left = WITHOUT_END THEN place ELSE [place EXCEPT !.left = @ - n]

\* One byte decoded, or one reference followed: the loop of pinta_decompress, and of
\* PintaCodeDecompressor, which is the same but for the limit of its stack.
Step(out, limit, d) ==
    LET stack == Popped(d.stack)
        top == stack[Len(stack)]
        here == out[top.at + 1]
        operand == out[top.at + 2].n
        clipped == IF top.left # WITHOUT_END /\ here.n + 3 > top.left THEN top.left ELSE here.n + 3
        rest(bytes, n) == [Yield(top, n) EXCEPT !.at = @ + bytes]
        below == SubSeq(stack, 1, Len(stack) - 1)
        stop == [d EXCEPT !.stack = <<>>]
    IN  IF stack = <<>> THEN stop
        ELSE IF top.at >= Len(out) THEN stop
        ELSE CASE here.tag = "low"    -> [stack |-> Append(below, rest(1, 1)),
                                          data |-> Append(d.data, here.n)]
               [] here.tag = "escape" -> [stack |-> Append(below, rest(2, 1)),
                                          data |-> Append(d.data, HighBit + operand)]
               [] here.tag = "reference" ->
                    IF Len(stack) >= limit THEN stop
                    ELSE [d EXCEPT !.stack = below \o
                            <<rest(2, clipped), [at |-> top.at - operand, left |-> clipped]>>]

\* What a decoder yields from a place on, at most so many bytes.
Decoded(out, limit, at, left, most) ==
    LET steps == (most + 1) * (limit + 1)
        after[n \in 0 .. steps] ==
            IF n = 0 THEN [stack |-> <<[at |-> at, left |-> left]>>, data |-> <<>>]
            ELSE LET d == after[n - 1]
                 IN  IF d.stack = <<>> \/ Len(d.data) = most THEN d ELSE Step(out, limit, d)
    IN  after[steps].data

\* pinta_decompress: a blob of a length at a place.
Decompress(out, at, length) == Decoded(out, MaxStack, at, length, length)

\* How much of the data from an index on the decoder yields at a window's start.  Its
\* stack is one place shorter: the interpreter comes there by a reference.
MutantMatch(out, data, index, start) ==
    LET most == IF Len(data) - index < MaxLength THEN Len(data) - index ELSE MaxLength
        got == Decoded(out, MaxStack, start, WITHOUT_END, most)
        same == {n \in 0 .. Len(got) : \A k \in 1 .. n : got[k] = data[index + k]}
    IN  Cardinality(same) - 1
Match(out, data, index, start) ==
    LET most == IF Len(data) - index < MaxLength THEN Len(data) - index ELSE MaxLength
        got == Decoded(out, MaxStack - 1, start, WITHOUT_END, most)
        same == {n \in 0 .. Len(got) : \A k \in 1 .. n : got[k] = data[index + k]}
    IN  Cardinality(same) - 1

\* The windows a search begins with: those a distance fits in a byte.
MutantWithin(starts, position) == {w \in starts : w >= position - MaxOffset - 1}
Within(starts, position) == {w \in starts : w >= position - MaxOffset}

\* The first of the longest matches, if one is worth a reference; "none" else.
BestMatch(out, data, index, starts) ==
    LET length == [w \in starts |-> Match(out, data, index, w)]
        best == {w \in starts : /\ length[w] > 2
                                /\ \A v \in starts : \/ length[v] < length[w]
                                                     \/ length[v] = length[w] /\ w <= v}
    IN  {<<length[w], Len(out) - w>> : w \in best}
=============================================================================
