------------------------------ MODULE JumpOffsets ------------------------------
(***************************************************************************)
(* The offsets of jumps: PintaCodeLabelOffsetResolver finds them before    *)
(* the code is written, when the lengths of the jumps between are not yet  *)
(* known; the interpreter reads them (binary.c) and adds them to the       *)
(* address of the jump (code.c).                                           *)
(*                                                                         *)
(* A line of code is a record: kind is "code", "jump" or "mark" (of a      *)
(* label), length counts the bytes of a line of code.  An integer is       *)
(* written in groups of Base values (2^7), least first, of which each but  *)
(* the last has a flag that more follow.                                   *)
(***************************************************************************)
(* A definition named Mutant... is a plausible bug in the one it is named after.  *)
EXTENDS Integers, Sequences

CONSTANTS Base,        \* values of a group: 128 in the code
          MaxGroups    \* groups of an integer: 5 in the code

ASSUME JumpOffsetsAssumption == Base \in Nat /\ Base > 1 /\ MaxGroups \in Nat /\ MaxGroups > 0

\* Base ^ k
Power[k \in Nat] == IF k = 0 THEN 1 ELSE Base * Power[k - 1]

\* The map of integers to naturals that WriteSleb128 writes.
Ziggy(n) == IF n >= 0 THEN 2 * n ELSE -2 * n - 1
Unziggy(z) == IF z % 2 = 0 THEN z \div 2 ELSE -((z + 1) \div 2)

\* GetLengthSleb128
GetLengthSleb128(n) ==
    LET enough == {k \in 1 .. MaxGroups - 1 : Ziggy(n) < Power[k]}
    IN  IF enough = {} THEN MaxGroups ELSE CHOOSE k \in enough : \A j \in enough : k <= j

\* GetLength: at the least and at the most.
LeastLength(line) == CASE line.kind = "code" -> line.length
                     [] line.kind = "jump" -> 2
                     [] line.kind = "mark" -> 0
MostLength(line) == IF line.kind = "jump" THEN 1 + MaxGroups ELSE LeastLength(line)

\* The offset of each line of a body, and of its end, from the lines' lengths.
Offsets(lengths) ==
    LET at[i \in 1 .. Len(lengths) + 1] == IF i = 1 THEN 0 ELSE at[i - 1] + lengths[i - 1]
    IN  at

LineOf(body, label) == CHOOSE i \in DOMAIN body : body[i].kind = "mark" /\ body[i].label = label

\* The length a jump is given: it suffices wherever between their bounds the jump and
\* the label come to lie.
MutantPredicted(body, low, high, i) ==
    LET mark == LineOf(body, body[i].label)
    IN  1 + GetLengthSleb128(IF low[mark] <= low[i] THEN low[mark] - low[i]
                                                    ELSE low[mark] - low[i])
Predicted(body, low, high, i) ==
    LET mark == LineOf(body, body[i].label)
    IN  1 + GetLengthSleb128(IF low[mark] <= low[i] THEN low[mark] - high[i]
                                                    ELSE high[mark] - low[i])

\* The lengths of the lines: at the least, at the most, and as they are written.
LeastLengths(body) == [i \in DOMAIN body |-> LeastLength(body[i])]
MostLengths(body) == [i \in DOMAIN body |-> MostLength(body[i])]
Lengths(body) ==
    LET low == Offsets(LeastLengths(body))
        high == Offsets(MostLengths(body))
    IN  [i \in DOMAIN body |-> IF body[i].kind = "jump" THEN Predicted(body, low, high, i)
                                                        ELSE LeastLength(body[i])]

\* Resolve: the offset and the padding of each jump.
Resolve(body) ==
    LET length == Lengths(body)
        at == Offsets(length)
        offset(i) == at[LineOf(body, body[i].label)] - at[i]
    IN  [i \in DOMAIN body |->
            IF body[i].kind = "jump"
            THEN [offset |-> offset(i), padding |-> length[i] - 1 - GetLengthSleb128(offset(i))]
            ELSE [offset |-> 0, padding |-> 0]]

\* WriteSleb128 and pinta_binary_read_sleb128, at an index of the code.
Groups(n) ==
    LET k == GetLengthSleb128(n)
    IN  [i \in 1 .. k |-> [value |-> (Ziggy(n) \div Power[i - 1]) % Base, more |-> i < k]]
LastGroup(code, i) == CHOOSE j \in i .. Len(code) : /\ ~code[j].more
                                                    /\ \A m \in i .. j - 1 : code[m].more
GroupSums(code, i, last) ==
    LET sum[j \in i .. last] == code[j].value * Power[j - i] + (IF j = last THEN 0 ELSE sum[j + 1])
    IN  sum
ReadGroups(code, i) == Unziggy(GroupSums(code, i, LastGroup(code, i))[i])

\* PintaCodeLineWriter: a line's bytes.  The padding is NOPs after the jump.
Byte == [value |-> 0, more |-> FALSE]
Bytes(n) == [i \in 1 .. n |-> Byte]
Written(line, resolved) ==
    CASE line.kind = "code" -> Bytes(line.length)
      [] line.kind = "jump" -> Bytes(1) \o Groups(resolved.offset) \o Bytes(resolved.padding)
      [] line.kind = "mark" -> <<>>

\* pinta_code_jump: where a jump at an address goes.
Target(code, address) == address + ReadGroups(code, address + 2)
=============================================================================
