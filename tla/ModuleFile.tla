------------------------------- MODULE ModuleFile -------------------------------
(***************************************************************************)
(* A compiled module: what PintaCodeModule.Save writes of the code of a    *)
(* function and of blobs, and what the interpreter finds there.            *)
(***************************************************************************)
EXTENDS JumpOffsets, BlobCompression

CONSTANTS Modules    \* the modules saved: records of a body and of blobs

\* A label jumped to is marked, and the offsets in a body can be written in the groups of an
\* integer: in the code any 32-bit offset can.
ASSUME ModuleFileAssumption ==
    \A m \in Modules :
        /\ DOMAIN m.body = 1 .. Len(m.body) /\ Len(m.body) \in Nat
        /\ \A i \in DOMAIN m.body :
              \/ m.body[i].kind = "code" /\ m.body[i].length \in Nat
              \/ m.body[i].kind = "jump" /\ \E j \in DOMAIN m.body : /\ m.body[j].kind = "mark"
                                                                  /\ m.body[j].label = m.body[i].label
              \/ m.body[i].kind = "mark"
        /\ 2 * Offsets(MostLengths(m.body))[Len(m.body) + 1] < Power[MaxGroups]
        /\ m.blobs \in Seq(Seq(Nat))

VARIABLES module,     \* what is saved
          resolved,   \* offsets and padding of the lines of the body
          code,       \* the bytes of the function written
          starts,     \* where each line written begins
          out,        \* the bytes of the compressed blobs
          points,     \* where each blob begun starts in them
          index,      \* how much of the last of these is compressed
          hash        \* positions in out, by the byte decoded first there

vars == <<module, resolved, code, starts, out, points, index, hash>>
blobVars == <<out, points, index, hash>>

Values == UNION {UNION {{b[k] : k \in DOMAIN b} : b \in {m.blobs[i] : i \in DOMAIN m.blobs}}
                   : m \in Modules}

\* The blob begun last, and whether all of it is compressed.
Blob == module.blobs[Len(points)]
AtBlobEnd == IF points = <<>> THEN TRUE ELSE index = Len(Blob)

Init == /\ module \in Modules
        /\ resolved = <<>> /\ code = <<>> /\ starts = <<>>
        /\ out = <<>> /\ points = <<>> /\ index = 0
        /\ hash = [b \in Values |-> {}]

\* PintaCodeLabelOffsetResolver.Resolve, of the function.
ResolveLabels == /\ resolved = <<>> /\ module.body # <<>>
                 /\ resolved' = Resolve(module.body)
                 /\ UNCHANGED <<module, code, starts, blobVars>>

\* PintaCodeLineWriter, one line.  The blobs are written before.
WriteLine ==
    /\ resolved # <<>> /\ Len(starts) < Len(module.body)
    /\ Len(points) = Len(module.blobs) /\ AtBlobEnd
    /\ LET i == Len(starts) + 1
       IN  code' = code \o Written(module.body[i], resolved[i])
    /\ starts' = Append(starts, Len(code))
    /\ UNCHANGED <<module, resolved, blobVars>>

\* PintaCodeCompressor.Compress, of the next blob; its result is where the blob starts.
BeginBlob == /\ resolved # <<>> \/ module.body = <<>>
             /\ AtBlobEnd /\ Len(points) < Len(module.blobs)
             /\ points' = Append(points, Len(out)) /\ index' = 0
             /\ UNCHANGED <<module, resolved, code, starts, out, hash>>

\* One turn of its loop: a reference if a match is found, a byte else.
CompressNext ==
    /\ ~AtBlobEnd
    /\ LET b == Blob[index + 1]
           search == index + 2 < Len(Blob)
           windows == Within(hash[b], Len(out))
           found == IF search THEN BestMatch(out, Blob, index, windows) ELSE {}
       IN  /\ hash' = [hash EXCEPT ![b] = (IF search THEN windows ELSE @) \cup {Len(out)}]
           /\ IF found = {}
              THEN out' = out \o Literal(b) /\ index' = index + 1
              ELSE \E match \in found : /\ out' = out \o Reference(match[1], match[2])
                                        /\ index' = index + match[1]
    /\ UNCHANGED <<module, resolved, code, starts, points>>

Next == ResolveLabels \/ BeginBlob \/ CompressNext \/ WriteLine

Spec == Init /\ [][Next]_vars

-----------------------------------------------------------------------------
\* The variables are of their types: a jump's padding, a count of NOPs, is no less than 0.
TypeOK == /\ resolved \in {<<>>} \cup [DOMAIN module.body -> [offset : Int, padding : Nat]]
          /\ Len(starts) <= Len(module.body) /\ Len(points) <= Len(module.blobs)
          /\ \A b \in Values : hash[b] \subseteq 0 .. Len(out)

\* A jump, read back from the code written, goes to where its label was passed, wherever
\* the lengths of jumps between the two were overestimated.
JumpsLand ==
    \A i \in DOMAIN starts : module.body[i].kind = "jump" =>
        LET mark == LineOf(module.body, module.body[i].label)
        IN  mark \in DOMAIN starts /\ i < Len(starts) => Target(code, starts[i]) = starts[mark]

\* What is written of a blob expands to what was compressed of it: no reference is
\* nested deeper than the decoder's stack, which gives up without a word, however the
\* references of this blob and of those before it repeat one another.
BlobsReadBack ==
    \A k \in DOMAIN points :
        LET done == IF k = Len(points) THEN index ELSE Len(module.blobs[k])
        IN  Decompress(out, points[k], done) = SubSeq(module.blobs[k], 1, done)

\* A reference fits its two bytes, and its first is never that of an escape.
ReferencesFit ==
    \A i \in DOMAIN out : /\ out[i].tag = "reference" =>
                              out[i].n \in 0 .. MaxLength - 3 /\ out[i + 1].n \in 1 .. MaxOffset
=============================================================================
