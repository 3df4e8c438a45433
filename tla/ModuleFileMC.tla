------------------------------ MODULE ModuleFileMC ------------------------------
EXTENDS ModuleFile

\* Bodies of up to five lines, in which every label jumped to is marked once.
Lines == {[kind |-> "code", length |-> n] : n \in {1, 3}}
         \cup {[kind |-> k, label |-> l] : k \in {"jump", "mark"}, l \in {"l1", "l2"}}
Marks(body, l) == {i \in DOMAIN body : body[i].kind = "mark" /\ body[i].label = l}
Jumps(body, l) == {i \in DOMAIN body : body[i].kind = "jump" /\ body[i].label = l}
Bodies == {body \in UNION {[1 .. n -> Lines] : n \in 3 .. 5} :
             /\ Jumps(body, "l1") # {}
             /\ \A l \in {"l1", "l2"} :
                  Cardinality(Marks(body, l)) = IF Jumps(body, l) = {} THEN 0 ELSE 1}

\* A long blob, or two short ones, of one low and one high byte.
Strings(low, high) == UNION {[1 .. n -> {0, 2}] : n \in low .. high}
Blobs == {<<s>> : s \in Strings(11, 13)} \cup {<<s, t>> : s \in Strings(3, 5), t \in Strings(3, 5)}
EveryModule == {[body |-> b, blobs |-> <<>>] : b \in Bodies}
               \cup {[body |-> <<>>, blobs |-> b] : b \in Blobs}
=============================================================================
