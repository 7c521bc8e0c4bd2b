---- MODULE Filtering ----
(***************************************************************************)
(* A sequence filtered by membership of its elements, as a comprehension   *)
(* with an "if" filters a list. It is SelectSeq as a recursive function,   *)
(* which can be reasoned about.                                            *)
(***************************************************************************)
EXTENDS Integers, Sequences

\* The elements of s that are in T, in the order of s.
Kept(s, T) ==
    LET kept[n \in 0 .. Len(s)] ==
            IF n = 0 THEN <<>>
            ELSE IF s[n] \in T THEN Append(kept[n - 1], s[n])
            ELSE kept[n - 1]
    IN  kept[Len(s)]

====
