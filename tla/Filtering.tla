----------------------------- MODULE Filtering -----------------------------
(***************************************************************************)
(* Iterator::filter over a vector: the elements of s that are in T, in     *)
(* order.  A recursive function, which the proofs can unfold (module       *)
(* Lemmas); SelectSeq is opaque to the provers.                            *)
(***************************************************************************)
EXTENDS Naturals, Sequences

Filter(s, T) ==
    LET kept[i \in 0 .. Len(s)] ==
            IF i = 0 THEN <<>> ELSE IF s[i] \in T THEN Append(kept[i - 1], s[i]) ELSE kept[i - 1]
    IN kept[Len(s)]
=============================================================================
