----------------------------- MODULE Selection -----------------------------
(***************************************************************************)
(* The elements of a sequence that belong to a set, in their order.        *)
(* Kept(seq, S) is SelectSeq(seq, LAMBDA x : x \in S), with a definition   *)
(* that the proofs can unfold.                                             *)
(***************************************************************************)
EXTENDS Naturals, Sequences

Kept(seq, S) ==
    LET kept[n \in 0..Len(seq)] ==
            IF n = 0 THEN <<>>
            ELSE IF seq[n] \in S THEN Append(kept[n - 1], seq[n])
            ELSE kept[n - 1]
    IN  kept[Len(seq)]

=============================================================================
