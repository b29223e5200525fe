---------------------------- MODULE Subsequence ----------------------------
(* Array.prototype.filter, as a recursive function: the components that       *)
(* filter a queue are proved about with the lemmas of Subsequence_proofs.     *)
EXTENDS Integers, Sequences

\* The elements of s that are in T, in their order.
Only(s, T) ==
  LET kept[n \in 0..Len(s)] ==
        IF n = 0 THEN <<>>
        ELSE IF s[n] \in T THEN Append(kept[n - 1], s[n]) ELSE kept[n - 1]
  IN  kept[Len(s)]
=============================================================================
