----------------------------- MODULE Subsequence -----------------------------
(***************************************************************************)
(* The elements of a sequence at some of its positions.                    *)
(***************************************************************************)
EXTENDS Integers, Sequences

(* The elements of s at positions P, in order.                             *)
At(s, P) ==
  LET rank[i \in 0 .. Len(s)] ==
        IF i = 0 THEN <<>> ELSE IF i \in P THEN Append(rank[i - 1], s[i]) ELSE rank[i - 1]
  IN rank[Len(s)]
=============================================================================
