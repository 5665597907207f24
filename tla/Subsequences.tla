---------------------------- MODULE Subsequences ----------------------------
(***************************************************************************)
(* The elements of a sequence at some of its positions, in their order:    *)
(* what a loop that skips the others, a filter or a find works on.  There  *)
(* is no recursion in it, so that RequestProofs can say what it is.        *)
(***************************************************************************)
EXTENDS Naturals, Sequences, FiniteSets

(* The first of some positions, and the r-th.                              *)
Earliest(S) == CHOOSE n \in S : \A k \in S : n <= k
Nth(S, r) == CHOOSE n \in S : Cardinality({k \in S : k <= n}) = r

Only(s, S) == [r \in 1..Cardinality(S) |-> s[Nth(S, r)]]
=============================================================================
