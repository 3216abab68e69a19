----------------------------- MODULE Compaction -----------------------------
(***************************************************************************)
(* In-place compaction of an array: the entries whose index is in a given  *)
(* set are moved to the front, in order, and the rest is dropped.  It is   *)
(* the loop `wi/ri' at the end of retry_queue (lib/omi_mesh.c), and the    *)
(* same order is used for the entries a loop picks out of an array.        *)
(*                                                                         *)
(* SelectSeq says the same thing, but it is defined by recursion and the   *)
(* provers know nothing about it; Keep is defined by counting, so that its *)
(* facts can be proved (module MeshProofs).                                *)
(***************************************************************************)
EXTENDS Integers, Sequences, FiniteSets

\* How many members of S are not above i.
Rank(S, i) == Cardinality({j \in S : j <= i})

\* The k-th smallest member of S.
Nth(S, k) == CHOOSE i \in S : Rank(S, i) = k

\* The entries of q at the indices S, in the order of q.
Keep(q, S) == [k \in 1..Cardinality(S) |-> q[Nth(S, k)]]

\* The longest prefix of s that fits in an array of n entries.
Fit(s, n) == IF Len(s) <= n THEN s ELSE SubSeq(s, 1, n)
=============================================================================
