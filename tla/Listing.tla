------------------------------- MODULE Listing -------------------------------
(***************************************************************************)
(* Array.prototype.filter and sort, which every list of the client is made  *)
(* with.  A sort is stable: what its comparison does not tell apart stays   *)
(* in order.  (SortSeq of the standard modules is undefined there.)         *)
(***************************************************************************)
EXTENDS Integers, FiniteSets, Sequences

\* The indices of I that a stable sort by key puts before i.
Before(I, key, i) == {j \in I : key[j] < key[i] \/ (key[j] = key[i] /\ j < i)}

\* The elements of s at the indices I, sorted by key.
Arranged(s, I, key) ==
    [n \in 1..Cardinality(I) |->
        s[CHOOSE i \in I : Cardinality(Before(I, key, i)) = n - 1]]

\* The elements of s at the indices I, in their order.
InPlace(s, I) == Arranged(s, I, [i \in I |-> 0])

=============================================================================
