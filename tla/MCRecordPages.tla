---------------------------- MODULE MCRecordPages ----------------------------
(* Two rows on pages of one, so that a search or an answer with one row less *)
(* leaves `page` behind the last page.                                       *)
EXTENDS RecordPages

CONSTANTS r1, r2, q1, c1

MCFound == [q \in {q1} |-> {r2}]

MCRank == [c \in {c1} |-> [r \in {r1, r2} |-> IF r = r1 THEN 1 ELSE 2]]

MCLists == {<<r1, r2>>, <<r2>>}

MCFallback == <<r1>>

=============================================================================
