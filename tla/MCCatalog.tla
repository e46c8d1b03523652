------------------------------ MODULE MCCatalog ------------------------------
(* The second version lists a product ahead of the first one's, so that     *)
(* categories shift.                                                        *)
EXTENDS Catalog

CONSTANTS p1, p2, k1, ca, cb

MCListAt == [v \in 0..1 |-> IF v = 0 THEN <<p2>> ELSE <<p1, p2>>]

MCCategories == <<ca, cb>>

MCPrice == [p \in {p1, p2} |-> IF p = p1 THEN 1 ELSE 2]

MCRank == [o \in {"price-desc"} |-> [p \in {p1, p2} |-> IF p = p1 THEN 2 ELSE 1]]

MCMatches == [q \in Terms |-> IF Len(q) < 2 THEN {p1, p2} ELSE {p2}]

=============================================================================
