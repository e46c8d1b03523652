---------------------------- MODULE MCOrderSaga ----------------------------
(* Two orders that compete for the units of one product: with one unit, the *)
(* second reservation fails.                                                *)
EXTENDS OrderSaga

MCItems == [o \in Orders |-> [p \in Products |-> 1]]

OneUnit == [p \in Products |-> 1]

=============================================================================
