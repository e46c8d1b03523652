-------------------------- MODULE MCInventoryStock --------------------------
(* Two products, a cart that takes one unit of each, and restocks of one    *)
(* unit: reservations run out of stock, on the first line and on the        *)
(* second, and two sessions meet on a row in every combination.             *)
EXTENDS InventoryStock, TLC

CONSTANTS p1, p2

MCCarts == {(p1 :> 1) @@ (p2 :> 1)}

=============================================================================
