----------------------------- MODULE StockLedger -----------------------------
(***************************************************************************)
(* What the inventory service promises about stock, with no sessions, locks *)
(* or versions: every operation happens to the whole item list at once.     *)
(*                                                                         *)
(*   Reserve  InventoryService.reserve_batch and _handle_order_created      *)
(*   Release  _handle_release_stock                                         *)
(*   Restock  InventoryService.restock                                      *)
(*                                                                         *)
(* A cart is a function from products to quantities, 0 for a product that   *)
(* is not in the item list; several lines of one product add up, as they do *)
(* on the one row object a SQLAlchemy session keeps.  A product that has no *)
(* row yet counts as one with nothing available and nothing reserved.       *)
(***************************************************************************)
EXTENDS Integers

CONSTANTS
    Products,           \* product ids
    Carts,              \* the item lists requests and events carry
    RestockQuantities   \* the quantities restock is called with

VARIABLES
    stock,              \* product -> available and reserved quantity
    supplied            \* product -> everything ever restocked (history)

ledgerVars == <<stock, supplied>>

Quantities == [available: Int, reserved: Int]

LedgerTypeOK ==
    /\ stock \in [Products -> Quantities]
    /\ supplied \in [Products -> Nat]

LedgerInit ==
    /\ stock = [p \in Products |-> [available |-> 0, reserved |-> 0]]
    /\ supplied = [p \in Products |-> 0]

-----------------------------------------------------------------------------

\* inventory.available_stock -= quantity; inventory.reserved_stock += quantity
Deducted(r, q) == [available |-> r.available - q, reserved |-> r.reserved + q]

\* Mutant: the quantity is released without the min.
ReleaseQtyAll(r, q) == q

\* release_qty = min(inventory.reserved_stock, quantity), moved back.
ReleaseQty(r, q) == IF r.reserved < q THEN r.reserved ELSE q

Released(r, q) ==
    [available |-> r.available + ReleaseQty(r, q),
     reserved  |-> r.reserved - ReleaseQty(r, q)]

Enough(r, q) == r.available >= q

\* All lines of the cart, or none of them.
Reserve(cart) ==
    /\ \A p \in Products : Enough(stock[p], cart[p])
    /\ stock' = [p \in Products |-> Deducted(stock[p], cart[p])]
    /\ UNCHANGED supplied

\* The lines of the cart that were reached before a lock could not be had.
Release(cart, reached) ==
    /\ stock' = [p \in Products |-> IF p \in reached
                                    THEN Released(stock[p], cart[p])
                                    ELSE stock[p]]
    /\ UNCHANGED supplied

Restock(p, q) ==
    /\ stock' = [x \in Products |->
                   IF x = p THEN [available |-> stock[p].available + q,
                                  reserved  |-> stock[p].reserved]
                            ELSE stock[x]]
    /\ supplied' = [supplied EXCEPT ![p] = @ + q]

LedgerNext ==
    \/ \E cart \in Carts : Reserve(cart)
    \/ \E cart \in Carts, reached \in SUBSET Products : Release(cart, reached)
    \/ \E p \in Products, q \in RestockQuantities : Restock(p, q)

LedgerSpec == LedgerInit /\ [][LedgerNext]_ledgerVars

=============================================================================
