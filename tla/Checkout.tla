------------------------------ MODULE Checkout ------------------------------
(***************************************************************************)
(* The cart store, the cart page and the checkout page of one tab, with the *)
(* draft that useFormAutosave keeps in localStorage, and what the inventory *)
(* and order services make of the two requests of a submission.             *)
(*                                                                         *)
(* The checkout page is mounted or not; a request outlives the page that    *)
(* sent it.  The notification of a placed order is left to LiveFeed.  The   *)
(* shipping data is one value, NoData while the form is not filled in.  A   *)
(* re-render restarts the autosave timer, because watch() returns a new     *)
(* object each time.  Prices and totals are left out.                       *)
(***************************************************************************)
EXTENDS Integers

CONSTANTS
    Products,
    MaxQuantity,    \* bound on the quantity of a line
    MaxChanges,     \* bound on the changes of the cart
    Data,           \* valid shipping data
    NoData,         \* the empty form, or no draft
    Submissions,    \* presses of the submit button
    None            \* no submission

ASSUME QuantityAssumption == MaxQuantity \in Nat
ASSUME ChangesAssumption == MaxChanges \in Nat
ASSUME NoDataAssumption == NoData \notin Data
ASSUME NoneAssumption == None \notin Submissions

VARIABLES
    cart,       \* product -> quantity, 0 when it has no line; persisted
    coupon,     \* whether a discount is applied; persisted
    gen,        \* history: how often the cart has changed
    mounted,    \* the checkout page is on the screen
    data,       \* the form's values
    draft,      \* localStorage's draft
    timer,      \* the autosave timer is running
    success,    \* the page shows that the order was placed
    waits,      \* submission the page is loading for
    phase,      \* submission -> where it stands
    lines,      \* submission -> cart it was made with
    of,         \* history: submission -> gen when it was made
    held,       \* submissions whose items were pre-reserved
    orders,     \* submissions that became orders
    unseen      \* history: submissions whose outcome no page has shown

cartVars == <<cart, coupon, gen>>
pageVars == <<mounted, data, timer, success, waits>>
submitted == <<phase, lines, of>>
server == <<held, orders>>
vars == <<cartVars, pageVars, draft, submitted, server, unseen>>

Quantities == 0..MaxQuantity
EmptyCart == [p \in Products |-> 0]
InFlight == {s \in Submissions : phase[s] \in {"reserving", "ordering"}}

TypeOK ==
    /\ cart \in [Products -> Quantities]
    /\ coupon \in BOOLEAN
    /\ gen \in 0..MaxChanges + 1
    /\ mounted \in BOOLEAN
    /\ data \in Data \union {NoData}
    /\ draft \in Data \union {NoData}
    /\ timer \in BOOLEAN
    /\ success \in BOOLEAN
    /\ waits \in InFlight \union {None}
    /\ phase \in [Submissions -> {"new", "reserving", "ordering", "ended"}]
    /\ lines \in [Submissions -> [Products -> Quantities]]
    /\ of \in [Submissions -> 0..MaxChanges + 1]
    /\ held \subseteq Submissions
    /\ orders \subseteq Submissions
    /\ unseen \subseteq Submissions

Init ==
    /\ cart = EmptyCart
    /\ coupon = FALSE
    /\ gen = 0
    /\ mounted = FALSE
    /\ data = NoData
    /\ draft = NoData
    /\ timer = FALSE
    /\ success = FALSE
    /\ waits = None
    /\ phase = [s \in Submissions |-> "new"]
    /\ lines = [s \in Submissions |-> EmptyCart]
    /\ of = [s \in Submissions |-> 0]
    /\ held = {}
    /\ orders = {}
    /\ unseen = {}

-----------------------------------------------------------------------------
(* The cart, changed on pages other than the checkout page.                *)

Shopping == ~mounted /\ gen < MaxChanges

SetQuantity(p, q) ==
    /\ Shopping
    /\ cart' = [cart EXCEPT ![p] = q]
    /\ gen' = gen + 1
    /\ UNCHANGED <<coupon, pageVars, draft, submitted, server, unseen>>

\* addItem: a new line, or one more of a line that is there.
AddItem(p) ==
    /\ cart[p] < MaxQuantity
    /\ SetQuantity(p, cart[p] + 1)

\* The - and + buttons of a line; a quantity of 0 removes it.
UpdateQuantity(p, q) ==
    /\ cart[p] > 0
    /\ q \in Quantities \intersect {cart[p] - 1, cart[p] + 1}
    /\ SetQuantity(p, q)

RemoveItem(p) ==
    /\ cart[p] > 0
    /\ SetQuantity(p, 0)

\* applyCoupon, from the form that the cart page shows beside its lines.
ApplyCoupon(valid) ==
    /\ ~mounted
    /\ cart # EmptyCart
    /\ coupon' = valid
    /\ UNCHANGED <<cart, gen, pageVars, draft, submitted, server, unseen>>

-----------------------------------------------------------------------------
(* The checkout page.                                                      *)

\* Mounting loads the draft.  The first run of the autosave effect is skipped;
\* the reset to a draft makes a second one.
OpenCheckout ==
    /\ ~mounted
    /\ mounted' = TRUE
    /\ data' = draft
    /\ timer' = (draft # NoData)
    /\ UNCHANGED <<cartVars, success, waits, draft, submitted, server, unseen>>

Type(d) ==
    /\ mounted /\ ~success
    /\ data # d
    /\ data' = d
    /\ timer' = TRUE
    /\ UNCHANGED <<cartVars, mounted, success, waits, draft, submitted, server, unseen>>

Autosave ==
    /\ timer
    /\ draft' = data
    /\ timer' = FALSE
    /\ UNCHANGED <<cartVars, mounted, data, success, waits, submitted, server, unseen>>

ClosePage ==
    /\ mounted' = FALSE
    /\ data' = NoData
    /\ timer' = FALSE
    /\ success' = FALSE
    /\ waits' = None

\* The page subscribes to the whole notification store: a notification that
\* arrives renders it again, which restarts the timer.
Rerender ==
    /\ mounted /\ ~success
    /\ timer' = TRUE
    /\ UNCHANGED <<cartVars, mounted, data, success, waits, draft, submitted, server, unseen>>

\* Another page of the application; the effects' cleanup stops the timer.
LeaveCheckout ==
    /\ mounted
    /\ ClosePage
    /\ unseen' = unseen \union ({waits} \ {None})
    /\ UNCHANGED <<cartVars, draft, submitted, server>>

\* The tab is loaded anew.  Its requests die; the services may have seen them.
Reload ==
    /\ ClosePage
    /\ phase' = [s \in Submissions |-> IF s \in InFlight THEN "ended" ELSE phase[s]]
    /\ \E H \in SUBSET {s \in InFlight : phase[s] = "reserving"} : held' = held \union H
    /\ \E O \in SUBSET {s \in InFlight : phase[s] = "ordering" /\ lines[s] # EmptyCart} :
          orders' = orders \union O
    /\ unseen' = unseen \union InFlight
    /\ UNCHANGED <<cartVars, draft, lines, of>>

-----------------------------------------------------------------------------
(* A submission: two requests, one after the other.                        *)

\* Mutant: the button is not disabled while the page is loading.
SubmitAgain(s) ==
    /\ mounted /\ ~success
    /\ data # NoData
    /\ phase[s] = "new"
    /\ phase' = [phase EXCEPT ![s] = "reserving"]
    /\ lines' = [lines EXCEPT ![s] = cart]
    /\ of' = [of EXCEPT ![s] = gen]
    /\ waits' = s
    /\ timer' = TRUE
    /\ UNCHANGED <<cartVars, mounted, data, success, draft, server, unseen>>

\* onSubmit with valid data: the items of the last render are pre-reserved.
Submit(s) ==
    /\ mounted /\ ~success
    /\ waits = None
    /\ data # NoData
    /\ phase[s] = "new"
    /\ phase' = [phase EXCEPT ![s] = "reserving"]
    /\ lines' = [lines EXCEPT ![s] = cart]
    /\ of' = [of EXCEPT ![s] = gen]
    /\ waits' = s
    /\ timer' = TRUE
    /\ UNCHANGED <<cartVars, mounted, data, success, draft, server, unseen>>

\* The pre-reservation ends, well or not; every error is swallowed.
ReserveEnds(s) ==
    /\ phase[s] = "reserving"
    /\ phase' = [phase EXCEPT ![s] = "ordering"]
    /\ held' \in {held, held \union {s}}
    /\ UNCHANGED <<cartVars, pageVars, draft, lines, of, orders, unseen>>

\* Mutant: the effect does not stop when the order is placed.
OrderPlacedStillSaving(s) ==
    /\ phase[s] = "ordering"
    /\ lines[s] # EmptyCart
    /\ phase' = [phase EXCEPT ![s] = "ended"]
    /\ orders' = orders \union {s}
    /\ cart' = EmptyCart
    /\ coupon' = FALSE
    /\ gen' = IF cart = EmptyCart THEN gen ELSE gen + 1
    /\ draft' = NoData
    /\ success' = (success \/ waits = s)
    /\ waits' = IF waits = s THEN None ELSE waits
    /\ timer' = mounted
    /\ UNCHANGED <<mounted, data, lines, of, held, unseen>>

\* The order is accepted: the cart and the draft are cleared.  A page that
\* waits for it turns to its success view and stops saving; another checkout
\* page is rendered again because the cart has changed.
OrderPlaced(s) ==
    /\ phase[s] = "ordering"
    /\ lines[s] # EmptyCart
    /\ phase' = [phase EXCEPT ![s] = "ended"]
    /\ orders' = orders \union {s}
    /\ cart' = EmptyCart
    /\ coupon' = FALSE
    /\ gen' = IF cart = EmptyCart THEN gen ELSE gen + 1
    /\ draft' = NoData
    /\ success' = (success \/ waits = s)
    /\ waits' = IF waits = s THEN None ELSE waits
    /\ timer' = (mounted /\ ~success')
    /\ UNCHANGED <<mounted, data, lines, of, held, unseen>>

\* The order is refused (an empty one always is), or its answer is lost.
OrderFails(s) ==
    /\ phase[s] = "ordering"
    /\ phase' = [phase EXCEPT ![s] = "ended"]
    /\ \/ UNCHANGED <<orders, unseen>>
       \/ /\ lines[s] # EmptyCart
          /\ orders' = orders \union {s}
          /\ unseen' = unseen \union {s}
    /\ waits' = IF waits = s THEN None ELSE waits
    /\ timer' = (timer \/ waits = s)
    /\ UNCHANGED <<cartVars, mounted, data, success, draft, lines, of, held>>

OrderEnds(s) == OrderPlaced(s) \/ OrderFails(s)

Next ==
    \/ \E p \in Products :
          \/ AddItem(p) \/ RemoveItem(p)
          \/ \E q \in Quantities : UpdateQuantity(p, q)
    \/ \E valid \in BOOLEAN : ApplyCoupon(valid)
    \/ \E d \in Data : Type(d)
    \/ OpenCheckout \/ Autosave \/ Rerender \/ LeaveCheckout \/ Reload
    \/ \E s \in Submissions : Submit(s) \/ ReserveEnds(s) \/ OrderEnds(s)

Spec == Init /\ [][Next]_vars

-----------------------------------------------------------------------------
(* Properties.                                                             *)

\* What the form holds is in the draft as soon as the timer has run out, and
\* once its order is placed the draft is gone and stays gone, although orders
\* of earlier visits clear the draft at any time (useFormAutosave, and
\* Checkout's clearDraft and enabled).
DraftFollowsForm ==
    mounted => IF success THEN draft = NoData /\ ~timer
                          ELSE timer \/ draft = data

\* Two submissions of one unchanged cart are both ordered only if one of them
\* had an outcome that no page has shown: the page was left or reloaded while
\* it was under way, or the answer was lost (Checkout's loading and clearCart).
OneOrderPerCart ==
    \A s, t \in orders : s # t /\ of[s] = of[t] => s \in unseen \/ t \in unseen

ClearsOrdered(s) ==
    (s \in orders' \ orders /\ cart' # cart /\ of[s] = gen) => lines[s] = cart

\* A placed order takes out of the cart only what was ordered, as long as the
\* cart has not been changed since the submission (clearCart).
ClearedIsOrdered == [][\A s \in Submissions : ClearsOrdered(s)]_vars

-----------------------------------------------------------------------------
(* The inductive invariant behind the safety properties.                   *)

\* The page's state says which submissions are under way.  One under way,
\* unless left, is of a later cart than every order that a page has shown.
SubmissionsSound ==
    /\ ~mounted => waits = None /\ ~success /\ ~timer
    /\ success => waits = None
    /\ InFlight \subseteq unseen \union {waits}
    /\ cart # EmptyCart => gen <= MaxChanges
    /\ \A s \in Submissions : of[s] <= gen
    /\ orders \intersect {s \in Submissions : phase[s] # "ended"} = {}
    /\ \A s \in Submissions : s \in InFlight /\ of[s] = gen => lines[s] = cart
    /\ \A s \in orders : s \notin unseen =>
          of[s] < gen /\ (waits # None => of[s] < of[waits])

CheckoutInv ==
    /\ TypeOK
    /\ DraftFollowsForm
    /\ OneOrderPerCart
    /\ SubmissionsSound

=============================================================================
