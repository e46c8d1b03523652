------------------------------ MODULE ShopProofs ------------------------------
(***************************************************************************)
(* The safety properties of the checkout, the workspace, the palette and    *)
(* the shell, each for any values of its constants, and that the four keep  *)
(* their types side by side.                                                *)
(*                                                                         *)
(* CheckoutInv is inductive.  What OneOrderPerCart needs besides is in      *)
(* SubmissionsSound: a submission under way is the one the page waits for   *)
(* or has been left behind, and an order that a page has shown is of an     *)
(* older cart than the one waited for.                                      *)
(*                                                                         *)
(* WorkspaceInv is inductive.  The plan is the one chosen last because      *)
(* upgrades end in the order in which they were started, so that the last   *)
(* to end is the newest (NewestIsChosen); the figures are the active        *)
(* tenant's because the requests are (RequestsOfTenant).                    *)
(*                                                                         *)
(* PaletteInv is inductive.  ResultsRanked is a fact about the search: the  *)
(* one pass over a term always has as many of the query's letters as could  *)
(* be placed so far (ScanFinds), and scores keep their distance (Scored).   *)
(*                                                                         *)
(* ShellInv is inductive.  Flags only take overlays away, for they are      *)
(* asked for once; no timer of the tour outlives its end (TimerOfTour).     *)
(***************************************************************************)
EXTENDS MCShop, PageFetchProofs

-----------------------------------------------------------------------------
(* The checkout.                                                           *)

\* Before the first visit CheckoutInv holds.
LEMMA InitCheckoutInv == Init => CheckoutInv
<1> SUFFICES ASSUME Init PROVE CheckoutInv
  OBVIOUS
<1>1. TypeOK
  <2>1. EmptyCart \in [Products -> Quantities]
    BY QuantityAssumption DEF EmptyCart, Quantities
  <2>2. gen \in 0..MaxChanges + 1 /\ of \in [Submissions -> 0..MaxChanges + 1]
    BY ChangesAssumption DEF Init
  <2> QED
    BY <2>1, <2>2 DEF Init, TypeOK
<1>2. DraftFollowsForm /\ OneOrderPerCart
  BY DEF Init, DraftFollowsForm, OneOrderPerCart
<1>3. SubmissionsSound
  BY ChangesAssumption DEF Init, SubmissionsSound, InFlight
<1> QED
  BY <1>1, <1>2, <1>3 DEF CheckoutInv

\* A change of the cart makes a cart that no submission has been made of.
LEMMA SetQuantityInv ==
  ASSUME CheckoutInv, NEW p \in Products, NEW q \in Quantities, SetQuantity(p, q)
  PROVE  CheckoutInv'
<1> USE DEF CheckoutInv
<1>1. /\ UNCHANGED <<mounted, data, timer, success, waits, draft, phase, lines, of,
                     held, orders, unseen>>
      /\ UNCHANGED coupon
      /\ gen' = gen + 1 /\ gen < MaxChanges /\ gen \in Nat
      /\ cart' \in [Products -> Quantities]
  BY DEF SetQuantity, Shopping, TypeOK, pageVars, submitted, server, Quantities
<1>2. TypeOK'
  BY <1>1, ChangesAssumption DEF TypeOK, InFlight
<1>3. DraftFollowsForm' /\ OneOrderPerCart'
  BY <1>1 DEF DraftFollowsForm, OneOrderPerCart
<1>4. SubmissionsSound'
  <2>1. \A s \in Submissions : of[s] \in Nat /\ of[s] <= gen
    BY DEF TypeOK, SubmissionsSound
  <2>2. \A s \in Submissions : of'[s] < gen'
    BY <1>1, <2>1
  <2>3. gen' <= MaxChanges
    BY <1>1, ChangesAssumption
  <2>4. \A s \in orders' : s \notin unseen' =>
          of'[s] < gen' /\ (waits' # None => of'[s] < of'[waits'])
    BY <1>1, <2>2 DEF SubmissionsSound, TypeOK
  <2>5. \A s \in Submissions : of'[s] <= gen'
    BY <1>1, <2>1
  <2>6. InFlight' = InFlight
    BY <1>1 DEF InFlight
  <2>7. \A s \in Submissions : ~(of'[s] = gen')
    BY <1>1, <2>1
  <2> QED
    BY <1>1, <2>3, <2>4, <2>5, <2>6, <2>7 DEF SubmissionsSound
<1> QED
  BY <1>2, <1>3, <1>4

\* Every step of the shopper, the page and the services preserves CheckoutInv.
LEMMA StepCheckoutInv == CheckoutInv /\ [Next]_vars => CheckoutInv'
<1> SUFFICES ASSUME CheckoutInv, [Next]_vars PROVE CheckoutInv'
  OBVIOUS
<1> USE DEF CheckoutInv
<1>1. ASSUME NEW p \in Products, AddItem(p) PROVE CheckoutInv'
  <2>1. cart[p] + 1 \in Quantities
    BY <1>1, QuantityAssumption DEF AddItem, TypeOK, Quantities
  <2> QED
    BY <1>1, <2>1, SetQuantityInv DEF AddItem
<1>2. ASSUME NEW p \in Products, RemoveItem(p) PROVE CheckoutInv'
  <2>1. 0 \in Quantities
    BY QuantityAssumption DEF Quantities
  <2> QED
    BY <1>2, <2>1, SetQuantityInv DEF RemoveItem
<1>3. ASSUME NEW p \in Products, NEW q \in Quantities, UpdateQuantity(p, q)
      PROVE  CheckoutInv'
  BY <1>3, SetQuantityInv DEF UpdateQuantity
<1>4. ASSUME NEW valid \in BOOLEAN, ApplyCoupon(valid) PROVE CheckoutInv'
  BY <1>4 DEF ApplyCoupon, TypeOK, DraftFollowsForm, OneOrderPerCart,
              SubmissionsSound, InFlight, pageVars, submitted, server
<1>5. CASE OpenCheckout
  BY <1>5 DEF OpenCheckout, TypeOK, DraftFollowsForm, OneOrderPerCart,
              SubmissionsSound, InFlight, cartVars, submitted, server
<1>6. ASSUME NEW d \in Data, Type(d) PROVE CheckoutInv'
  BY <1>6 DEF Type, TypeOK, DraftFollowsForm, OneOrderPerCart,
              SubmissionsSound, InFlight, cartVars, submitted, server
<1>7. CASE Autosave
  BY <1>7 DEF Autosave, TypeOK, DraftFollowsForm, OneOrderPerCart,
              SubmissionsSound, InFlight, cartVars, submitted, server
<1>8. CASE Rerender
  BY <1>8 DEF Rerender, TypeOK, DraftFollowsForm, OneOrderPerCart,
              SubmissionsSound, InFlight, cartVars, submitted, server
<1>9. CASE LeaveCheckout
  <2>1. TypeOK' /\ DraftFollowsForm' /\ OneOrderPerCart'
    BY <1>9 DEF LeaveCheckout, ClosePage, TypeOK, DraftFollowsForm, OneOrderPerCart,
                InFlight, cartVars, submitted, server
  <2>2. SubmissionsSound'
    BY <1>9 DEF LeaveCheckout, ClosePage, TypeOK, SubmissionsSound,
                InFlight, cartVars, submitted, server
  <2> QED
    BY <2>1, <2>2
<1>10. CASE Reload
  <2>1. /\ UNCHANGED <<cart, coupon, gen, draft, lines, of>>
        /\ mounted' = FALSE /\ data' = NoData /\ timer' = FALSE
        /\ success' = FALSE /\ waits' = None
        /\ unseen' = unseen \union InFlight
        /\ phase' \in [Submissions -> {"new", "reserving", "ordering", "ended"}]
        /\ InFlight' = {}
        /\ \A s \in Submissions : phase'[s] = phase[s] \/ phase'[s] = "ended"
        /\ \A s \in InFlight : phase'[s] = "ended"
        /\ held' \subseteq Submissions
        /\ orders \subseteq orders' /\ orders' \subseteq orders \union InFlight
    BY <1>10 DEF Reload, ClosePage, TypeOK, InFlight, cartVars
  <2>2. TypeOK'
    BY <2>1 DEF TypeOK, InFlight
  <2>3. DraftFollowsForm' /\ OneOrderPerCart'
    BY <2>1 DEF DraftFollowsForm, OneOrderPerCart, InFlight
  <2>4. SubmissionsSound'
    <3>1. orders' \intersect {s \in Submissions : phase'[s] # "ended"} = {}
      BY <2>1 DEF SubmissionsSound
    <3>2. \A s \in orders' : s \notin unseen' =>
            of'[s] < gen' /\ (waits' # None => of'[s] < of'[waits'])
      BY <2>1 DEF SubmissionsSound
    <3> QED
      BY <2>1, <3>1, <3>2 DEF SubmissionsSound
  <2> QED
    BY <2>2, <2>3, <2>4
<1>11. ASSUME NEW s \in Submissions, Submit(s) PROVE CheckoutInv'
  <2>1. /\ UNCHANGED <<cart, coupon, gen, mounted, data, success, draft,
                       held, orders, unseen>>
        /\ phase' = [phase EXCEPT ![s] = "reserving"]
        /\ lines' = [lines EXCEPT ![s] = cart]
        /\ of' = [of EXCEPT ![s] = gen]
        /\ waits' = s /\ timer' = TRUE /\ waits = None
        /\ mounted /\ ~success /\ phase[s] = "new"
        /\ InFlight' = InFlight \union {s}
    BY <1>11 DEF Submit, TypeOK, InFlight, cartVars, server
  <2>2. TypeOK'
    BY <2>1 DEF TypeOK
  <2>3. s \notin orders
    BY <2>1 DEF SubmissionsSound
  <2>4. DraftFollowsForm' /\ OneOrderPerCart'
    BY <2>1, <2>3 DEF DraftFollowsForm, OneOrderPerCart, TypeOK
  <2>5. SubmissionsSound'
    <3>1. InFlight' \subseteq unseen' \union {waits'}
      BY <2>1, NoneAssumption DEF SubmissionsSound, InFlight
    <3>2. \A t \in Submissions : of'[t] <= gen'
      BY <2>1 DEF SubmissionsSound, TypeOK
    <3>3. orders' \intersect {t \in Submissions : phase'[t] # "ended"} = {}
      BY <2>1, <2>3 DEF SubmissionsSound, TypeOK
    <3>4. \A t \in Submissions : t \in InFlight' /\ of'[t] = gen' => lines'[t] = cart'
      BY <2>1 DEF SubmissionsSound, TypeOK
    <3>5. \A t \in orders' : t \notin unseen' =>
            of'[t] < gen' /\ (waits' # None => of'[t] < of'[waits'])
      BY <2>1, <2>3 DEF SubmissionsSound, TypeOK
    <3> QED
      BY <2>1, <3>1, <3>2, <3>3, <3>4, <3>5 DEF SubmissionsSound
  <2> QED
    BY <2>2, <2>4, <2>5
<1>12. ASSUME NEW s \in Submissions, ReserveEnds(s) PROVE CheckoutInv'
  <2>1. /\ UNCHANGED <<cartVars, pageVars, draft, lines, of, orders, unseen>>
        /\ InFlight' = InFlight /\ s \in InFlight
        /\ phase' = [phase EXCEPT ![s] = "ordering"]
        /\ held' \subseteq Submissions
    BY <1>12 DEF ReserveEnds, TypeOK, InFlight
  <2> QED
    BY <2>1 DEF TypeOK, DraftFollowsForm, OneOrderPerCart, SubmissionsSound,
                cartVars, pageVars, InFlight
<1>13. ASSUME NEW s \in Submissions, OrderPlaced(s) PROVE CheckoutInv'
  <2>1. /\ UNCHANGED <<mounted, data, lines, of, held, unseen>>
        /\ phase' = [phase EXCEPT ![s] = "ended"]
        /\ orders' = orders \union {s}
        /\ cart' = EmptyCart /\ coupon' = FALSE /\ draft' = NoData
        /\ gen' = IF cart = EmptyCart THEN gen ELSE gen + 1
        /\ success' = (success \/ waits = s)
        /\ waits' = IF waits = s THEN None ELSE waits
        /\ timer' = (mounted /\ ~success')
        /\ s \in InFlight /\ lines[s] # EmptyCart
        /\ InFlight' = InFlight \ {s}
    BY <1>13 DEF OrderPlaced, TypeOK, InFlight
  <2>2. /\ gen \in Nat /\ gen' \in Nat /\ gen <= gen'
        /\ gen' \in 0..MaxChanges + 1
        /\ cart # EmptyCart => gen < gen'
    BY <2>1, ChangesAssumption DEF TypeOK, SubmissionsSound
  <2>3. EmptyCart \in [Products -> Quantities]
    BY QuantityAssumption DEF EmptyCart, Quantities
  <2>4. TypeOK'
    BY <2>1, <2>2, <2>3 DEF TypeOK
  <2>5. DraftFollowsForm'
    BY <2>1 DEF DraftFollowsForm
  \* The order was made of an older cart, or of this one, which is now cleared.
  <2>6. of[s] < gen'
    <3>1. of[s] \in Nat /\ of[s] <= gen
      BY DEF SubmissionsSound, TypeOK
    <3>2. of[s] = gen => cart # EmptyCart
      BY <2>1 DEF SubmissionsSound
    <3> QED
      BY <2>2, <3>1, <3>2
  <2>7. OneOrderPerCart'
    <3> SUFFICES ASSUME NEW t \in orders, t # s, of[t] = of[s]
                 PROVE  s \in unseen \/ t \in unseen
      BY <2>1 DEF OneOrderPerCart
    <3>1. s \in unseen \/ s = waits
      BY <2>1 DEF SubmissionsSound
    <3>2. s # None /\ of[s] \in Nat
      BY NoneAssumption DEF TypeOK
    <3> QED
      BY <3>1, <3>2 DEF SubmissionsSound
  <2>8. SubmissionsSound'
    <3>1. \A t \in Submissions : of'[t] <= gen'
      BY <2>1, <2>2 DEF SubmissionsSound, TypeOK
    <3>2. orders' \intersect {t \in Submissions : phase'[t] # "ended"} = {}
      BY <2>1 DEF SubmissionsSound, TypeOK
    <3>3. \A t \in Submissions : t \in InFlight' /\ of'[t] = gen' => lines'[t] = cart'
      BY <2>1, <2>2 DEF SubmissionsSound, TypeOK
    <3>4. \A t \in orders' : t \notin unseen' =>
            of'[t] < gen' /\ (waits' # None => of'[t] < of'[waits'])
      <4>1. s \in unseen \/ s = waits
        BY <2>1 DEF SubmissionsSound
      <4> QED
        BY <2>1, <2>2, <2>6, <4>1 DEF SubmissionsSound, TypeOK
    <3> QED
      BY <2>1, <3>1, <3>2, <3>3, <3>4, NoneAssumption DEF SubmissionsSound
  <2> QED
    BY <2>4, <2>5, <2>7, <2>8
<1>14. ASSUME NEW s \in Submissions, OrderFails(s) PROVE CheckoutInv'
  <2>1. /\ UNCHANGED <<cart, coupon, gen, mounted, data, success, draft, lines, of, held>>
        /\ phase' = [phase EXCEPT ![s] = "ended"]
        /\ waits' = IF waits = s THEN None ELSE waits
        /\ timer' = (timer \/ waits = s)
        /\ s \in InFlight
        /\ InFlight' = InFlight \ {s}
        /\ \/ UNCHANGED <<orders, unseen>>
           \/ orders' = orders \union {s} /\ unseen' = unseen \union {s}
    BY <1>14 DEF OrderFails, TypeOK, InFlight, cartVars
  <2>2. TypeOK'
    BY <2>1 DEF TypeOK
  <2>3. DraftFollowsForm'
    BY <2>1, NoneAssumption DEF DraftFollowsForm, SubmissionsSound
  <2>4. OneOrderPerCart'
    BY <2>1 DEF OneOrderPerCart
  <2>5. SubmissionsSound'
    BY <2>1, NoneAssumption DEF SubmissionsSound, TypeOK
  <2> QED
    BY <2>2, <2>3, <2>4, <2>5
<1>15. CASE UNCHANGED vars
  BY <1>15 DEF vars, cartVars, pageVars, submitted, server, TypeOK, DraftFollowsForm,
               OneOrderPerCart, SubmissionsSound, InFlight
<1> QED
  BY <1>1, <1>2, <1>3, <1>4, <1>5, <1>6, <1>7, <1>8, <1>9, <1>10, <1>11, <1>12,
     <1>13, <1>14, <1>15 DEF Next, OrderEnds

\* CheckoutInv holds in every state.
LEMMA CheckoutInvariant == Spec => []CheckoutInv
<1>1. Init => CheckoutInv
  BY InitCheckoutInv
<1>2. CheckoutInv /\ [Next]_vars => CheckoutInv'
  BY StepCheckoutInv
<1> QED
  BY <1>1, <1>2, PTL DEF Spec

-----------------------------------------------------------------------------

\* The types hold for any products and submissions: a page waits only for a
\* request that is under way (Checkout.tsx, loading).
THEOREM CheckoutTypeCorrect == Spec => []TypeOK
<1>1. CheckoutInv => TypeOK
  BY DEF CheckoutInv
<1> QED
  BY <1>1, CheckoutInvariant, PTL

\* The draft is the form's or about to be, and gone once its order is placed
\* (useFormAutosave).
THEOREM DraftIsSound == Spec => []DraftFollowsForm
<1>1. CheckoutInv => DraftFollowsForm
  BY DEF CheckoutInv
<1> QED
  BY <1>1, CheckoutInvariant, PTL

\* However often the page is left, reloaded and submitted, one cart becomes two
\* orders only through an outcome no page has shown (Checkout's onSubmit).
THEOREM CartIsOrderedOnce == Spec => []OneOrderPerCart
<1>1. CheckoutInv => OneOrderPerCart
  BY DEF CheckoutInv
<1> QED
  BY <1>1, CheckoutInvariant, PTL

\* A placed order takes out of the cart only what was ordered (clearCart).
THEOREM OnlyOrderedCleared == Spec => ClearedIsOrdered
<1>1. CheckoutInv /\ Next => \A s \in Submissions : ClearsOrdered(s)
  <2> SUFFICES ASSUME CheckoutInv, Next, NEW s \in Submissions,
                      s \in orders' \ orders, cart' # cart, of[s] = gen
               PROVE  lines[s] = cart
    BY DEF ClearsOrdered
  <2>1. PICK t \in Submissions : OrderPlaced(t)
    BY DEF Next, OrderEnds, AddItem, RemoveItem, UpdateQuantity, SetQuantity, ApplyCoupon,
           Type, OpenCheckout, Autosave, Rerender, LeaveCheckout, Reload, Submit,
           ReserveEnds, OrderFails, cartVars, server
  <2>2. s = t /\ s \in InFlight
    BY <2>1 DEF OrderPlaced, InFlight
  <2> QED
    BY <2>2 DEF CheckoutInv, SubmissionsSound
<1>2. CheckoutInv /\ [Next]_vars => [\A s \in Submissions : ClearsOrdered(s)]_vars
  BY <1>1
<1> QED
  BY <1>2, CheckoutInvariant, PTL DEF Spec, ClearedIsOrdered

-----------------------------------------------------------------------------
(* The workspace.                                                          *)

Upgrade == [tier : Tiers, here : BOOLEAN]

\* Before the first page WorkspaceInv holds.
LEMMA InitWorkspaceInv == WorkspaceInit => WorkspaceInv
<1> SUFFICES ASSUME WorkspaceInit PROVE WorkspaceInv
  OBVIOUS
<1>1. /\ upgrades = <<>> /\ flight = <<>> /\ loading = FALSE
      /\ version = 0 /\ shown = 0 /\ stale = FALSE
  BY DEF WorkspaceInit, FetchInit
<1>2. DOMAIN upgrades = {} /\ DOMAIN flight = {}
  BY <1>1
<1>3. FetchTypeOK(Tenants)
  <2>1. version \in 0..MaxVersion /\ shown \in 0..version
    <3>1. MaxVersion \in Nat /\ version = 0 /\ shown = 0
      BY <1>1, BoundsAssumption
    <3> QED
      BY <3>1
  <2>3. loading \in BOOLEAN /\ stale \in BOOLEAN
    BY <1>1
  <2>2. flight \in Seq([tag : Tenants, answered : BOOLEAN, at : 0..version, late : BOOLEAN])
    BY <1>1
  <2> QED
    BY <2>1, <2>2, <2>3 DEF FetchTypeOK
<1>4. upgrades \in Seq([tier : Tiers, here : BOOLEAN])
  BY <1>1
<1>5. WorkspaceTypeOK
  BY <1>1, <1>2, <1>3, <1>4, WorkspaceAssumption
  DEF WorkspaceInit, WorkspaceTypeOK, Pages, Tiers, Tabs
<1>6. OneUpgradeHere /\ PlanAsChosen /\ FiguresOfTenant /\ NewestIsChosen /\ RequestsOfTenant
  BY <1>1, <1>2
  DEF WorkspaceInit, OneUpgradeHere, PlanAsChosen, FiguresOfTenant, NewestIsChosen,
      RequestsOfTenant
<1> QED
  BY <1>5, <1>6 DEF WorkspaceInv

\* A step that leaves the store, the upgrades and the fetches alone.
LEMMA IdleWorkspace ==
  ASSUME WorkspaceInv, WorkspaceTypeOK',
         UNCHANGED <<page, store, upgrades, analyticsData, flight, history>>
  PROVE  WorkspaceInv'
<1> USE DEF WorkspaceInv
<1> QED
  BY DEF store, history, OneUpgradeHere, PlanAsChosen, FiguresOfTenant, NewestIsChosen,
         RequestsOfTenant

\* A step of the fetches keeps the requests the active tenant's.
LEMMA FetchWorkspace ==
  ASSUME WorkspaceInv, page = "dashboard",
         UNCHANGED <<page, store, admin, panel, timeRange, drillDownMetric, version, history>>,
         FetchTypeOK(Tenants)',
         \A g \in DOMAIN flight' :
            \/ flight'[g].tag = activeTenantId
            \/ \E h \in DOMAIN flight : flight'[g].tag = flight[h].tag,
         \/ analyticsData' = analyticsData
         \/ \E h \in DOMAIN flight : analyticsData' = flight[h].tag
  PROVE  WorkspaceInv'
<1> USE DEF WorkspaceInv
<1>1. /\ UNCHANGED <<activeTenantId, planTier, selectedTab, isUpgrading, upgrades, isOpen,
                     seedingData, chosen, overlapped, switched>>
  BY DEF store, admin, panel, history
<1>3. \A h \in DOMAIN flight : flight[h].tag \in Tenants
  <2>1. flight \in Seq(Fetch(Tenants))
    BY DEF WorkspaceTypeOK, FetchTypeOK, Fetch
  <2>2. \A h \in DOMAIN flight : flight[h] \in Fetch(Tenants)
    BY <2>1, Listed
  <2> QED
    BY <2>2 DEF Fetch
<1>4. WorkspaceTypeOK'
  BY <1>1, <1>3 DEF WorkspaceTypeOK
<1>5. OneUpgradeHere' /\ PlanAsChosen' /\ NewestIsChosen'
  BY <1>1 DEF OneUpgradeHere, PlanAsChosen, NewestIsChosen
<1>6. FiguresOfTenant' /\ RequestsOfTenant'
  BY <1>1 DEF FiguresOfTenant, RequestsOfTenant
<1> QED
  BY <1>4, <1>5, <1>6

\* A page that opens has no figures, and asks for the active tenant's.
LEMMA PageMounted ==
  ASSUME WorkspaceInv, NEW p \in Pages, Mount(p),
         UNCHANGED <<activeTenantId, planTier, version>>
  PROVE  /\ page' = p /\ analyticsData' = Nothing /\ isUpgrading' = FALSE
         /\ FetchTypeOK(Tenants)' /\ (p # "dashboard" => flight' = <<>>)
         /\ \A f \in DOMAIN flight' : flight'[f].tag = activeTenantId
         /\ timeRange' \in Ranges /\ drillDownMetric' = Nothing /\ selectedTab' \in Tabs
         /\ switched' = FALSE
<1> USE DEF WorkspaceInv
<1> DEFINE asked == IF p = "dashboard" THEN <<NewFetch(activeTenantId)>> ELSE <<>>
<1>1. /\ page' = p /\ analyticsData' = Nothing /\ isUpgrading' = FALSE
      /\ timeRange' = DefaultRange /\ drillDownMetric' = Nothing
      /\ selectedTab' = "overview" /\ switched' = FALSE
      /\ OpenFetch(asked) /\ flight' = asked
  BY DEF Mount, OpenFetch
<1>2. version \in 0..MaxVersion /\ version' = version /\ activeTenantId \in Tenants
  BY DEF WorkspaceTypeOK, FetchTypeOK
<1>3. \/ asked = <<>>
      \/ \E tag \in Tenants : asked = <<NewFetch(tag)>>
  BY <1>2
<1>4. FetchTypeOK(Tenants)'
  <2> HIDE DEF asked
  <2> QED
    BY <1>1, <1>2, <1>3, Opened
<1>5. \A f \in DOMAIN asked : asked[f].tag = activeTenantId
  BY DEF NewFetch
<1>6. p # "dashboard" => flight' = <<>>
  BY <1>1
<1> HIDE DEF asked
<1> QED
  BY <1>1, <1>4, <1>5, <1>6, WorkspaceAssumption DEF Tabs

\* Every step of the pages, the panel and the timers preserves WorkspaceInv.
LEMMA StepWorkspaceInv == WorkspaceInv /\ [WorkspaceNext]_workVars => WorkspaceInv'
<1> SUFFICES ASSUME WorkspaceInv, [WorkspaceNext]_workVars PROVE WorkspaceInv'
  OBVIOUS
<1> USE DEF WorkspaceInv
<1>a. /\ upgrades \in Seq(Upgrade) /\ FetchTypeOK(Tenants) /\ version \in Nat
      /\ isUpgrading = \E i \in DOMAIN upgrades : upgrades[i].here
  <2>1. upgrades \in Seq(Upgrade)
    BY DEF WorkspaceTypeOK, Upgrade
  <2>2. FetchTypeOK(Tenants) /\ version \in Nat
    BY BoundsAssumption DEF WorkspaceTypeOK, FetchTypeOK
  <2>3. isUpgrading = \E i \in DOMAIN upgrades : upgrades[i].here
    BY DEF WorkspaceTypeOK
  <2> QED
    BY <2>1, <2>2, <2>3
<1>b. \A i \in DOMAIN upgrades : upgrades[i] \in Upgrade
  BY <1>a, Listed
<1>1. ASSUME NEW p \in Pages, Navigate(p) PROVE WorkspaceInv'
  <2>1. /\ Mount(p)
        /\ upgrades' = [i \in DOMAIN upgrades |-> [upgrades[i] EXCEPT !.here = FALSE]]
        /\ UNCHANGED <<activeTenantId, planTier, isOpen, seedingData, version, chosen, overlapped>>
    BY <1>1 DEF Navigate, store, panel
  <2>2. \A i \in DOMAIN upgrades : /\ upgrades'[i] \in Upgrade
                                   /\ upgrades'[i].tier = upgrades[i].tier
                                   /\ ~upgrades'[i].here
    BY <1>b, <2>1 DEF Upgrade
  <2>3. upgrades' \in Seq(Upgrade) /\ DOMAIN upgrades' = DOMAIN upgrades
    <3>1. upgrades' = [i \in DOMAIN upgrades |-> upgrades'[i]]
      BY <2>1
    <3> QED
      BY <1>a, <2>2, <3>1, Replaced
  <2>4. /\ page' = p /\ analyticsData' = Nothing /\ isUpgrading' = FALSE
        /\ FetchTypeOK(Tenants)' /\ (p # "dashboard" => flight' = <<>>)
        /\ \A f \in DOMAIN flight' : flight'[f].tag = activeTenantId
        /\ timeRange' \in Ranges /\ drillDownMetric' = Nothing /\ selectedTab' \in Tabs
        /\ switched' = FALSE
    BY <2>1, PageMounted
  <2>5. WorkspaceTypeOK'
    BY <2>1, <2>2, <2>3, <2>4 DEF WorkspaceTypeOK, Upgrade
  <2>6. Len(upgrades') = Len(upgrades) /\ Len(upgrades) \in Nat
    BY <1>a, <2>3
  <2>7. upgrades = <<>> <=> upgrades' = <<>>
    BY <1>a, <2>3, <2>6, EmptySeq
  <2>8. PlanAsChosen' /\ NewestIsChosen'
    <3>1. upgrades # <<>> => Len(upgrades) \in DOMAIN upgrades
      BY <1>a
    <3> QED
      BY <2>1, <2>2, <2>6, <2>7, <3>1 DEF PlanAsChosen, NewestIsChosen
  <2>9. OneUpgradeHere' /\ FiguresOfTenant' /\ RequestsOfTenant'
    BY <2>1, <2>2, <2>3, <2>4 DEF OneUpgradeHere, FiguresOfTenant, RequestsOfTenant
  <2> QED
    BY <2>5, <2>8, <2>9
<1>2. CASE ReloadPage
  <2>1. /\ Mount(page) /\ page \in Pages /\ upgrades' = <<>>
        /\ isOpen' = FALSE /\ seedingData' = FALSE
        /\ chosen' = planTier /\ overlapped' = FALSE
        /\ UNCHANGED <<activeTenantId, planTier, version>>
    BY <1>2 DEF ReloadPage, store, WorkspaceTypeOK
  <2>2. /\ page' = page /\ analyticsData' = Nothing /\ isUpgrading' = FALSE
        /\ FetchTypeOK(Tenants)' /\ (page # "dashboard" => flight' = <<>>)
        /\ \A f \in DOMAIN flight' : flight'[f].tag = activeTenantId
        /\ timeRange' \in Ranges /\ drillDownMetric' = Nothing /\ selectedTab' \in Tabs
        /\ switched' = FALSE
    BY <2>1, PageMounted
  <2>3. upgrades' \in Seq([tier : Tiers, here : BOOLEAN]) /\ DOMAIN upgrades' = {}
    BY <2>1
  <2>4. WorkspaceTypeOK'
    BY <2>1, <2>2, <2>3 DEF WorkspaceTypeOK
  <2>5. /\ OneUpgradeHere' /\ PlanAsChosen' /\ FiguresOfTenant'
        /\ NewestIsChosen' /\ RequestsOfTenant'
    BY <2>1, <2>2, <2>3
    DEF OneUpgradeHere, PlanAsChosen, FiguresOfTenant, NewestIsChosen, RequestsOfTenant
  <2> QED
    BY <2>4, <2>5
<1>3. CASE HandleRefresh
  <2>1. /\ page = "dashboard" /\ StartFetch(activeTenantId)
        /\ UNCHANGED <<page, store, admin, panel, dashboard, shown, stale, version, history>>
    BY <1>3 DEF HandleRefresh, OnDashboard
  <2>2. activeTenantId \in Tenants
    BY DEF WorkspaceTypeOK
  <2>3. /\ FetchTypeOK(Tenants)' /\ DOMAIN flight' = 1..(Len(flight) + 1)
        /\ flight'[Len(flight) + 1].tag = activeTenantId
        /\ \A g \in DOMAIN flight : flight'[g] = flight[g]
    BY <1>a, <2>1, <2>2, Started
  <2>4. \A g \in DOMAIN flight' : g = Len(flight) + 1 \/ g \in DOMAIN flight
    BY <1>a, <2>3 DEF FetchTypeOK
  <2>5. \A g \in DOMAIN flight' :
          \/ flight'[g].tag = activeTenantId
          \/ \E h \in DOMAIN flight : flight'[g].tag = flight[h].tag
    BY <2>3, <2>4
  <2> QED
    BY <2>1, <2>3, <2>5, FetchWorkspace DEF dashboard
<1>4. ASSUME NEW f \in DOMAIN flight, AnalyticsAnswered(f) PROVE WorkspaceInv'
  <2>1. /\ ServerAnswers(f)
        /\ UNCHANGED <<page, store, admin, panel, dashboard, loading, shown, stale,
                       version, history>>
    BY <1>4 DEF AnalyticsAnswered
  <2>2. page = "dashboard"
    BY DEF WorkspaceTypeOK
  <2>3. /\ FetchTypeOK(Tenants)' /\ DOMAIN flight' = DOMAIN flight
        /\ \A g \in DOMAIN flight : flight'[g].tag = flight[g].tag
    BY <1>a, <2>1, Answered
  <2> QED
    BY <2>1, <2>2, <2>3, FetchWorkspace DEF dashboard
<1>5. ASSUME NEW f \in DOMAIN flight, AnalyticsDone(f) \/ AnalyticsFails(f) PROVE WorkspaceInv'
  <2>1. page = "dashboard"
    BY DEF WorkspaceTypeOK
  <2>2. /\ TakeAnswer(f) \/ LoseAnswer(f)
        /\ analyticsData' = flight[f].tag \/ analyticsData' = analyticsData
        /\ UNCHANGED <<page, store, admin, panel, timeRange, drillDownMetric, version, history>>
    BY <1>5 DEF AnalyticsDone, AnalyticsFails, dashboard
  <2>3. /\ FetchTypeOK(Tenants)'
        /\ \A g \in DOMAIN flight' : /\ PlaceBefore(f, g) \in DOMAIN flight
                                     /\ flight'[g].tag = flight[PlaceBefore(f, g)].tag
    BY <1>a, <2>2, Taken, Lost
  <2> QED
    BY <2>1, <2>2, <2>3, FetchWorkspace
<1>6. ASSUME WorkspaceTypeOK',
             UNCHANGED <<page, store, upgrades, analyticsData, flight, history>>
      PROVE  WorkspaceInv'
  BY <1>6, IdleWorkspace
<1>7. ASSUME NEW r \in Ranges, SetTimeRange(r) PROVE WorkspaceInv'
  BY <1>6, <1>7 DEF SetTimeRange, WorkspaceTypeOK, FetchTypeOK, store, admin, panel,
                    fetchVars, history
<1>8. ASSUME NEW m \in Metrics, DrillDown(m) PROVE WorkspaceInv'
  BY <1>6, <1>8 DEF DrillDown, WorkspaceTypeOK, FetchTypeOK, store, admin, panel,
                    fetchVars, history
<1>9. CASE CloseDrillDown
  BY <1>6, <1>9 DEF CloseDrillDown, WorkspaceTypeOK, FetchTypeOK, store, admin, panel,
                    fetchVars, history
<1>10. ASSUME NEW tab \in Tabs, SelectTab(tab) PROVE WorkspaceInv'
  BY <1>6, <1>10 DEF SelectTab, WorkspaceTypeOK, FetchTypeOK, store, panel, dashboard,
                     fetchVars, history
<1>11. ASSUME NEW t \in Tenants, SwitchTenant(t) PROVE WorkspaceInv'
  <2>1. /\ page = "workspace" /\ activeTenantId' = t
        /\ UNCHANGED <<planTier, page, admin, panel, dashboard, fetchVars, version, history>>
    BY <1>11 DEF SwitchTenant, OnWorkspace
  <2>2. WorkspaceTypeOK'
    BY <2>1 DEF WorkspaceTypeOK, FetchTypeOK, admin, panel, dashboard, fetchVars, history
  <2> QED
    BY <2>1, <2>2 DEF admin, history, OneUpgradeHere, PlanAsChosen, FiguresOfTenant,
                      NewestIsChosen, RequestsOfTenant
<1>12. ASSUME NEW tier \in Tiers, SelectPlan(tier) PROVE WorkspaceInv'
  <2> DEFINE new == [tier |-> tier, here |-> TRUE]
  <2>1. /\ ~isUpgrading /\ isUpgrading' = TRUE
        /\ upgrades' = Append(upgrades, new)
        /\ chosen' = tier /\ overlapped' = FALSE
        /\ UNCHANGED <<selectedTab, switched, page, store, panel, dashboard, fetchVars, version>>
    BY <1>12 DEF SelectPlan
  <2>2. new \in Upgrade /\ new.here /\ new.tier = tier
    BY DEF Upgrade
  <2> HIDE DEF new
  <2>3. /\ upgrades' \in Seq(Upgrade) /\ upgrades' # <<>>
        /\ Len(upgrades') = Len(upgrades) + 1 /\ Len(upgrades) \in Nat
        /\ DOMAIN upgrades' = 1..Len(upgrades) + 1
        /\ upgrades'[Len(upgrades) + 1] = new
        /\ \A i \in 1..Len(upgrades) : i \in DOMAIN upgrades /\ upgrades'[i] = upgrades[i]
    BY <1>a, <2>1, <2>2
  <2>4. \A i \in DOMAIN upgrades' : upgrades'[i].here => i = Len(upgrades) + 1
    <3> SUFFICES ASSUME NEW i \in DOMAIN upgrades', i # Len(upgrades) + 1
                 PROVE  ~upgrades'[i].here
      OBVIOUS
    <3>1. i \in 1..Len(upgrades)
      BY <2>3
    <3>2. i \in DOMAIN upgrades /\ upgrades'[i] = upgrades[i]
      BY <2>3, <3>1
    <3>3. ~upgrades[i].here
      BY <1>a, <2>1, <3>2
    <3> QED
      BY <3>2, <3>3
  <2>5. Len(upgrades) + 1 \in DOMAIN upgrades'
    BY <2>3
  <2>6. WorkspaceTypeOK'
    BY <2>1, <2>2, <2>3, <2>5
    DEF WorkspaceTypeOK, FetchTypeOK, store, panel, dashboard, fetchVars, Upgrade
  <2>7. OneUpgradeHere' /\ PlanAsChosen' /\ NewestIsChosen'
    BY <2>1, <2>2, <2>3, <2>4 DEF OneUpgradeHere, PlanAsChosen, NewestIsChosen
  <2>8. FiguresOfTenant' /\ RequestsOfTenant'
    BY <2>1 DEF FiguresOfTenant, RequestsOfTenant, store, dashboard, fetchVars
  <2> QED
    BY <2>6, <2>7, <2>8
<1>13. CASE Upgraded
  <2>1. /\ upgrades # <<>> /\ planTier' = Head(upgrades).tier /\ upgrades' = Tail(upgrades)
        /\ isUpgrading' = (isUpgrading /\ ~Head(upgrades).here)
        /\ UNCHANGED <<activeTenantId, selectedTab, page, panel, dashboard, fetchVars,
                       version, history>>
    BY <1>13 DEF Upgraded
  <2>2. /\ Len(upgrades) \in Nat \ {0} /\ DOMAIN upgrades = 1..Len(upgrades)
        /\ Head(upgrades) = upgrades[1]
        /\ upgrades' \in Seq(Upgrade) /\ Len(upgrades') = Len(upgrades) - 1
        /\ DOMAIN upgrades' = 1..(Len(upgrades) - 1)
        /\ \A i \in 1..(Len(upgrades) - 1) : upgrades'[i] = upgrades[i + 1]
    BY <1>a, <2>1
  <2>3. upgrades[1] \in Upgrade
    BY <1>b, <2>2
  \* Of the upgrades that this page started there is at most one.
  <2>4. isUpgrading' = \E i \in DOMAIN upgrades' : upgrades'[i].here
    <3>1. CASE upgrades[1].here
      <4>1. ASSUME NEW i \in DOMAIN upgrades', upgrades'[i].here PROVE FALSE
        <5>1. i + 1 \in DOMAIN upgrades /\ upgrades[i + 1].here /\ 1 \in DOMAIN upgrades
          BY <2>2, <4>1
        <5>2. i + 1 = 1
          BY <3>1, <5>1 DEF OneUpgradeHere
        <5> QED
          BY <2>2, <5>2
      <4> QED
        BY <2>1, <2>2, <3>1, <4>1
    <3>2. CASE ~upgrades[1].here
      <4>1. ASSUME NEW i \in DOMAIN upgrades, upgrades[i].here
            PROVE  \E j \in DOMAIN upgrades' : upgrades'[j].here
        <5>1. i # 1
          BY <3>2, <4>1
        <5>2. i - 1 \in DOMAIN upgrades' /\ upgrades'[i - 1] = upgrades[i]
          BY <2>2, <5>1
        <5> QED
          BY <4>1, <5>2
      <4>2. ASSUME NEW j \in DOMAIN upgrades', upgrades'[j].here
            PROVE  \E i \in DOMAIN upgrades : upgrades[i].here
        <5>1. j + 1 \in DOMAIN upgrades /\ upgrades[j + 1].here
          BY <2>2, <4>2
        <5> QED
          BY <5>1
      <4>3. (\E i \in DOMAIN upgrades : upgrades[i].here)
            <=> \E j \in DOMAIN upgrades' : upgrades'[j].here
        BY <4>1, <4>2
      <4> QED
        BY <1>a, <2>1, <2>2, <3>2, <4>3
    <3> QED
      BY <3>1, <3>2
  <2>5. WorkspaceTypeOK'
    BY <2>1, <2>2, <2>3, <2>4
    DEF WorkspaceTypeOK, FetchTypeOK, panel, dashboard, fetchVars, history, Upgrade
  <2>6. OneUpgradeHere'
    <3> SUFFICES ASSUME NEW i \in DOMAIN upgrades', NEW j \in DOMAIN upgrades',
                        upgrades'[i].here, upgrades'[j].here
                 PROVE  i = j
      BY DEF OneUpgradeHere
    <3>1. i + 1 \in DOMAIN upgrades /\ j + 1 \in DOMAIN upgrades /\ i \in Nat /\ j \in Nat
          /\ upgrades[i + 1].here /\ upgrades[j + 1].here
      BY <2>2
    <3> QED
      BY <3>1 DEF OneUpgradeHere
  <2>7. PlanAsChosen' /\ NewestIsChosen'
    <3>1. CASE Len(upgrades) = 1
      BY <1>a, <2>1, <2>2, <3>1, EmptySeq DEF PlanAsChosen, NewestIsChosen, history
    <3>2. CASE Len(upgrades) # 1
      <4>1. upgrades' # <<>> /\ upgrades'[Len(upgrades')] = upgrades[Len(upgrades)]
        BY <2>2, <3>2
      <4> QED
        BY <2>1, <4>1 DEF PlanAsChosen, NewestIsChosen, history
    <3> QED
      BY <3>1, <3>2
  <2>8. FiguresOfTenant' /\ RequestsOfTenant'
    BY <2>1 DEF FiguresOfTenant, RequestsOfTenant, dashboard, fetchVars, history
  <2> QED
    BY <2>5, <2>6, <2>7, <2>8
<1>14. CASE OpenPanel \/ ClosePanel \/ Seeded
  BY <1>6, <1>14 DEF OpenPanel, ClosePanel, Seeded, WorkspaceTypeOK, FetchTypeOK, store,
                     admin, dashboard, fetchVars, history
<1>15. CASE SeedData
  <2>1. /\ seedingData' = TRUE /\ activeTenantId' = DemoTenant /\ planTier' = "growth"
        /\ chosen' = "growth" /\ overlapped' = (upgrades # <<>>)
        /\ switched' = (switched \/ (page = "dashboard" /\ activeTenantId # DemoTenant))
        /\ UNCHANGED <<isOpen, page, admin, dashboard, fetchVars, version>>
    BY <1>15 DEF SeedData
  <2>2. WorkspaceTypeOK'
    BY <2>1, WorkspaceAssumption
    DEF WorkspaceTypeOK, FetchTypeOK, admin, dashboard, fetchVars, Tiers
  <2>3. OneUpgradeHere' /\ PlanAsChosen' /\ NewestIsChosen'
    BY <2>1 DEF OneUpgradeHere, PlanAsChosen, NewestIsChosen, admin
  <2>4. FiguresOfTenant' /\ RequestsOfTenant'
    BY <2>1 DEF FiguresOfTenant, RequestsOfTenant, dashboard, fetchVars, WorkspaceTypeOK
  <2> QED
    BY <2>2, <2>3, <2>4
<1>16. CASE UNCHANGED workVars
  BY <1>6, <1>16 DEF workVars, WorkspaceTypeOK, FetchTypeOK, store, admin, panel,
                     dashboard, fetchVars, history
<1> QED
  BY <1>1, <1>2, <1>3, <1>4, <1>5, <1>7, <1>8, <1>9, <1>10, <1>11, <1>12, <1>13, <1>14,
     <1>15, <1>16 DEF WorkspaceNext, AnalyticsEnds

\* WorkspaceInv holds in every state.
LEMMA WorkspaceInvariant == WorkspaceSpec => []WorkspaceInv
<1>1. WorkspaceInit => WorkspaceInv
  BY InitWorkspaceInv
<1>2. WorkspaceInv /\ [WorkspaceNext]_workVars => WorkspaceInv'
  BY StepWorkspaceInv
<1> QED
  BY <1>1, <1>2, PTL DEF WorkspaceSpec

-----------------------------------------------------------------------------

\* The types hold for any tenants: isUpgrading says just whether this page has
\* an upgrade under way (TenantAdmin.tsx).
THEOREM WorkspaceTypeCorrect == WorkspaceSpec => []WorkspaceTypeOK
<1>1. WorkspaceInv => WorkspaceTypeOK
  BY DEF WorkspaceInv
<1> QED
  BY <1>1, WorkspaceInvariant, PTL

\* One page never has two upgrades of its own under way (TenantAdmin.tsx).
THEOREM UpgradesAreSingle == WorkspaceSpec => []OneUpgradeHere
<1>1. WorkspaceInv => OneUpgradeHere
  BY DEF WorkspaceInv
<1> QED
  BY <1>1, WorkspaceInvariant, PTL

\* However many pages start upgrades and are left, the plan ends as the one
\* chosen last (handlePlanUpgrade).
THEOREM LastChoiceWins == WorkspaceSpec => []PlanAsChosen
<1>1. WorkspaceInv => PlanAsChosen
  BY DEF WorkspaceInv
<1> QED
  BY <1>1, WorkspaceInvariant, PTL

\* A dashboard shows no other tenant's figures unless the tenant was switched
\* under it (fetchAnalytics).
THEOREM FiguresAreOwn == WorkspaceSpec => []FiguresOfTenant
<1>1. WorkspaceInv => FiguresOfTenant
  BY DEF WorkspaceInv
<1> QED
  BY <1>1, WorkspaceInvariant, PTL

-----------------------------------------------------------------------------
(* The palette.                                                            *)

ScanStates == [matches : Nat, gaps : Nat]

\* What the loop does with a letter of the target.
Passed(q, acc, l) ==
    IF acc.matches = Len(q) THEN acc
    ELSE IF q[acc.matches + 1] = l THEN [acc EXCEPT !.matches = @ + 1]
    ELSE [acc EXCEPT !.gaps = @ + 1]

\* The loop goes over the target's letters, one after the other.
LEMMA Scanned ==
  ASSUME NEW q, NEW t \in Seq(Letters)
  PROVE  \E f \in [0..Len(t) -> ScanStates] :
            /\ f[0] = [matches |-> 0, gaps |-> 0]
            /\ \A n \in 0..Len(t) - 1 : f[n + 1] = Passed(q, f[n], t[n + 1])
            /\ Scan(q, t) = f[Len(t)]
<1> DEFINE S == DOMAIN t
           base == [matches |-> 0, gaps |-> 0]
           Top(s) == CHOOSE x \in s : \A y \in s : x >= y
           pick == [s \in SUBSET S |-> Top(s)]
           h == [x \in S |-> [a \in ScanStates |-> Passed(q, a, t[x])]]
           pass(g) == [s \in SUBSET S |->
                          IF s = {} THEN base ELSE Passed(q, g[s \ {Top(s)}], t[Top(s)])]
           iter == CHOOSE g : g = pass(g)
<1>1. S = 1..Len(t) /\ Len(t) \in Nat /\ IsFiniteSet(S)
  BY UpTo
<1>2. \A n \in 0..Len(t) - 1 : /\ Top(1..(n + 1)) = n + 1
                               /\ 1..(n + 1) \in SUBSET S /\ 1..(n + 1) # {}
                               /\ 1..(n + 1) \ {n + 1} = 1..n
  <2> SUFFICES ASSUME NEW n \in 0..Len(t) - 1
               PROVE  /\ Top(1..(n + 1)) = n + 1
                      /\ 1..(n + 1) \in SUBSET S /\ 1..(n + 1) # {}
                      /\ 1..(n + 1) \ {n + 1} = 1..n
    OBVIOUS
  <2>1. n + 1 \in 1..(n + 1) /\ \A y \in 1..(n + 1) : n + 1 >= y
    OBVIOUS
  <2>2. Top(1..(n + 1)) \in 1..(n + 1) /\ \A y \in 1..(n + 1) : Top(1..(n + 1)) >= y
    BY <2>1, Zenon
  <2>3. Top(1..(n + 1)) = n + 1
    <3> HIDE DEF Top
    <3> QED
      BY <2>1, <2>2
  <2>4. 1..(n + 1) \ {n + 1} = 1..n /\ 1..(n + 1) # {}
    <3>1. n \in Nat
      BY <1>1
    <3>2. ASSUME NEW y \in 1..n PROVE y \in 1..(n + 1) /\ y # n + 1
      BY <3>1
    <3>3. ASSUME NEW y \in 1..(n + 1), y # n + 1 PROVE y \in 1..n
      BY <3>1, <3>3
    <3> QED
      BY <2>1, <3>2, <3>3
  <2>5. 1..(n + 1) \subseteq S
    <3> SUFFICES ASSUME NEW y \in 1..(n + 1) PROVE y \in 1..Len(t)
      BY <1>1
    <3> QED
      BY <1>1
  <2> QED
    BY <2>3, <2>4, <2>5, Zenon
<1>3. \A s \in SUBSET S : s # {} => Top(s) \in s
  <2> SUFFICES ASSUME NEW s \in SUBSET S, s # {} PROVE Top(s) \in s
    OBVIOUS
  <2>1. \E x \in s : \A y \in s : x >= y
    <3>1. IsFiniteSet(s) /\ \A x \in s : x \in Nat
      BY <1>1, FS_Subset
    <3> QED
      BY <3>1, Largest
  <2> QED
    BY <2>1, Zenon
<1>4. \A x \in S, a \in ScanStates : Passed(q, a, t[x]) \in ScanStates
  BY DEF Passed, ScanStates
<1>5. \E g \in [SUBSET S -> ScanStates] : g = pass(g)
  <2>1. base \in ScanStates
    BY DEF ScanStates
  <2>2. \A x \in S, a \in ScanStates : h[x][a] = Passed(q, a, t[x])
    OBVIOUS
  <2>3. \A s \in SUBSET S : pick[s] = Top(s)
    OBVIOUS
  <2> HIDE DEF base, pick, h, Top, S
  <2>4. h \in [S -> [ScanStates -> ScanStates]]
    BY <1>4 DEF h
  <2>5. \A s \in SUBSET S : s # {} => pick[s] \in s
    BY <1>3, <2>3
  <2>6. PICK g \in [SUBSET S -> ScanStates] : Folds(g, S, base, pick, h)
    <3>1. Foldable(S, ScanStates, base, pick, h)
      BY <1>1, <2>1, <2>4, <2>5 DEF Foldable
    <3> QED
      BY <3>1, FoldsExist
  <2>7. ASSUME NEW s \in SUBSET S, s # {}
        PROVE  g[s] = Passed(q, g[s \ {Top(s)}], t[Top(s)])
    <3>1. Top(s) \in S /\ s \ {Top(s)} \in SUBSET S
      BY <1>3, <2>7
    <3>2. g[s \ {Top(s)}] \in ScanStates
      BY <3>1
    <3>3. g[s] = h[Top(s)][g[s \ {Top(s)}]]
      BY <2>3, <2>6, <2>7 DEF Folds
    <3> QED
      BY <2>2, <3>1, <3>2, <3>3
  <2>8. g = pass(g)
    <3>1. \A s \in SUBSET S :
             g[s] = IF s = {} THEN base ELSE Passed(q, g[s \ {Top(s)}], t[Top(s)])
      BY <2>6, <2>7 DEF Folds
    <3> QED
      BY <3>1
  <2> QED
    BY <2>8
<1>6. iter = pass(iter)
  <2> HIDE DEF pass
  <2> QED
    BY <1>5, Zenon
<1>7. Scan(q, t) = iter[S]
  BY Zenon DEF Scan, FoldLeft, MapThenFoldSet, Max, Passed
<1> DEFINE f == [n \in 0..Len(t) |-> iter[1..n]]
<1> HIDE DEF iter, Top, base, S
<1>8. f[0] = base
  BY <1>1, <1>6
<1>9. \A n \in 0..Len(t) - 1 : f[n + 1] = Passed(q, f[n], t[n + 1])
  <2> SUFFICES ASSUME NEW n \in 0..Len(t) - 1
               PROVE  f[n + 1] = Passed(q, f[n], t[n + 1])
    OBVIOUS
  <2>1. f[n + 1] = iter[1..(n + 1)] /\ f[n] = iter[1..n]
    BY <1>1
  <2>2. iter[1..(n + 1)] = Passed(q, iter[1..n], t[n + 1])
    <3>1. iter[1..(n + 1)] = IF 1..(n + 1) = {} THEN base
                             ELSE Passed(q, iter[1..(n + 1) \ {Top(1..(n + 1))}],
                                         t[Top(1..(n + 1))])
      BY <1>2, <1>6
    <3> HIDE DEF pass
    <3> QED
      BY <1>2, <3>1
  <2> QED
    BY <2>1, <2>2
<1>10. \A n \in 0..Len(t) : f[n] \in ScanStates
  <2> DEFINE Y == {n \in Nat : n \in 0..Len(t) => f[n] \in ScanStates}
  <2> HIDE DEF f
  <2>1. 0 \in Y
    BY <1>1, <1>8 DEF base, ScanStates
  <2>2. ASSUME NEW n \in Nat, n \in Y PROVE n + 1 \in Y
    <3> SUFFICES ASSUME n + 1 \in 0..Len(t) PROVE f[n + 1] \in ScanStates
      OBVIOUS
    <3>1. n \in 0..Len(t) - 1 /\ n + 1 \in S /\ f[n] \in ScanStates
      BY <1>1, <2>2
    <3> QED
      BY <1>4, <1>9, <3>1
  <2>3. Nat \subseteq Y
    <3> HIDE DEF Y
    <3> QED
      BY <2>1, <2>2, Induction
  <2> QED
    BY <1>1, <2>3
<1>11. f \in [0..Len(t) -> ScanStates] /\ f[Len(t)] = iter[S]
  BY <1>1, <1>10
<1> HIDE DEF f
<1> QED
  BY <1>7, <1>8, <1>9, <1>11 DEF base
\* The first k letters of q are, in their order, among the first n of t.
Found(q, t, k, n) ==
    \E place \in [1..k -> 1..n] :
        /\ \A i \in 1..k : t[place[i]] = q[i]
        /\ \A i, j \in 1..k : i < j => place[i] < place[j]

\* One letter more, of the target or of both.
LEMMA FoundMore ==
  ASSUME NEW q, NEW t, NEW k \in Nat, NEW n \in Nat, Found(q, t, k, n)
  PROVE  /\ Found(q, t, k, n + 1)
         /\ t[n + 1] = q[k + 1] => Found(q, t, k + 1, n + 1)
<1>1. PICK place \in [1..k -> 1..n] :
         /\ \A i \in 1..k : t[place[i]] = q[i]
         /\ \A i, j \in 1..k : i < j => place[i] < place[j]
  BY DEF Found
<1>2. Found(q, t, k, n + 1)
  <2>1. place \in [1..k -> 1..(n + 1)]
    OBVIOUS
  <2> QED
    BY <1>1, <2>1 DEF Found
<1>3. ASSUME t[n + 1] = q[k + 1] PROVE Found(q, t, k + 1, n + 1)
  <2> DEFINE longer == [i \in 1..(k + 1) |-> IF i = k + 1 THEN n + 1 ELSE place[i]]
  <2>0. \A i \in 1..(k + 1) : i # k + 1 => i \in 1..k
    OBVIOUS
  <2>1. longer \in [1..(k + 1) -> 1..(n + 1)]
    BY <2>0
  <2>2. \A i \in 1..(k + 1) : t[longer[i]] = q[i]
    BY <1>1, <1>3, <2>0
  <2>3. ASSUME NEW i \in 1..(k + 1), NEW j \in 1..(k + 1), i < j
        PROVE  longer[i] < longer[j]
    <3>1. i \in 1..k /\ longer[i] = place[i] /\ place[i] \in 1..n
      BY <2>3
    <3>2. CASE j = k + 1
      BY <3>1, <3>2
    <3>3. CASE j # k + 1
      BY <1>1, <2>0, <2>3, <3>1, <3>3
    <3> QED
      BY <3>2, <3>3
  <2> HIDE DEF longer
  <2> QED
    BY <2>1, <2>2, <2>3 DEF Found
<1> QED
  BY <1>2, <1>3

\* One letter less, of both or, if they differ, of the target.
LEMMA FoundLess ==
  ASSUME NEW q, NEW t, NEW k \in Nat, NEW n \in Nat, Found(q, t, k + 1, n + 1)
  PROVE  /\ Found(q, t, k, n)
         /\ t[n + 1] # q[k + 1] => Found(q, t, k + 1, n)
<1>1. PICK place \in [1..(k + 1) -> 1..(n + 1)] :
         /\ \A i \in 1..(k + 1) : t[place[i]] = q[i]
         /\ \A i, j \in 1..(k + 1) : i < j => place[i] < place[j]
  BY DEF Found
<1>2. \A i \in 1..k : i \in 1..(k + 1) /\ place[i] \in 1..n
  <2> SUFFICES ASSUME NEW i \in 1..k PROVE i \in 1..(k + 1) /\ place[i] \in 1..n
    OBVIOUS
  <2>1. i \in 1..(k + 1) /\ k + 1 \in 1..(k + 1) /\ i < k + 1
    OBVIOUS
  <2>2. place[i] < place[k + 1] /\ place[i] \in 1..(n + 1) /\ place[k + 1] \in 1..(n + 1)
    BY <1>1, <2>1
  <2> QED
    BY <2>1, <2>2
<1>3. Found(q, t, k, n)
  <2> DEFINE shorter == [i \in 1..k |-> place[i]]
  <2>1. shorter \in [1..k -> 1..n] /\ \A i \in 1..k : shorter[i] = place[i]
    BY <1>2
  <2> HIDE DEF shorter
  <2>2. \A i \in 1..k : t[shorter[i]] = q[i]
    BY <1>1, <1>2, <2>1
  <2>3. \A i, j \in 1..k : i < j => shorter[i] < shorter[j]
    BY <1>1, <1>2, <2>1
  <2> QED
    BY <2>1, <2>2, <2>3 DEF Found
<1>4. ASSUME t[n + 1] # q[k + 1] PROVE Found(q, t, k + 1, n)
  <2>1. k + 1 \in 1..(k + 1)
    OBVIOUS
  <2>2. place[k + 1] # n + 1 /\ place[k + 1] \in 1..(n + 1)
    BY <1>1, <1>4, <2>1
  <2>3. place[k + 1] \in 1..n
    BY <2>2
  <2>4. \A i \in 1..(k + 1) : i = k + 1 \/ i \in 1..k
    OBVIOUS
  <2>5. \A i \in 1..(k + 1) : place[i] \in 1..n
    BY <1>2, <2>3, <2>4
  <2>6. place \in [1..(k + 1) -> 1..n]
    BY <2>5
  <2> QED
    BY <1>1, <2>6 DEF Found
<1> QED
  BY <1>3, <1>4

\* The one pass over the target finds the query's letters whenever they are
\* there in their order.
LEMMA ScanFinds ==
  ASSUME NEW q \in Seq(Letters), NEW t \in Seq(Letters)
  PROVE  /\ Scan(q, t) \in ScanStates
         /\ Scan(q, t).matches = Len(q) <=> InOrder(q, t)
         /\ Scan(q, t).matches <= Len(t)
<1>1. PICK f \in [0..Len(t) -> ScanStates] :
         /\ f[0] = [matches |-> 0, gaps |-> 0]
         /\ \A n \in 0..Len(t) - 1 : f[n + 1] = Passed(q, f[n], t[n + 1])
         /\ Scan(q, t) = f[Len(t)]
  BY Scanned
<1>2. Len(t) \in Nat /\ Len(q) \in Nat
  OBVIOUS
<1> DEFINE Most(n) == /\ f[n].matches <= Len(q) /\ f[n].matches <= n
                      /\ Found(q, t, f[n].matches, n)
                      /\ \A k \in 0..Len(q) : Found(q, t, k, n) => k <= f[n].matches
           X == {n \in Nat : n \in 0..Len(t) => Most(n)}
<1>3. 0 \in X
  <2>1. f[0].matches = 0
    BY <1>1
  <2>2. Found(q, t, 0, 0)
    <3>1. [i \in 1..0 |-> 0] \in [1..0 -> 1..0] /\ \A i \in 1..0 : FALSE
      OBVIOUS
    <3> QED
      BY <3>1 DEF Found
  <2>3. ASSUME NEW k \in 0..Len(q), Found(q, t, k, 0) PROVE k <= 0
    <3> SUFFICES ASSUME k > 0 PROVE FALSE
      BY <1>2
    <3>1. 1 \in 1..k
      BY <1>2
    <3>2. \E p \in [1..k -> 1..0] : TRUE
      BY <2>3 DEF Found
    <3> QED
      BY <3>1, <3>2
  <2> QED
    BY <1>2, <2>1, <2>2, <2>3
<1>4. ASSUME NEW n \in Nat, n \in X PROVE n + 1 \in X
  <2> SUFFICES ASSUME n + 1 \in 0..Len(t) PROVE Most(n + 1)
    OBVIOUS
  <2> DEFINE m == f[n].matches
  <2>1. n \in 0..Len(t) /\ n \in 0..Len(t) - 1 /\ n + 1 \in Nat
    BY <1>2
  <2>2. Most(n)
    BY <1>4, <2>1
  <2>3. f[n] \in ScanStates /\ m \in Nat
    BY <1>1, <2>1 DEF ScanStates
  <2>4. f[n + 1] = Passed(q, f[n], t[n + 1])
    BY <1>1, <2>1
  <2>5. \A k \in 0..Len(q) : Found(q, t, k, n + 1) =>
            k <= m + 1 /\ (t[n + 1] # q[m + 1] => k <= m)
    <3> SUFFICES ASSUME NEW k \in 0..Len(q), Found(q, t, k, n + 1), k # 0
                 PROVE  k <= m + 1 /\ (t[n + 1] # q[m + 1] => k <= m)
      BY <2>3
    <3>1. k - 1 \in 0..Len(q) /\ k - 1 \in Nat /\ (k - 1) + 1 = k /\ k \in Nat
      BY <1>2
    <3>2. /\ Found(q, t, k - 1, n)
          /\ t[n + 1] # q[(k - 1) + 1] => Found(q, t, (k - 1) + 1, n)
      BY <3>1, FoundLess
    <3>3. k - 1 <= m /\ (t[n + 1] # q[k] => k <= m)
      BY <2>2, <3>1, <3>2
    <3> HIDE DEF m
    <3>4. k <= m + 1 /\ (k = m + 1 \/ k <= m)
      BY <2>3, <3>1, <3>3
    <3> QED
      BY <3>3, <3>4
  <2>6. CASE m = Len(q)
    <3>1. f[n + 1] = f[n]
      BY <2>4, <2>6 DEF Passed
    <3>2. Found(q, t, m, n + 1)
      BY <2>2, <2>3, FoundMore
    <3>3. \A k \in 0..Len(q) : k <= m
      BY <1>2, <2>6
    <3>4. f[n + 1].matches = m
      BY <3>1
    <3>5. m <= Len(q) /\ m <= n + 1
      BY <2>2, <2>3
    <3> HIDE DEF m
    <3> QED
      BY <3>2, <3>3, <3>4, <3>5
  <2>7. CASE m # Len(q) /\ q[m + 1] = t[n + 1]
    <3>1. f[n + 1].matches = m + 1
      BY <2>3, <2>4, <2>7 DEF Passed, ScanStates
    <3>2. Found(q, t, m + 1, n + 1)
      BY <2>2, <2>3, <2>7, FoundMore
    <3>3. m + 1 <= Len(q) /\ m + 1 <= n + 1
      BY <1>2, <2>2, <2>3, <2>7
    <3> HIDE DEF m
    <3> QED
      BY <2>5, <3>1, <3>2, <3>3
  <2>8. CASE m # Len(q) /\ q[m + 1] # t[n + 1]
    <3>1. f[n + 1].matches = m
      BY <2>3, <2>4, <2>8 DEF Passed, ScanStates
    <3>2. Found(q, t, m, n + 1)
      BY <2>2, <2>3, FoundMore
    <3>3. m <= Len(q) /\ m <= n + 1
      BY <2>2, <2>3
    <3> HIDE DEF m
    <3> QED
      BY <2>5, <2>8, <3>1, <3>2, <3>3
  <2> QED
    BY <2>6, <2>7, <2>8
<1>5. Nat \subseteq X
  <2> HIDE DEF X
  <2> QED
    BY <1>3, <1>4, Induction
<1>6. Most(Len(t))
  BY <1>2, <1>5
<1>7. InOrder(q, t) <=> Found(q, t, Len(q), Len(t))
  <2>1. DOMAIN q = 1..Len(q) /\ DOMAIN t = 1..Len(t)
    OBVIOUS
  <2> QED
    BY <2>1 DEF InOrder, Found
<1>8. f[Len(t)] \in ScanStates /\ f[Len(t)].matches \in Nat
  BY <1>1, <1>2 DEF ScanStates
<1>9. f[Len(t)].matches = Len(q) <=> InOrder(q, t)
  <2>1. Len(q) \in 0..Len(q)
    BY <1>2
  <2>2. CASE f[Len(t)].matches = Len(q)
    BY <1>6, <1>7, <2>2
  <2>3. CASE InOrder(q, t)
    <3>1. Len(q) <= f[Len(t)].matches /\ f[Len(t)].matches <= Len(q)
      BY <1>6, <1>7, <2>1, <2>3
    <3>2. f[Len(t)].matches = Len(q)
      BY <1>2, <1>8, <3>1
    <3> QED
      BY <2>3, <3>2
  <2> QED
    BY <2>2, <2>3
<1> QED
  BY <1>1, <1>6, <1>8, <1>9

\* A term that contains the query has its letters in their order.
LEMMA IncludesInOrder ==
  ASSUME NEW q \in Seq(Letters), NEW t \in Seq(Letters), Includes(t, q)
  PROVE  InOrder(q, t)
<1>1. /\ Len(t) \in Nat /\ DOMAIN t = 1..Len(t) /\ t \in [1..Len(t) -> Letters]
      /\ Len(q) \in Nat /\ DOMAIN q = 1..Len(q)
  OBVIOUS
<1>2. PICK i \in 0..(Len(t) - Len(q)) : SubSeq(t, i + 1, i + Len(q)) = q
  BY DEF Includes
<1>3. i \in Nat /\ i + Len(q) <= Len(t)
  BY <1>1
<1> DEFINE place == [j \in 1..Len(q) |-> i + j]
<1>4. place \in [1..Len(q) -> 1..Len(t)]
  BY <1>1, <1>3
<1>5. \A j \in 1..Len(q) : t[place[j]] = q[j]
  <2> SUFFICES ASSUME NEW j \in 1..Len(q) PROVE t[i + j] = q[j]
    OBVIOUS
  <2>1. SubSeq(t, i + 1, i + Len(q))[j] = t[(i + 1) + j - 1]
    BY <1>1, <1>3
  <2>2. (i + 1) + j - 1 = i + j
    BY <1>1, <1>3
  <2> QED
    BY <1>2, <2>1, <2>2
<1>6. \A j, k \in 1..Len(q) : j < k => place[j] < place[k]
  BY <1>1, <1>3
<1> HIDE DEF place
<1> QED
  BY <1>1, <1>4, <1>5, <1>6 DEF InOrder

\* A multiple divides without a rest.
LEMMA Multiples ==
  ASSUME NEW d \in Nat \ {0}, NEW n \in Nat
  PROVE  /\ n % d = 0 => \E w \in Nat : n = w * d
         /\ (n * d) \div d = n
<1>1. n % d = 0 => n = (n \div d) * d /\ n \div d \in Nat
  OBVIOUS
<1>2. (n * d) \div d = n
  OBVIOUS
<1> QED
  BY <1>1, <1>2

\* Terms score as the list promises: those with the query's letters in their
\* order and no others, and more than eight tenths if they contain the query.
LEMMA Scored ==
  ASSUME NEW q \in Seq(Letters), q # <<>>, NEW t \in Seq(Letters), t # <<>>,
         Scale % (10 * Len(t)) = 0
  PROVE  /\ FuzzyMatchScore(q, t) \in Int
         /\ FuzzyMatchScore(q, t) > 0 <=> InOrder(q, t)
         /\ Includes(t, q) <=> FuzzyMatchScore(q, t) > (8 * Scale) \div 10
<1> DEFINE k == Len(q)
           l == Len(t)
           gaps == Scan(q, t).gaps
           score == FuzzyMatchScore(q, t)
<1>1. k \in Nat \ {0} /\ l \in Nat \ {0}
  BY EmptySeq
<1>2. /\ gaps \in Nat /\ Scan(q, t).matches <= l
      /\ Scan(q, t).matches = k <=> InOrder(q, t)
  BY ScanFinds DEF ScanStates
<1>3. PICK w \in Nat : Scale = w * (10 * l)
  <2>1. 10 * l \in Nat \ {0}
    BY <1>1
  <2> QED
    BY <2>1, Multiples, PaletteAssumption
<1>4. w * l \in Nat \ {0} /\ Scale = 10 * (w * l) /\ w \in Nat \ {0}
  BY <1>1, <1>3, PaletteAssumption
<1>5. /\ Scale \div 10 = w * l /\ Scale \div 2 = 5 * (w * l)
      /\ (8 * Scale) \div 10 = 8 * (w * l) /\ (9 * Scale) \div 10 = 9 * (w * l)
      /\ Scale \div 100 \in Nat
  BY <1>4
<1>6. w * k \in Nat \ {0} /\ (k <= l => w * k <= w * l)
  BY <1>1, <1>4
<1>7. /\ (2 * Scale * k) \div (10 * l) = 2 * (w * k)
      /\ (3 * Scale * k) \div (10 * l) = 3 * (w * k)
  <2>0. \A x, y, z \in Nat : /\ 2 * (x * (10 * y)) * z = (2 * (x * z)) * (10 * y)
                             /\ 3 * (x * (10 * y)) * z = (3 * (x * z)) * (10 * y)
    OBVIOUS
  <2>1. 2 * Scale * k = (2 * (w * k)) * (10 * l) /\ 3 * Scale * k = (3 * (w * k)) * (10 * l)
    BY <1>1, <1>3, <2>0
  <2>2. 10 * l \in Nat \ {0} /\ 2 * (w * k) \in Nat /\ 3 * (w * k) \in Nat
    BY <1>1, <1>6
  <2> DEFINE d == 10 * l
             m == 2 * (w * k)
             n == 3 * (w * k)
  <2>3. (m * d) \div d = m /\ (n * d) \div d = n
    <3>1. d \in Nat \ {0} /\ m \in Nat /\ n \in Nat
      BY <2>2
    <3> HIDE DEF d, m, n
    <3> QED
      BY <3>1, Multiples
  <2> QED
    BY <2>1, <2>3
<1>8. CASE q = t
  <2>1. SubSeq(t, 0 + 1, 0 + Len(q)) = q
    BY <1>8
  <2>2. 0 \in 0..(Len(t) - Len(q))
    BY <1>1, <1>8
  <2>3. Includes(t, q)
    BY <2>1, <2>2 DEF Includes
  <2>4. score = Scale
    BY <1>8 DEF FuzzyMatchScore
  <2>5. InOrder(q, t)
    BY <2>3, IncludesInOrder
  <2>6. score \in Int /\ score > 0 /\ score > (8 * Scale) \div 10
    BY <1>4, <1>5, <2>4
  <2> HIDE DEF score
  <2> QED
    BY <2>3, <2>5, <2>6 DEF score
<1>9. CASE q # t /\ Includes(t, q)
  <2>1. score = 8 * (w * l) + 2 * (w * k)
    BY <1>5, <1>7, <1>9 DEF FuzzyMatchScore
  <2>2. InOrder(q, t)
    BY <1>9, IncludesInOrder
  <2> DEFINE a == w * l
             b == w * k
  <2>3. a \in Nat \ {0} /\ b \in Nat \ {0} /\ score = 8 * a + 2 * b
        /\ (8 * Scale) \div 10 = 8 * a
    BY <1>4, <1>5, <1>6, <2>1
  <2> HIDE DEF a, b, score
  <2>4. score \in Int /\ score > 0 /\ score > 8 * a
    BY <2>3
  <2> QED
    BY <1>9, <2>2, <2>3, <2>4 DEF score
<1>10. CASE q # t /\ ~Includes(t, q) /\ Scan(q, t).matches # k
  <2>1. score = 0
    BY <1>10 DEF FuzzyMatchScore
  <2>2. ~InOrder(q, t)
    BY <1>2, <1>10
  <2> DEFINE a == w * l
  <2>3. a \in Nat /\ (8 * Scale) \div 10 = 8 * a
    BY <1>4, <1>5
  <2> HIDE DEF a, score
  <2>4. score \in Int /\ ~(score > 0) /\ ~(score > 8 * a)
    BY <2>1, <2>3
  <2> QED
    BY <1>10, <2>2, <2>3, <2>4 DEF score
<1>11. CASE q # t /\ ~Includes(t, q) /\ Scan(q, t).matches = k
  <2>1. score = Clamp(5 * (w * l) + 3 * (w * k) - gaps * (Scale \div 100))
    BY <1>5, <1>7, <1>11 DEF FuzzyMatchScore
  <2>2. gaps * (Scale \div 100) \in Nat
    BY <1>2, <1>5
  <2>3. w * k <= w * l
    BY <1>1, <1>2, <1>6, <1>11
  <2> HIDE DEF score, k, l, gaps
  <2> DEFINE a == w * l
             b == w * k
             c == gaps * (Scale \div 100)
  <2>4. /\ a \in Nat \ {0} /\ b \in Nat /\ c \in Nat /\ b <= a
        /\ score = IF 5 * a + 3 * b - c > 9 * a THEN 9 * a
                   ELSE IF 5 * a + 3 * b - c < a THEN a ELSE 5 * a + 3 * b - c
    BY <1>4, <1>5, <1>6, <2>1, <2>2, <2>3 DEF Clamp
  <2>5. (8 * Scale) \div 10 = 8 * a
    BY <1>5
  <2> HIDE DEF a, b, c
  <2>6. score \in Int /\ score > 0 /\ ~(score > 8 * a)
    BY <2>4
  <2>7. InOrder(q, t)
    BY <1>2, <1>11
  <2> QED
    BY <1>11, <2>5, <2>6, <2>7 DEF score
<1> QED
  BY <1>8, <1>9, <1>10, <1>11

\* What the palette lists for a query, of what score.
Scores(q) == [c \in DOMAIN Commands |-> IF q = <<>> THEN 1 ELSE Score(c, q)]
FoundFor(q) == {c \in DOMAIN Commands : Scores(q)[c] > 0}
ListFor(q) ==
    Arranged([c \in DOMAIN Commands |-> c], FoundFor(q), [c \in FoundFor(q) |-> -Scores(q)[c]])

\* The list holds the places of the commands found, each once, the best first.
LEMMA Ranked ==
  ASSUME NEW q \in Seq(Letters)
  PROVE  /\ Scores(q) \in [DOMAIN Commands -> Int]
         /\ ListFor(q) \in Seq(DOMAIN Commands) /\ Len(ListFor(q)) <= Len(Commands)
         /\ Range(ListFor(q)) = FoundFor(q)
         /\ \A i, j \in DOMAIN ListFor(q) :
               i < j => Scores(q)[ListFor(q)[i]] >= Scores(q)[ListFor(q)[j]]
<1> DEFINE D == DOMAIN Commands
           s == [c \in D |-> c]
           I == FoundFor(q)
           key == [c \in I |-> -Scores(q)[c]]
<1>1. Len(Commands) \in Nat /\ D = 1..Len(Commands) /\ s \in Seq(D) /\ DOMAIN s = D
  <2>1. Commands \in Seq(Range(Commands))
    BY PaletteAssumption
  <2> HIDE DEF s
  <2>2. Len(Commands) \in Nat /\ D = 1..Len(Commands)
    BY <2>1
  <2>3. s \in [1..Len(Commands) -> D] /\ DOMAIN s = D
    BY <2>2 DEF s
  <2> QED
    BY <2>2, <2>3
<1>2. Scores(q) \in [D -> Int]
  <2> SUFFICES ASSUME NEW c \in D PROVE (IF q = <<>> THEN 1 ELSE Score(c, q)) \in Int
    BY DEF Scores
  <2>1. CASE q = <<>>
    BY <2>1
  <2>2. CASE q # <<>>
    <3>1. \A t \in {Commands[c].name, Commands[c].category} :
             t \in Seq(Letters) /\ t # <<>> /\ Scale % (10 * Len(t)) = 0
      BY PaletteAssumption
    <3>2. /\ FuzzyMatchScore(q, Commands[c].name) \in Int
          /\ FuzzyMatchScore(q, Commands[c].category) \in Int
      BY <2>2, <3>1, Scored
    <3> QED
      BY <2>2, <3>2 DEF Score
  <2> QED
    BY <2>1, <2>2
<1>3. I \in SUBSET DOMAIN s /\ key \in [I -> Int]
  BY <1>1, <1>2 DEF FoundFor
<1>4. ListFor(q) = Arranged(s, I, key)
  BY DEF ListFor
<1> HIDE DEF s, I, key, D
<1> DEFINE order == Ordering(I, key)
<1>5. /\ ListFor(q) \in Seq(D)
      /\ Len(ListFor(q)) = Cardinality(I)
      /\ order \in [1..Cardinality(I) -> I]
      /\ \A n \in 1..Cardinality(I) : ListFor(q)[n] = s[order[n]]
      /\ {order[n] : n \in 1..Cardinality(I)} = I
      /\ \A m, n \in 1..Cardinality(I) : m < n => order[m] \in Before(I, key, order[n])
  <2>1. s \in Seq(D)
    BY <1>1
  <2>2. /\ Arranged(s, I, key) \in Seq(D)
        /\ Len(Arranged(s, I, key)) = Cardinality(I)
        /\ order \in [1..Cardinality(I) -> I]
    BY <2>1, <1>3, Ordered
  <2>3. \A n \in 1..Cardinality(I) : Arranged(s, I, key)[n] = s[order[n]]
    BY <2>1, <1>3, Ordered
  <2>4. {order[n] : n \in 1..Cardinality(I)} = I
    BY <2>1, <1>3, Ordered
  <2>5. \A m, n \in 1..Cardinality(I) : m < n => order[m] \in Before(I, key, order[n])
    BY <2>1, <1>3, Ordered
  <2> HIDE DEF order
  <2> QED
    BY <1>4, <2>2, <2>3, <2>4, <2>5
<1> HIDE DEF order
<1>6. Cardinality(I) <= Len(Commands)
  <2>1. IsFiniteSet(D) /\ Cardinality(D) = Len(Commands)
    BY <1>1, UpTo
  <2> QED
    BY <1>1, <1>3, <2>1, FS_Subset
<1>8. DOMAIN ListFor(q) = 1..Cardinality(I)
  BY <1>5
<1>9. \A n \in 1..Cardinality(I) : order[n] \in I /\ ListFor(q)[n] = order[n]
  <2>1. \A i \in I : s[i] = i
    BY <1>1, <1>3 DEF s
  <2> QED
    BY <1>5, <2>1
<1>10. Range(ListFor(q)) = I
  <2>1. Range(ListFor(q)) = {ListFor(q)[n] : n \in 1..Cardinality(I)}
    BY <1>8 DEF Range
  <2>2. \A i \in I : \E n \in 1..Cardinality(I) : ListFor(q)[n] = i
    BY <1>5, <1>9
  <2> QED
    BY <1>9, <2>1, <2>2
<1>11. ASSUME NEW m \in DOMAIN ListFor(q), NEW n \in DOMAIN ListFor(q), m < n
       PROVE  Scores(q)[ListFor(q)[m]] >= Scores(q)[ListFor(q)[n]]
  <2>1. order[m] \in I /\ order[n] \in I /\ order[m] \in Before(I, key, order[n])
    BY <1>5, <1>8, <1>9, <1>11
  <2>2. key[order[m]] <= key[order[n]]
    BY <1>3, <2>1 DEF Before
  <2>3. /\ key[order[m]] = -Scores(q)[order[m]] /\ key[order[n]] = -Scores(q)[order[n]]
        /\ Scores(q)[order[m]] \in Int /\ Scores(q)[order[n]] \in Int
    BY <1>1, <1>2, <1>3, <2>1 DEF key
  <2> QED
    BY <1>8, <1>9, <1>11, <2>2, <2>3
<1> QED
  BY <1>2, <1>5, <1>6, <1>10, <1>11 DEF D, I

\* A term goes to the front of the recent searches, once, and no more of them
\* are kept.
LEMMA Added ==
  ASSUME NEW T, NEW r \in Seq(T), IsInjective(r), NEW term \in T, NEW max \in Nat \ {0}
  PROVE  LET kept == <<term>> \o InPlace(r, {i \in DOMAIN r : r[i] # term})
             new == SubSeq(kept, 1, IF Len(kept) < max THEN Len(kept) ELSE max)
         IN  new \in Seq(T) /\ Len(new) <= max /\ IsInjective(new)
<1> DEFINE kept == <<term>> \o InPlace(r, {i \in DOMAIN r : r[i] # term})
           z == IF Len(kept) < max THEN Len(kept) ELSE max
           new == SubSeq(kept, 1, z)
           I == {i \in DOMAIN r : r[i] # term}
           key == [i \in I |-> 0]
           rest == Arranged(r, I, key)
           order == Ordering(I, key)
<1>1. I \in SUBSET DOMAIN r /\ key \in [I -> Int]
  OBVIOUS
<1>2. kept = <<term>> \o rest
  BY DEF InPlace
<1> HIDE DEF I, key, kept, z, new
<1>3. /\ rest \in Seq(T) /\ Len(rest) = Cardinality(I)
      /\ order \in [1..Cardinality(I) -> I]
  <2>1. rest \in Seq(T) /\ Len(rest) = Cardinality(I)
    BY <1>1, ArrangedElements
  <2>2. order \in [1..Cardinality(I) -> I]
    BY <1>1, Ordered
  <2> QED
    BY <2>1, <2>2
<1>4. \A n \in 1..Cardinality(I) : rest[n] = r[order[n]]
  BY <1>1, Ordered
<1>5. \A m, n \in 1..Cardinality(I) : m < n => order[m] \in Before(I, key, order[n])
  BY <1>1, Ordered
<1> HIDE DEF rest, order
<1>6. \A n \in 1..Len(rest) : rest[n] # term
  BY <1>3, <1>4 DEF I
<1>7. \A m, n \in 1..Len(rest) : m < n => rest[m] # rest[n]
  <2> SUFFICES ASSUME NEW m \in 1..Len(rest), NEW n \in 1..Len(rest), m < n
               PROVE  rest[m] # rest[n]
    OBVIOUS
  <2>1. order[m] \in Before(I, key, order[n]) /\ order[m] \in I /\ order[n] \in I
    BY <1>3, <1>5
  <2>2. order[m] < order[n]
    BY <2>1 DEF Before, key
  <2>3. order[m] \in DOMAIN r /\ order[n] \in DOMAIN r /\ order[m] # order[n]
    BY <1>1, <2>1, <2>2
  <2> QED
    BY <1>3, <1>4, <2>3 DEF IsInjective
<1>8. /\ Len(rest) \in Nat /\ kept \in Seq(T) /\ Len(kept) = Len(rest) + 1
      /\ kept[1] = term /\ \A n \in 2..Len(kept) : n - 1 \in 1..Len(rest) /\ kept[n] = rest[n - 1]
  <2> DEFINE one == <<term>>
  <2>1. one \in Seq(T) /\ Len(one) = 1 /\ one[1] = term /\ Len(rest) \in Nat
    BY <1>3
  <2> HIDE DEF one
  <2>2. /\ kept \in Seq(T) /\ Len(kept) = 1 + Len(rest)
        /\ \A n \in 1..(1 + Len(rest)) :
              kept[n] = IF n <= 1 THEN one[n] ELSE rest[n - 1]
    <3>1. kept = one \o rest
      BY <1>2 DEF one
    <3>2. rest \in Seq(T)
      BY <1>3
    <3>3. /\ one \o rest \in Seq(T) /\ Len(one \o rest) = Len(one) + Len(rest)
          /\ \A n \in 1..(Len(one) + Len(rest)) :
                (one \o rest)[n] = IF n <= Len(one) THEN one[n] ELSE rest[n - Len(one)]
      BY <2>1, <3>2, ConcatProperties
    <3> QED
      BY <2>1, <3>1, <3>3
  <2>3. kept[1] = term
    BY <2>1, <2>2
  <2>4. ASSUME NEW n \in 2..Len(kept)
        PROVE  n - 1 \in 1..Len(rest) /\ kept[n] = rest[n - 1]
    <3>1. n \in 1..(1 + Len(rest)) /\ ~(n <= 1) /\ n - 1 \in 1..Len(rest)
      BY <2>1, <2>2
    <3> QED
      BY <2>2, <3>1
  <2> QED
    BY <2>1, <2>2, <2>3, <2>4
<1>9. \A m, n \in 1..Len(kept) : m < n => kept[m] # kept[n]
  <2> SUFFICES ASSUME NEW m \in 1..Len(kept), NEW n \in 1..Len(kept), m < n
               PROVE  kept[m] # kept[n]
    OBVIOUS
  <2>1. n \in 2..Len(kept) /\ n - 1 \in 1..Len(rest) /\ kept[n] = rest[n - 1]
    <3>1. n \in 2..Len(kept)
      BY <1>8
    <3> QED
      BY <1>8, <3>1
  <2>2. CASE m = 1
    BY <1>6, <1>8, <2>1, <2>2
  <2>3. CASE m # 1
    <3>1. m \in 2..Len(kept) /\ m - 1 < n - 1
      BY <1>8, <2>1, <2>3
    <3>2. m - 1 \in 1..Len(rest) /\ kept[m] = rest[m - 1]
      BY <1>8, <3>1
    <3> QED
      BY <1>7, <2>1, <3>1, <3>2
  <2> QED
    BY <2>2, <2>3
<1>10. z \in 1..Len(kept) /\ z <= max
  BY <1>8 DEF z
<1>11. new \in Seq(T) /\ Len(new) = z /\ \A n \in 1..z : new[n] = kept[n]
  BY <1>8, <1>10 DEF new
<1>12. ASSUME NEW m \in DOMAIN new, NEW n \in DOMAIN new, new[m] = new[n]
       PROVE  m = n
  <2>1. /\ m \in 1..Len(kept) /\ n \in 1..Len(kept)
        /\ new[m] = kept[m] /\ new[n] = kept[n]
    BY <1>8, <1>10, <1>11
  <2>2. ~(m < n) /\ ~(n < m)
    BY <1>9, <1>12, <2>1
  <2> QED
    BY <1>8, <2>1, <2>2
<1>13. IsInjective(new)
  BY <1>12 DEF IsInjective
<1> QED
  BY <1>10, <1>11, <1>13 DEF new, z, kept

\* Every term is a sequence of letters.
LEMMA Terms == Queries \union Names \subseteq Seq(Letters)
<1>1. Queries \subseteq Seq(Letters)
  BY PaletteAssumption, Bounded DEF Queries
<1>2. Names \subseteq Seq(Letters)
  BY PaletteAssumption DEF Names
<1> QED
  BY <1>1, <1>2

\* What the palette lists.
LEMMA Filters ==
  ASSUME PaletteTypeOK
  PROVE  /\ FilteredCommands = ListFor(query)
         /\ FilteredCommands \in Seq(DOMAIN Commands)
         /\ Len(FilteredCommands) \in Nat /\ Len(FilteredCommands) <= Len(Commands)
<1>1. FilteredCommands = ListFor(query)
  BY DEF FilteredCommands, ListFor, FoundFor, Scores
<1>2. query \in Seq(Letters)
  BY Terms DEF PaletteTypeOK
<1>3. /\ FilteredCommands \in Seq(DOMAIN Commands)
      /\ Len(FilteredCommands) <= Len(Commands)
  BY <1>1, <1>2, Ranked
<1> QED
  BY <1>1, <1>3

\* Before the first layout PaletteInv holds.
LEMMA InitPaletteInv == PaletteInit => PaletteInv
<1> SUFFICES ASSUME PaletteInit PROVE PaletteInv
  OBVIOUS
<1>1. <<>> \in Queries
  <2>1. <<>> \in Seq(Letters) /\ Len(<<>>) <= MaxQuery /\ MaxQuery \in Nat
    BY PaletteAssumption
  <2> QED
    BY <2>1, Bounded DEF Queries
<1>2. 1 \in DOMAIN Commands
  BY PaletteAssumption
<1>3. <<>> \in Seq(Queries \union Names) /\ Len(<<>>) <= MaxRecent /\ IsInjective(<<>>)
  BY PaletteAssumption DEF IsInjective
<1>4. PaletteTypeOK
  BY <1>1, <1>2, <1>3 DEF PaletteInit, PaletteTypeOK
<1>5. FilteredCommands \in Seq(DOMAIN Commands)
  BY <1>4, Filters
<1>6. HighlightListed
  BY <1>5 DEF PaletteInit, HighlightListed
<1> QED
  BY <1>4, <1>6 DEF PaletteInv

\* A list that is not empty has a first place.
LEMMA FirstListed ==
  ASSUME NEW q \in Seq(Letters), ListFor(q) # <<>>
  PROVE  1 \in DOMAIN ListFor(q)
<1>1. ListFor(q) \in Seq(DOMAIN Commands)
  BY Ranked
<1> QED
  BY <1>1

\* The highlight on the first place, whatever is listed.
LEMMA HighlightFirst ==
  ASSUME PaletteTypeOK', activeIndex' = 1
  PROVE  HighlightListed'
<1>1. query' \in Seq(Letters)
  BY Terms DEF PaletteTypeOK
<1>2. FilteredCommands' = ListFor(query')
  BY DEF FilteredCommands, ListFor, FoundFor, Scores
<1> QED
  BY <1>1, <1>2, FirstListed DEF HighlightListed

\* The first place exists, and the empty query is one.
LEMMA BlankType == <<>> \in Queries /\ 1 \in DOMAIN Commands
<1>1. <<>> \in Seq(Letters) /\ Len(<<>>) <= MaxQuery /\ MaxQuery \in Nat
  BY PaletteAssumption
<1>2. <<>> \in Queries
  BY <1>1, Bounded DEF Queries
<1>3. 1 \in DOMAIN Commands
  BY PaletteAssumption
<1> QED
  BY <1>2, <1>3

\* The palette opens and closes, blank.
LEMMA BlankInv ==
  ASSUME PaletteInv, Blank, UNCHANGED recentSearches,
         paletteOpen' \in BOOLEAN, path' \in Paths \union {Outside},
         path' = Outside => ~paletteOpen'
  PROVE  PaletteInv'
<1>1. PaletteTypeOK'
  BY BlankType DEF PaletteInv, PaletteTypeOK, Blank
<1>2. HighlightListed'
  BY <1>1, HighlightFirst DEF Blank
<1> QED
  BY <1>1, <1>2 DEF PaletteInv

\* The list is that of the query, and so is the highlight on it.
LEMMA SameHighlightInv ==
  ASSUME PaletteInv, UNCHANGED highlight, recentSearches' \in {recentSearches, <<>>},
         paletteOpen' \in BOOLEAN, path' \in Paths \union {Outside},
         path' = Outside => ~paletteOpen'
  PROVE  PaletteInv'
<1>1. Len(<<>>) <= MaxRecent /\ IsInjective(<<>>) /\ <<>> \in Seq(Queries \union Names)
  BY PaletteAssumption DEF IsInjective
<1>2. PaletteTypeOK'
  BY <1>1 DEF PaletteInv, PaletteTypeOK, highlight
<1>3. FilteredCommands' = FilteredCommands
  BY DEF FilteredCommands, highlight
<1>4. HighlightListed'
  BY <1>3 DEF PaletteInv, HighlightListed, highlight
<1> QED
  BY <1>2, <1>4 DEF PaletteInv

\* A command is searched for from now on, and its page is opened.
LEMMA ChooseInv ==
  ASSUME PaletteInv, NEW c \in DOMAIN Commands, Choose(c)
  PROVE  PaletteInv'
<1> DEFINE term == IF query # <<>> THEN query ELSE Commands[c].name
           T == Queries \union Names
           kept == <<term>> \o InPlace(recentSearches,
                                     {i \in DOMAIN recentSearches : recentSearches[i] # term})
<1>1. term \in T
  BY DEF PaletteInv, PaletteTypeOK, Names
<1>2. /\ recentSearches \in Seq(T) /\ IsInjective(recentSearches)
      /\ MaxRecent \in Nat \ {0}
  BY PaletteAssumption DEF PaletteInv, PaletteTypeOK
<1>3. recentSearches' = SubSeq(kept, 1, IF Len(kept) < MaxRecent THEN Len(kept) ELSE MaxRecent)
  BY DEF Choose, AddSearch
<1>4. /\ recentSearches' \in Seq(T)
      /\ Len(recentSearches') <= MaxRecent /\ IsInjective(recentSearches')
  <2> HIDE DEF term, T
  <2> QED
    BY <1>1, <1>2, <1>3, Added
<1>5. path' \in Paths
  BY PaletteAssumption DEF Choose
<1>6. PaletteTypeOK'
  <2> HIDE DEF kept, term
  <2> QED
    BY <1>4, <1>5, BlankType, PaletteAssumption DEF PaletteTypeOK, Choose, Blank
<1>7. HighlightListed'
  BY <1>6, HighlightFirst DEF Choose, Blank
<1> QED
  BY <1>6, <1>7 DEF PaletteInv

\* The arrows and the mouse stay on the list.
LEMMA HighlightInv ==
  ASSUME PaletteInv, ArrowDown \/ ArrowUp \/ \E i \in DOMAIN FilteredCommands : Hover(i)
  PROVE  PaletteInv'
<1> DEFINE n == Len(FilteredCommands)
<1>1. /\ FilteredCommands \in Seq(DOMAIN Commands)
      /\ n \in Nat /\ n <= Len(Commands)
  BY Filters DEF PaletteInv
<1>2. /\ DOMAIN FilteredCommands = 1..n /\ (FilteredCommands # <<>> => n > 0)
      /\ DOMAIN Commands = 1..Len(Commands) /\ Len(Commands) \in Nat
      /\ activeIndex \in 1..Len(Commands)
  BY <1>1, PaletteAssumption DEF PaletteInv, PaletteTypeOK
<1>3. UNCHANGED <<query, path, paletteOpen, recentSearches>> /\ recalled' = FALSE
  BY DEF ArrowDown, ArrowUp, Hover
<1>4. activeIndex' \in 1..n
  <2>1. CASE ArrowDown
    <3>1. n > 0 /\ activeIndex' = (activeIndex % n) + 1
      BY <1>2, <2>1 DEF ArrowDown
    <3> HIDE DEF n
    <3> QED
      BY <1>1, <1>2, <3>1
  <2>2. CASE ArrowUp
    <3>1. n > 0 /\ activeIndex' = ((activeIndex - 2 + n) % n) + 1
      BY <1>2, <2>2 DEF ArrowUp
    <3> HIDE DEF n
    <3> QED
      BY <1>1, <1>2, <3>1
  <2>3. CASE \E i \in DOMAIN FilteredCommands : Hover(i)
    BY <1>2, <2>3 DEF Hover
  <2> QED
    BY <2>1, <2>2, <2>3
<1>5. activeIndex' \in DOMAIN Commands
  <2> HIDE DEF n
  <2> QED
    BY <1>1, <1>2, <1>4
<1>6. PaletteTypeOK'
  BY <1>3, <1>5 DEF PaletteInv, PaletteTypeOK
<1>7. FilteredCommands' = FilteredCommands
  BY <1>3 DEF FilteredCommands
<1>8. HighlightListed'
  BY <1>2, <1>4, <1>7 DEF HighlightListed
<1> QED
  BY <1>6, <1>8 DEF PaletteInv

\* Every step keeps PaletteInv.
LEMMA StepPaletteInv == PaletteInv /\ [PaletteNext]_paletteVars => PaletteInv'
<1> SUFFICES ASSUME PaletteInv, [PaletteNext]_paletteVars PROVE PaletteInv'
  OBVIOUS
<1>0. /\ path \in Paths \union {Outside} /\ paletteOpen \in BOOLEAN
      /\ path = Outside => ~paletteOpen
  BY DEF PaletteInv, PaletteTypeOK
<1>1. CASE TogglePalette
  BY <1>0, <1>1, BlankInv DEF TogglePalette
<1>2. CASE ClosePalette
  BY <1>0, <1>2, BlankInv DEF ClosePalette
<1>3. CASE ClearHistory
  BY <1>0, <1>3, SameHighlightInv DEF ClearHistory
<1>4. CASE ArrowDown \/ ArrowUp \/ \E i \in DOMAIN FilteredCommands : Hover(i)
  BY <1>4, HighlightInv
<1>5. CASE Enter \/ \E i \in DOMAIN FilteredCommands : Click(i)
  <2>1. FilteredCommands \in Seq(DOMAIN Commands)
    BY Filters DEF PaletteInv
  <2>2. \A i \in DOMAIN FilteredCommands : FilteredCommands[i] \in DOMAIN Commands
    BY <2>1, Listed
  <2> QED
    BY <1>5, <2>2, ChooseInv DEF Enter, Click
<1>6. ASSUME NEW q \in Queries, TypeQuery(q) PROVE PaletteInv'
  <2>1. PaletteTypeOK'
    BY <1>6, BlankType DEF TypeQuery, PaletteInv, PaletteTypeOK
  <2> QED
    BY <1>6, <2>1, HighlightFirst DEF TypeQuery, PaletteInv
<1>7. ASSUME NEW i \in DOMAIN recentSearches, SelectRecent(i) PROVE PaletteInv'
  <2>1. recentSearches[i] \in Queries \union Names
    BY Listed DEF PaletteInv, PaletteTypeOK
  <2>2. PaletteTypeOK'
    BY <1>7, <2>1 DEF SelectRecent, PaletteInv, PaletteTypeOK
  <2>3. HighlightListed'
    BY <1>7 DEF SelectRecent, HighlightListed
  <2> QED
    BY <2>2, <2>3 DEF PaletteInv
<1>8. ASSUME NEW p \in Shortcuts, Shortcut(p) PROVE PaletteInv'
  <2>1. p \in Paths \union {Outside}
    BY PaletteAssumption
  <2>2. CASE p = Outside
    BY <1>0, <1>8, <2>2, BlankInv DEF Shortcut
  <2>3. CASE p # Outside
    BY <1>0, <1>8, <2>1, <2>3, SameHighlightInv DEF Shortcut
  <2> QED
    BY <2>2, <2>3
<1>9. ASSUME NEW p \in Paths, FollowLink(p) PROVE PaletteInv'
  BY <1>0, <1>9, PaletteAssumption, SameHighlightInv DEF FollowLink
<1>10. CASE UNCHANGED paletteVars
  BY <1>0, <1>10, SameHighlightInv DEF paletteVars
<1> QED
  BY <1>1, <1>2, <1>3, <1>4, <1>5, <1>6, <1>7, <1>8, <1>9, <1>10 DEF PaletteNext

\* PaletteInv holds in every state.
LEMMA PaletteInvariant == PaletteSpec => []PaletteInv
  BY InitPaletteInv, StepPaletteInv, PTL DEF PaletteSpec

-----------------------------------------------------------------------------

\* The types hold for any commands, terms and shortcuts: the highlight is a
\* command's place, recent searches are each kept once, and no palette is open
\* outside its layout (CommandPalette).
THEOREM PaletteTypeCorrect == PaletteSpec => []PaletteTypeOK
<1>1. PaletteInv => PaletteTypeOK
  BY DEF PaletteInv
<1> QED
  BY <1>1, PaletteInvariant, PTL

\* While commands are listed one of them is highlighted, but for a recent search
\* just recalled (CommandPalette).
THEOREM HighlightIsListed == PaletteSpec => []HighlightListed
<1>1. PaletteInv => HighlightListed
  BY DEF PaletteInv
<1> QED
  BY <1>1, PaletteInvariant, PTL

\* Whatever the query and the terms, the palette lists those that have its
\* letters in their order and no others, and those that contain it first
\* (fuzzySearch).
THEOREM ResultsAreRanked == PaletteSpec => []ResultsRanked
<1>1. ASSUME PaletteTypeOK PROVE ListedMatches
  <2> SUFFICES ASSUME query # <<>>
               PROVE  Range(FilteredCommands) =
                        {c \in DOMAIN Commands :
                            InOrder(query, Commands[c].name) \/ InOrder(query, Commands[c].category)}
    BY DEF ListedMatches
  <2>1. query \in Seq(Letters) /\ FilteredCommands = ListFor(query)
    BY <1>1, Terms, Filters DEF PaletteTypeOK
  <2>2. Range(FilteredCommands) = FoundFor(query)
    BY <2>1, Ranked
  <2>3. ASSUME NEW c \in DOMAIN Commands
        PROVE  Scores(query)[c] > 0 <=> \/ InOrder(query, Commands[c].name)
                                        \/ InOrder(query, Commands[c].category)
    <3>1. \A t \in {Commands[c].name, Commands[c].category} :
             /\ FuzzyMatchScore(query, t) \in Int
             /\ FuzzyMatchScore(query, t) > 0 <=> InOrder(query, t)
      BY <2>1, PaletteAssumption, Scored
    <3>2. Scores(query)[c] = Score(c, query)
      BY DEF Scores
    <3> QED
      BY <3>1, <3>2 DEF Score
  <2> QED
    BY <2>2, <2>3 DEF FoundFor
<1>2. ASSUME PaletteTypeOK PROVE ContainingFirst
  <2> DEFINE has(c) == Includes(Commands[c].name, query) \/ Includes(Commands[c].category, query)
  <2> SUFFICES ASSUME NEW i \in DOMAIN FilteredCommands, NEW j \in DOMAIN FilteredCommands,
                      has(FilteredCommands[j]), ~has(FilteredCommands[i])
               PROVE  j < i
    BY DEF ContainingFirst
  <2>1. /\ query \in Seq(Letters) /\ FilteredCommands = ListFor(query)
        /\ FilteredCommands \in Seq(DOMAIN Commands)
    BY <1>2, Terms, Filters DEF PaletteTypeOK
  <2>2. FilteredCommands[i] \in DOMAIN Commands /\ FilteredCommands[j] \in DOMAIN Commands
    BY <2>1, Listed
  <2>3. query # <<>>
    <3> SUFFICES ASSUME query = <<>> PROVE has(FilteredCommands[i])
      OBVIOUS
    <3>1. Commands[FilteredCommands[i]].name \in Seq(Letters)
      BY <2>2, PaletteAssumption
    <3>2. \A t \in Seq(Letters) : Includes(t, <<>>)
      <4> SUFFICES ASSUME NEW t \in Seq(Letters) PROVE Includes(t, <<>>)
        OBVIOUS
      <4>1. SubSeq(t, 0 + 1, 0 + Len(<<>>)) = <<>> /\ 0 \in 0..(Len(t) - Len(<<>>))
        OBVIOUS
      <4> QED
        BY <4>1 DEF Includes
    <3> QED
      BY <3>1, <3>2
  <2> DEFINE bar == (8 * Scale) \div 10
  <2>4. ASSUME NEW c \in DOMAIN Commands
        PROVE  /\ Scores(query)[c] \in Int
               /\ has(c) <=> Scores(query)[c] > bar
    <3>1. \A t \in {Commands[c].name, Commands[c].category} :
             /\ FuzzyMatchScore(query, t) \in Int
             /\ Includes(t, query) <=> FuzzyMatchScore(query, t) > bar
      BY <2>1, <2>3, PaletteAssumption, Scored
    <3>2. Scores(query)[c] = Score(c, query)
      BY <2>3 DEF Scores
    <3>3. bar \in Int
      BY PaletteAssumption
    <3> HIDE DEF bar
    <3> QED
      BY <3>1, <3>2, <3>3 DEF Score
  <2>5. bar \in Int
    BY PaletteAssumption
  <2> HIDE DEF bar, has
  <2>6. ~(Scores(query)[FilteredCommands[i]] >= Scores(query)[FilteredCommands[j]])
    BY <2>2, <2>4, <2>5
  <2>7. ~(i < j) /\ i # j
    BY <2>1, <2>6, Ranked
  <2> QED
    BY <2>1, <2>7
<1>3. PaletteTypeOK => ResultsRanked
  BY <1>1, <1>2 DEF ResultsRanked
<1> QED
  BY <1>3, PaletteTypeCorrect, PTL

-----------------------------------------------------------------------------
(* The shell.                                                              *)

\* Before the first effects ShellInv holds.
LEMMA InitShellInv == ShellInit => ShellInv
<1> USE DEF ShellInit, Mounted
<1>1. ShellInit => ShellTypeOK
  <2>1. ShellInit => /\ errorCount \in 0..MaxErrors /\ retryCount \in 0..MaxRetries
                     /\ hides \in 0..MaxHides /\ step \in 0..Steps - 1
    BY ShellAssumption
  <2> QED
    BY <2>1 DEF ShellTypeOK
<1>2. ShellInit => BannerTruthful /\ TourEndsForGood /\ NothingBeforeEffects /\ TimerOfTour
  BY DEF BannerTruthful, TourEndsForGood, NothingBeforeEffects, TimerOfTour
<1>3. ShellInit => FlagsOnlyHide /\ ErrorsCounted
  BY ShellAssumption DEF FlagsOnlyHide, ErrorsCounted
<1> QED
  BY <1>1, <1>2, <1>3 DEF ShellInv

\* What a reload and the effects that follow it do.
LEMMA ReloadShellInv ==
  ASSUME ShellInv, HandleFullReload \/ RunEffects
  PROVE  ShellInv'
<1> USE DEF ShellInv, boundaries, flags, banner, tour, Mounted
<1>1. CASE HandleFullReload
  <2> USE <1>1, ShellAssumption DEF HandleFullReload, BannerMounts, TourMounts
  <2>1. ShellTypeOK'
    <3>1. /\ errorCount' \in 0..MaxErrors /\ retryCount' \in 0..MaxRetries
          /\ hides' \in 0..MaxHides /\ step' \in 0..Steps - 1
      OBVIOUS
    <3>2. isOnline' \in BOOLEAN
      BY DEF ShellTypeOK
    <3> QED
      BY <3>1, <3>2 DEF ShellTypeOK
  <2>2. BannerTruthful' /\ TourEndsForGood' /\ NothingBeforeEffects'
    BY DEF BannerTruthful, TourEndsForGood, NothingBeforeEffects
  <2>3. FlagsOnlyHide' /\ ErrorsCounted'
    BY DEF FlagsOnlyHide, ErrorsCounted
  <2>4. TimerOfTour'
    BY DEF TimerOfTour
  <2> QED
    BY <2>1, <2>2, <2>3, <2>4
<1>2. CASE RunEffects
  <2> USE <1>2 DEF RunEffects, StartsTour
  <2>0. tourTimer' \in BOOLEAN
    BY DEF ShellTypeOK
  <2>1. ShellTypeOK'
    BY <2>0 DEF ShellTypeOK, NothingBeforeEffects
  <2>2. BannerTruthful' /\ TourEndsForGood' /\ NothingBeforeEffects'
    BY DEF BannerTruthful, TourEndsForGood, NothingBeforeEffects
  <2>3. FlagsOnlyHide' /\ ErrorsCounted'
    BY DEF FlagsOnlyHide, ErrorsCounted
  <2>4. TimerOfTour'
    BY DEF TimerOfTour, NothingBeforeEffects, FlagsOnlyHide, Overlays
  <2> QED
    BY <2>1, <2>2, <2>3, <2>4
<1> QED
  BY <1>1, <1>2

\* Flags only take overlays away, and take the timers and the tour with them.
LEMMA FlagsShellInv ==
  ASSUME ShellInv, LoadFeatureFlags \/ ToggleTheme
  PROVE  ShellInv'
<1> USE DEF ShellInv, boundaries, flags, banner, tour, Mounted
<1>1. CASE LoadFeatureFlags
  <2> USE <1>1 DEF LoadFeatureFlags
  <2>1. ShellTypeOK'
    BY DEF ShellTypeOK
  <2>2. BannerTruthful' /\ TourEndsForGood' /\ NothingBeforeEffects'
    BY DEF BannerTruthful, TourEndsForGood, NothingBeforeEffects
  <2>3. FlagsOnlyHide' /\ ErrorsCounted'
    BY DEF FlagsOnlyHide, ErrorsCounted, ShellTypeOK
  <2>4. TimerOfTour'
    BY DEF TimerOfTour
  <2> QED
    BY <2>1, <2>2, <2>3, <2>4
<1>2. CASE ToggleTheme
  <2> USE <1>2 DEF ToggleTheme, BannerMounts, TourMounts
  <2>0. /\ "banner" \in drawn' => "banner" \in drawn
        /\ "tour" \in drawn' => "tour" \in drawn
    BY DEF FlagsOnlyHide
  <2>1. ShellTypeOK'
    <3>1. 0 \in 0..MaxHides /\ 0 \in 0..Steps - 1
      BY ShellAssumption
    <3>2. /\ isOnline' \in BOOLEAN /\ showStatus' \in BOOLEAN /\ missed' \in BOOLEAN
          /\ hides' \in 0..MaxHides
          /\ ~Mounted("banner")' => ~showStatus' /\ hides' = 0
      <4>1. CASE "banner" \in enabled
        BY <4>1, Zenon DEF ShellTypeOK
      <4>2. CASE "banner" \notin enabled
        BY <3>1, <4>2, Zenon DEF ShellTypeOK
      <4> QED
        BY <4>1, <4>2
    <3>3. /\ step' \in 0..Steps - 1 /\ visible' \in BOOLEAN /\ tourTimer' \in BOOLEAN
          /\ visible' => Mounted("tour")' /\ ~tourTimer'
      <4>1. CASE "tour" \in enabled
        BY <4>1, Zenon DEF ShellTypeOK
      <4>2. CASE "tour" \notin enabled
        BY <3>1, <4>2, Zenon DEF ShellTypeOK
      <4> QED
        BY <4>1, <4>2
    <3>4. /\ hasError' \in BOOLEAN /\ errorCount' \in 0..MaxErrors
          /\ pageError' \in BOOLEAN /\ retryCount' \in 0..MaxRetries
          /\ hasError' => errorCount' > 0 /\ ~pageError'
          /\ ready' \in BOOLEAN /\ flagsAsked' \in BOOLEAN
          /\ enabled' \subseteq Overlays /\ drawn' \subseteq Overlays
          /\ online' \in BOOLEAN /\ tourDone' \in BOOLEAN /\ completed' \in BOOLEAN
      BY Zenon DEF ShellTypeOK
    <3> QED
      BY <3>2, <3>3, <3>4, Zenon DEF ShellTypeOK
  <2>2. BannerTruthful'
    BY DEF BannerTruthful, FlagsOnlyHide
  <2>3. TourEndsForGood' /\ NothingBeforeEffects'
    BY DEF TourEndsForGood, NothingBeforeEffects
  <2>4. FlagsOnlyHide' /\ ErrorsCounted'
    BY DEF FlagsOnlyHide, ErrorsCounted
  <2>5. TimerOfTour'
    BY DEF TimerOfTour
  <2> QED
    BY <2>1, <2>2, <2>3, <2>4, <2>5
<1> QED
  BY <1>1, <1>2

\* The boundaries: an error unmounts the overlays, a retry mounts them anew.
LEMMA BoundariesShellInv ==
  ASSUME ShellInv, PageThrows \/ HandleRetry \/ OverlayThrows \/ HandleRetryInPlace
  PROVE  ShellInv'
<1> USE DEF ShellInv, boundaries, flags, banner, tour, Mounted
<1>1. CASE PageThrows \/ HandleRetry
  <2> USE <1>1 DEF PageThrows, HandleRetry
  <2>1. ShellTypeOK'
    <3>1. retryCount' \in 0..MaxRetries
      BY ShellAssumption DEF ShellTypeOK
    <3>2. pageError' \in BOOLEAN /\ (hasError => ~pageError')
      BY DEF ShellTypeOK
    <3> QED
      BY <3>1, <3>2 DEF ShellTypeOK
  <2>2. BannerTruthful' /\ TourEndsForGood' /\ NothingBeforeEffects'
    BY DEF BannerTruthful, TourEndsForGood, NothingBeforeEffects
  <2>3. FlagsOnlyHide' /\ ErrorsCounted'
    BY DEF FlagsOnlyHide, ErrorsCounted
  <2>4. TimerOfTour'
    BY DEF TimerOfTour
  <2> QED
    BY <2>1, <2>2, <2>3, <2>4
<1>2. CASE OverlayThrows
  <2> USE <1>2 DEF OverlayThrows, BannerMounts, TourMounts
  <2>1. ShellTypeOK'
    <3>1. errorCount' \in 0..MaxErrors /\ errorCount' > 0
      BY ShellAssumption DEF ShellTypeOK, ErrorsCounted
    <3>2. retryCount' \in 0..MaxRetries /\ hides' \in 0..MaxHides /\ step' \in 0..Steps - 1
      BY ShellAssumption
    <3>3. isOnline' \in BOOLEAN
      BY DEF ShellTypeOK
    <3> QED
      BY <3>1, <3>2, <3>3 DEF ShellTypeOK
  <2>2. BannerTruthful' /\ TourEndsForGood' /\ NothingBeforeEffects'
    BY DEF BannerTruthful, TourEndsForGood, NothingBeforeEffects
  <2>3. FlagsOnlyHide' /\ ErrorsCounted'
    BY DEF FlagsOnlyHide, ErrorsCounted
  <2>4. TimerOfTour'
    BY DEF TimerOfTour
  <2> QED
    BY <2>1, <2>2, <2>3, <2>4
<1>3. CASE HandleRetryInPlace
  <2> USE <1>3 DEF HandleRetryInPlace, BannerMounts, TourMounts, StartsTour
  <2>0. tourTimer' \in BOOLEAN /\ (tourTimer' => "tour" \in drawn /\ ~tourDone)
    BY DEF ShellTypeOK
  <2>1. ShellTypeOK'
    <3>1. hides' \in 0..MaxHides /\ step' \in 0..Steps - 1
      BY ShellAssumption
    <3>2. isOnline' \in BOOLEAN
      BY DEF ShellTypeOK
    <3> QED
      BY <2>0, <3>1, <3>2 DEF ShellTypeOK
  <2>2. BannerTruthful' /\ TourEndsForGood' /\ NothingBeforeEffects'
    BY <2>0 DEF BannerTruthful, TourEndsForGood, NothingBeforeEffects
  <2>3. FlagsOnlyHide' /\ ErrorsCounted'
    BY DEF FlagsOnlyHide, ErrorsCounted
  <2>4. TimerOfTour'
    BY <2>0 DEF TimerOfTour
  <2> QED
    BY <2>1, <2>2, <2>3, <2>4
<1> QED
  BY <1>1, <1>2, <1>3

\* The banner hears what the connection does, or is known to have missed it.
LEMMA BannerShellInv ==
  ASSUME ShellInv, HandleOffline \/ HandleOnline \/ HideTimer
  PROVE  ShellInv'
<1> USE DEF ShellInv, boundaries, flags, banner, tour, Mounted, Listens
<1>0. /\ UNCHANGED <<boundaries, ready, flags, drawn, tour, tourDone, completed>>
  BY DEF HandleOffline, HandleOnline, HideTimer
<1>1. /\ online' \in BOOLEAN /\ isOnline' \in BOOLEAN /\ showStatus' \in BOOLEAN
      /\ missed' \in BOOLEAN
  <2>1. CASE HandleOffline
    BY <2>1 DEF HandleOffline, ShellTypeOK
  <2>2. CASE HandleOnline
    BY <2>2 DEF HandleOnline, ShellTypeOK
  <2>3. CASE HideTimer
    BY <2>3 DEF HideTimer, ShellTypeOK
  <2> QED
    BY <2>1, <2>2, <2>3
<1>2. hides' \in 0..MaxHides /\ (~Mounted("banner") => ~showStatus' /\ hides' = 0)
  BY ShellAssumption DEF HandleOffline, HandleOnline, HideTimer, ShellTypeOK
<1>3. ShellTypeOK'
  BY <1>0, <1>1, <1>2 DEF ShellTypeOK
<1>4. BannerTruthful'
  <2>1. CASE HandleOffline
    BY <2>1 DEF HandleOffline, BannerTruthful, ShellTypeOK
  <2>2. CASE HandleOnline
    BY <2>2 DEF HandleOnline, BannerTruthful, ShellTypeOK
  <2>3. CASE HideTimer
    BY <2>3 DEF HideTimer, BannerTruthful
  <2> QED
    BY <2>1, <2>2, <2>3
<1>5. TourEndsForGood' /\ NothingBeforeEffects'
  BY <1>0 DEF TourEndsForGood, NothingBeforeEffects
<1>6. FlagsOnlyHide' /\ ErrorsCounted' /\ TimerOfTour'
  BY <1>0 DEF FlagsOnlyHide, ErrorsCounted, TimerOfTour
<1> QED
  BY <1>3, <1>4, <1>5, <1>6

\* The tour: whatever ends it is remembered, and no timer is left to show it.
LEMMA TourShellInv ==
  ASSUME ShellInv, TourTimer \/ HandleNext \/ SkipTour
  PROVE  ShellInv'
<1> USE DEF ShellInv, boundaries, flags, banner, tour, Mounted, HandleComplete
<1>1. ShellTypeOK'
  <2>1. CASE TourTimer
    BY <2>1 DEF TourTimer, ShellTypeOK, TimerOfTour
  <2>2. CASE HandleNext \/ SkipTour
    <3>1. step' \in 0..Steps - 1
      BY <2>2, ShellAssumption DEF HandleNext, SkipTour, ShellTypeOK
    <3>2. /\ visible' \in BOOLEAN /\ tourDone' \in BOOLEAN /\ completed' \in BOOLEAN
          /\ visible' => visible
      BY <2>2 DEF HandleNext, SkipTour, ShellTypeOK
    <3>3. UNCHANGED <<boundaries, ready, flags, drawn, online, banner, tourTimer>>
      BY <2>2 DEF HandleNext, SkipTour
    <3> QED
      BY <3>1, <3>2, <3>3 DEF ShellTypeOK
  <2> QED
    BY <2>1, <2>2
<1>2. BannerTruthful' /\ FlagsOnlyHide' /\ ErrorsCounted'
  BY DEF TourTimer, HandleNext, SkipTour, BannerTruthful, FlagsOnlyHide, ErrorsCounted
<1>3. TourEndsForGood'
  BY DEF TourTimer, HandleNext, SkipTour, TourEndsForGood, TimerOfTour
<1>4. NothingBeforeEffects' /\ TimerOfTour'
  BY DEF TourTimer, HandleNext, SkipTour, NothingBeforeEffects, TimerOfTour, ShellTypeOK
<1> QED
  BY <1>1, <1>2, <1>3, <1>4

\* Every step keeps ShellInv.
LEMMA StepShellInv == ShellInv /\ [ShellNext]_shellVars => ShellInv'
<1> SUFFICES ASSUME ShellInv, [ShellNext]_shellVars PROVE ShellInv'
  OBVIOUS
<1>1. CASE UNCHANGED shellVars
  BY <1>1 DEF shellVars, boundaries, flags, banner, tour, ShellInv, ShellTypeOK,
              BannerTruthful, TourEndsForGood, FlagsOnlyHide, NothingBeforeEffects,
              ErrorsCounted, TimerOfTour, Mounted
<1> QED
  BY <1>1, ReloadShellInv, FlagsShellInv, BoundariesShellInv, BannerShellInv, TourShellInv
  DEF ShellNext

\* ShellInv holds in every state.
LEMMA ShellInvariant == ShellSpec => []ShellInv
  BY InitShellInv, StepShellInv, PTL DEF ShellSpec

\* The types hold for any number of steps, retries and errors: a boundary's
\* count stays within its bound, and the tour is on the screen only while App
\* draws it (ErrorBoundary, RetryBoundary, OnboardingTour).
THEOREM ShellTypeCorrect == ShellSpec => []ShellTypeOK
<1>1. ShellInv => ShellTypeOK
  BY DEF ShellInv
<1> QED
  BY <1>1, ShellInvariant, PTL

\* However often an error, a reload or a flag has replaced the banner, it says
\* what the browser says, unless the change came before its effects
\* (OfflineBanner).
THEOREM BannerIsTruthful == ShellSpec => []BannerTruthful
<1>1. ShellInv => BannerTruthful
  BY DEF ShellInv
<1> QED
  BY <1>1, ShellInvariant, PTL

\* No mount of the tour shows it again to who has ended it (OnboardingTour).
THEOREM TourIsShownOnce == ShellSpec => []TourEndsForGood
<1>1. ShellInv => TourEndsForGood
  BY DEF ShellInv
<1> QED
  BY <1>1, ShellInvariant, PTL

-----------------------------------------------------------------------------
(* The four side by side.                                                  *)

\* Each keeps its types while the others stay as they are, for any values of the
\* constants of all four (the page on the screen is all that they share).
THEOREM TypesSideBySide == MCSpec => []TypesOK
<1> DEFINE AllInv == CheckoutInv /\ WorkspaceInv /\ PaletteInv /\ ShellInv
<1>1. MCInit => AllInv
  BY InitCheckoutInv, InitWorkspaceInv, InitPaletteInv, InitShellInv DEF MCInit
<1>2. AllInv /\ [MCNext]_<<vars, workVars, paletteVars, shellVars>> => AllInv'
  <2>1. [MCNext]_<<vars, workVars, paletteVars, shellVars>> =>
            [Next]_vars /\ [WorkspaceNext]_workVars /\ [PaletteNext]_paletteVars /\ [ShellNext]_shellVars
    BY DEF MCNext
  <2> QED
    BY <2>1, StepCheckoutInv, StepWorkspaceInv, StepPaletteInv, StepShellInv
<1>3. AllInv => TypesOK
  BY DEF TypesOK, CheckoutInv, WorkspaceInv, PaletteInv, ShellInv
<1> QED
  BY <1>1, <1>2, <1>3, PTL DEF MCSpec

=============================================================================
