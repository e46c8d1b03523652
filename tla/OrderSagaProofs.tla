--------------------------- MODULE OrderSagaProofs ---------------------------
(***************************************************************************)
(* Theorems about OrderSaga, for any orders, products, quantities, consumer *)
(* tasks and sweepers.                                                      *)
(***************************************************************************)
EXTENDS OrderSaga, FiniteSetTheorems, WellFoundedInduction, TLAPS

-----------------------------------------------------------------------------
(* Events.                                                                 *)

\* The events the handlers write are events.
LEMMA EventTypes ==
    ASSUME NEW o \in Orders
    PROVE  /\ \A t \in Types : Once(t, o) \in Event
           /\ \A n \in Nat : Ev("OrderCancelled", o, n) \in Event
  BY DEF Once, Ev, Event, Types

\* An event and the type and order it was written with.
LEMMA EventFields ==
    ASSUME NEW t, NEW o, NEW n
    PROVE  Ev(t, o, n).type = t /\ Ev(t, o, n).order = o /\ Ev(t, o, n).n = n
  BY DEF Ev

\* Events that differ in type or order are different.
LEMMA OnceInjective ==
    ASSUME NEW t, NEW o, NEW u, NEW q, NEW n
    PROVE  /\ Once(t, o) = Once(u, q) => t = u /\ o = q
           /\ Once(t, o) = Ev(u, q, n) => t = u /\ o = q
  BY DEF Once, Ev

-----------------------------------------------------------------------------
(* Steps that only add: what has been sent or processed stays so.          *)

\* What a status rests on is never taken away.
LEMMA StatusBackedMonotone ==
    ASSUME NEW o, NEW st, StatusBacked(o, st),
           sent \subseteq sent', orderInbox \subseteq orderInbox'
    PROVE  StatusBacked(o, st)'
  BY DEF StatusBacked, WasCancelled

\* Orders and handlers a step does not touch stay backed.
LEMMA UntouchedBacked ==
    ASSUME SagaInv, sent \subseteq sent', orderInbox \subseteq orderInbox'
    PROVE  /\ \A o \in Orders : status'[o] = status[o] => StatusBacked(o, status[o])'
           /\ \A w \in Workers : task'[w] = task[w] /\ seen'[w] = seen[w] => TaskBacked(w)'
           /\ \A w \in Workers : task'[w] = NoTask => TaskBacked(w)'
<1>1. ASSUME NEW o \in Orders, status'[o] = status[o] PROVE StatusBacked(o, status[o])'
  <2>1. StatusBacked(o, status[o])
    BY DEF SagaInv
  <2> QED BY <1>1, <2>1 DEF StatusBacked, WasCancelled
<1>2. ASSUME NEW w \in Workers, task'[w] = task[w], seen'[w] = seen[w] PROVE TaskBacked(w)'
  <2>1. TaskBacked(w)
    BY DEF SagaInv
  <2> QED BY <1>2, <2>1 DEF TaskBacked, StatusBacked, WasCancelled
<1>3. \A w \in Workers : task'[w] = NoTask => TaskBacked(w)'
  BY DEF TaskBacked
<1> QED BY <1>1, <1>2, <1>3

\* A step that sends nothing, charges nothing and moves no stock leaves the
\* other services' part of the invariant alone.
LEMMA OtherServicesAlone ==
    ASSUME SagaInv, UNCHANGED <<stockVars, payVars, sent>>
    PROVE  /\ IdsUnique' /\ OutcomesExclusive' /\ UnitsAccounted'
           /\ \A o \in Orders : EventsBacked(o)'
<1>1. stock' = stock /\ stockInbox' = stockInbox /\ charges' = charges /\ payInbox' = payInbox
  BY DEF stockVars, payVars
<1>2. IdsUnique' /\ UnitsAccounted'
  BY <1>1 DEF SagaInv, IdsUnique, UnitsAccounted
<1>3. OutcomesExclusive'
  BY <1>1 DEF SagaInv, OutcomesExclusive, WasReserved
<1>4. \A o \in Orders : EventsBacked(o)'
  BY <1>1 DEF SagaInv, EventsBacked, WasReserved
<1> QED BY <1>2, <1>3, <1>4

\* Compensating the orders of S sends OrderCancelled events and nothing else.
LEMMA CompensateOK ==
    ASSUME SagaInv, NEW S \in SUBSET Orders, Compensate(S), UNCHANGED <<stockVars, payVars>>
    PROVE  /\ IdsUnique' /\ OutcomesExclusive' /\ UnitsAccounted'
           /\ \A o \in Orders : EventsBacked(o)'
           /\ \A o \in S : WasCancelled(o)'
           /\ sent \subseteq sent' /\ sent' \subseteq Event
           /\ cancels' \in [Orders -> Nat]
           /\ \A o \in S : cancels'[o] > cancels[o]
<1>1. stock' = stock /\ stockInbox' = stockInbox /\ charges' = charges /\ payInbox' = payInbox
  BY DEF stockVars, payVars
<1>2. cancels \in [Orders -> Nat] /\ sent \subseteq Event
  BY DEF SagaInv, TypeOK
<1>3. sent \subseteq sent' /\ sent' \subseteq Event
  BY <1>2, EventTypes DEF Compensate
<1>4. ASSUME NEW t \in Types \ {"OrderCancelled"}, NEW o
      PROVE  Once(t, o) \in sent' <=> Once(t, o) \in sent
  BY <1>4, OnceInjective DEF Compensate
<1>5. IdsUnique'
  BY EventFields DEF SagaInv, IdsUnique, Compensate
<1>6. OutcomesExclusive'
  BY <1>1, <1>4 DEF SagaInv, OutcomesExclusive, WasReserved, Types, SagaTypes
<1>7. UnitsAccounted'
  BY <1>1 DEF SagaInv, UnitsAccounted
<1>8. \A o \in Orders : EventsBacked(o)'
  BY <1>1, <1>4 DEF SagaInv, EventsBacked, WasReserved, Types, SagaTypes
<1>9. \A o \in S : WasCancelled(o)'
  BY EventFields DEF WasCancelled, Compensate
<1>10. cancels' \in [Orders -> Nat] /\ \A o \in S : cancels'[o] > cancels[o]
  BY <1>2 DEF Compensate
<1> QED BY <1>3, <1>5, <1>6, <1>7, <1>8, <1>9, <1>10

\* Sending one event of a type that is sent once.
LEMMA SendOnce ==
    ASSUME SagaInv, NEW t \in Types \ {"OrderCancelled"}, NEW o \in Orders,
           sent' = sent \union {Once(t, o)}
    PROVE  /\ IdsUnique'
           /\ sent' \subseteq Event /\ sent \subseteq sent'
           /\ \A u, q : Once(u, q) \in sent' <=> Once(u, q) \in sent \/ (u = t /\ q = o)
<1>1. IdsUnique'
  BY EventFields DEF SagaInv, IdsUnique, Once
<1>2. sent' \subseteq Event
  BY EventTypes DEF SagaInv, TypeOK
<1>3. \A u, q : Once(u, q) \in sent' <=> Once(u, q) \in sent \/ (u = t /\ q = o)
  BY OnceInjective
<1> QED BY <1>1, <1>2, <1>3

-----------------------------------------------------------------------------
(* The order service's steps.                                              *)

\* create_order.
LEMMA CreateOrderOK ==
    ASSUME SagaInv, NEW o \in Orders, CreateOrder(o)
    PROVE  SagaInv'
<1>1. TypeOK
  BY DEF SagaInv
<1>2. "OrderCreated" \in Types \ {"OrderCancelled"}
  BY DEF Types, SagaTypes
<1>3. /\ IdsUnique'
      /\ sent' \subseteq Event /\ sent \subseteq sent'
      /\ \A u, q : Once(u, q) \in sent' <=>
             Once(u, q) \in sent \/ (u = "OrderCreated" /\ q = o)
  BY <1>2, SendOnce DEF CreateOrder
<1>4. stock' = stock /\ stockInbox' = stockInbox /\ charges' = charges /\ payInbox' = payInbox
  BY DEF CreateOrder, stockVars, payVars
<1>5. TypeOK'
  BY <1>1, <1>3, <1>4 DEF TypeOK, CreateOrder, stockVars, payVars, Statuses, Open
<1>6. OutcomesExclusive' /\ UnitsAccounted'
  BY <1>3, <1>4 DEF SagaInv, OutcomesExclusive, UnitsAccounted, WasReserved
<1>7. \A x \in Orders : EventsBacked(x)'
  BY <1>3, <1>4 DEF SagaInv, EventsBacked, WasReserved
<1>8. \A x \in Orders : StatusBacked(x, status[x])'
  <2>1. \A x \in Orders \ {o} : status'[x] = status[x]
    BY <1>1 DEF CreateOrder, TypeOK
  <2>2. status'[o] = "PENDING"
    BY <1>1 DEF CreateOrder, TypeOK
  <2>3. StatusBacked(o, status[o])'
    BY <2>2 DEF StatusBacked
  <2> QED BY <1>3, <2>1, <2>3, UntouchedBacked DEF CreateOrder
<1>9. \A w \in Workers : TaskBacked(w)'
  BY <1>3, UntouchedBacked DEF CreateOrder
<1> QED BY <1>3, <1>5, <1>6, <1>7, <1>8, <1>9 DEF SagaInv

\* A handler reads its order.
LEMMA ReadOrderOK ==
    ASSUME SagaInv, NEW w \in Workers, NEW e \in sent, ReadOrder(w, e)
    PROVE  SagaInv'
<1>1. TypeOK /\ e \in Event /\ e.order \in Orders
  BY DEF SagaInv, TypeOK, Event
<1>2. TypeOK'
  BY <1>1 DEF TypeOK, ReadOrder, stockVars, payVars
<1>3. /\ IdsUnique' /\ OutcomesExclusive' /\ UnitsAccounted'
      /\ \A o \in Orders : EventsBacked(o)'
  BY OtherServicesAlone DEF ReadOrder
<1>4. \A o \in Orders : StatusBacked(o, status[o])'
  BY UntouchedBacked DEF ReadOrder
<1>5. TaskBacked(w)'
  <2>1. task'[w] = e /\ seen'[w] = status[e.order] /\ e.type \in SagaTypes
    BY <1>1 DEF ReadOrder, TypeOK
  <2>2. StatusBacked(e.order, status[e.order])
    BY <1>1 DEF SagaInv
  <2>3. e \in sent' /\ orderInbox' = orderInbox /\ sent' = sent
    BY DEF ReadOrder
  <2> QED BY <2>1, <2>2, <2>3 DEF TaskBacked, StatusBacked, WasCancelled
<1>6. \A v \in Workers \ {w} : TaskBacked(v)'
  BY <1>1, UntouchedBacked DEF ReadOrder, TypeOK
<1> QED BY <1>2, <1>3, <1>4, <1>5, <1>6 DEF SagaInv

\* What is known of the task a handler commits.
LEMMA TaskFacts ==
    ASSUME SagaInv, NEW w \in Workers, NEW t \in SagaTypes, CommitInbox(w, t)
    PROVE  /\ task[w].order \in Orders
           /\ task[w] = Once(t, task[w].order)
           /\ task[w] \in sent /\ task[w] \notin orderInbox
           /\ task[w] \in orderInbox'
           /\ StatusBacked(task[w].order, seen[w])
<1>1. TypeOK /\ TaskBacked(w)
  BY DEF SagaInv
<1>2. /\ task[w] \in sent /\ task[w] \in Event /\ task[w].type = t
      /\ task[w].order \in Orders /\ task[w] \notin orderInbox
      /\ task[w] \in orderInbox'
      /\ StatusBacked(task[w].order, seen[w])
  BY <1>1 DEF CommitInbox, TaskBacked, TypeOK, Event
<1>3. task[w] = Once(t, task[w].order)
  BY <1>2 DEF SagaInv, IdsUnique, SagaTypes
<1> QED BY <1>2, <1>3

\* What every commit of a handler does, whatever it decides: the other tasks
\* and the other orders stay backed, and so does an order that is left alone.
LEMMA CommitInboxOK ==
    ASSUME SagaInv, NEW w \in Workers, NEW t \in SagaTypes, CommitInbox(w, t),
           NEW from \in SUBSET Statuses, NEW to \in Statuses, Transition(w, from, to),
           sent \subseteq sent', NEW x \in Orders, x = task[w].order,
           seen[w] \in from => StatusBacked(x, to)'
    PROVE  /\ task[w] = Once(t, x)
           /\ orderInbox' \subseteq sent'
           /\ status' \in [Orders -> Statuses]
           /\ task' \in [Workers -> Event \union {NoTask}]
           /\ seen' \in [Workers -> Statuses]
           /\ \A o \in Orders : StatusBacked(o, status[o])'
           /\ \A v \in Workers : TaskBacked(v)'
<1>1. TypeOK
  BY DEF SagaInv
<1>2. task[w] = Once(t, x) /\ task[w] \in sent
  BY TaskFacts
<1>4. orderInbox \subseteq orderInbox' /\ orderInbox' \subseteq sent'
  BY <1>1, <1>2 DEF CommitInbox, TypeOK
<1>5. /\ status' \in [Orders -> Statuses]
      /\ task' \in [Workers -> Event \union {NoTask}]
      /\ seen' \in [Workers -> Statuses]
  BY <1>1, <1>2 DEF CommitInbox, Transition, TypeOK, Statuses
<1>6. ASSUME NEW o \in Orders PROVE StatusBacked(o, status[o])'
  <2>1. CASE o = x /\ seen[w] \in from
    <3>1. status'[o] = to
      BY <1>1, <2>1 DEF Transition, TypeOK
    <3> QED BY <2>1, <3>1 DEF StatusBacked
  <2>2. CASE ~(o = x /\ seen[w] \in from)
    <3>1. status'[o] = status[o]
      BY <1>1, <2>2 DEF Transition, TypeOK
    <3> QED BY <1>4, <3>1, UntouchedBacked
  <2> QED BY <2>1, <2>2
<1>7. \A v \in Workers : TaskBacked(v)'
  <2>1. task'[w] = NoTask
    BY <1>1 DEF CommitInbox, TypeOK
  <2>2. \A v \in Workers \ {w} : task'[v] = task[v] /\ seen'[v] = seen[v]
    BY <1>1 DEF CommitInbox, TypeOK
  <2> QED BY <1>4, <2>1, <2>2, UntouchedBacked
<1> QED BY <1>2, <1>4, <1>5, <1>6, <1>7

\* A handler's commit that sends nothing.
LEMMA PlainHandlerOK ==
    ASSUME SagaInv, NEW w \in Workers, NEW t \in SagaTypes, CommitInbox(w, t),
           NEW from \in SUBSET Statuses, NEW to \in Statuses, Transition(w, from, to),
           NEW x \in Orders, x = task[w].order,
           seen[w] \in from => StatusBacked(x, to)',
           UNCHANGED <<cancels, sweep, stockVars, payVars, sent>>
    PROVE  SagaInv'
<1>1. /\ orderInbox' \subseteq sent'
      /\ status' \in [Orders -> Statuses]
      /\ task' \in [Workers -> Event \union {NoTask}]
      /\ seen' \in [Workers -> Statuses]
      /\ \A o \in Orders : StatusBacked(o, status[o])'
      /\ \A v \in Workers : TaskBacked(v)'
  BY CommitInboxOK
<1>2. TypeOK'
  BY <1>1 DEF SagaInv, TypeOK, stockVars, payVars
<1>3. /\ IdsUnique' /\ OutcomesExclusive' /\ UnitsAccounted'
      /\ \A o \in Orders : EventsBacked(o)'
  BY OtherServicesAlone
<1> QED BY <1>1, <1>2, <1>3 DEF SagaInv

\* _handle_inventory_reserved.
LEMMA HandleInventoryReservedOK ==
    ASSUME SagaInv, NEW w \in Workers, HandleInventoryReserved(w)
    PROVE  SagaInv'
<1> DEFINE x == task[w].order
<1>1. "InventoryReserved" \in SagaTypes /\ CommitInbox(w, "InventoryReserved")
  BY DEF SagaTypes, HandleInventoryReserved
<1>2. x \in Orders /\ Once("InventoryReserved", x) \in orderInbox'
  BY <1>1, TaskFacts
<1>3. PICK o \in Orders : o = x
  BY <1>2
<1>4. StatusBacked(o, "STOCK_RESERVED")'
  BY <1>2, <1>3 DEF StatusBacked
<1>5. {"PENDING"} \in SUBSET Statuses /\ "STOCK_RESERVED" \in Statuses
  BY DEF Statuses, Open
<1> QED BY <1>1, <1>3, <1>4, <1>5, PlainHandlerOK DEF HandleInventoryReserved

\* _handle_inventory_reserve_failed.
LEMMA HandleInventoryReserveFailedOK ==
    ASSUME SagaInv, NEW w \in Workers, HandleInventoryReserveFailed(w)
    PROVE  SagaInv'
<1> DEFINE x == task[w].order
<1>1. /\ "InventoryReserveFailed" \in SagaTypes /\ CommitInbox(w, "InventoryReserveFailed")
      /\ sent' = sent
  BY DEF SagaTypes, HandleInventoryReserveFailed
<1>2. x \in Orders /\ Once("InventoryReserveFailed", x) \in sent'
  BY <1>1, TaskFacts
<1>3. PICK o \in Orders : o = x
  BY <1>2
<1>4. StatusBacked(o, "CANCELLED_NO_STOCK")'
  BY <1>2, <1>3 DEF StatusBacked
<1>5. Open \in SUBSET Statuses /\ "CANCELLED_NO_STOCK" \in Statuses
  BY DEF Statuses, Settled
<1> QED BY <1>1, <1>3, <1>4, <1>5, PlainHandlerOK DEF HandleInventoryReserveFailed

\* _handle_payment_success.
LEMMA HandlePaymentSuccessOK ==
    ASSUME SagaInv, NEW w \in Workers, HandlePaymentSuccess(w)
    PROVE  SagaInv'
<1> DEFINE x == task[w].order
<1>1. /\ "PaymentSuccess" \in SagaTypes /\ CommitInbox(w, "PaymentSuccess")
      /\ sent' = sent
  BY DEF SagaTypes, HandlePaymentSuccess
<1>2. /\ x \in Orders /\ Once("PaymentSuccess", x) \in sent'
      /\ StatusBacked(x, seen[w])
  BY <1>1, TaskFacts
<1>3. PICK o \in Orders : o = x
  BY <1>2
<1>4. seen[w] \in {"STOCK_RESERVED"} => StatusBacked(o, "CONFIRMED")'
  BY <1>1, <1>2, <1>3 DEF StatusBacked, CommitInbox
<1>5. {"STOCK_RESERVED"} \in SUBSET Statuses /\ "CONFIRMED" \in Statuses
  BY DEF Statuses, Open, Settled
<1> QED BY <1>1, <1>3, <1>4, <1>5, PlainHandlerOK DEF HandlePaymentSuccess

\* _handle_payment_failed.
LEMMA HandlePaymentFailedOK ==
    ASSUME SagaInv, NEW w \in Workers, HandlePaymentFailed(w)
    PROVE  SagaInv'
<1> DEFINE S == IF seen[w] \in Open THEN {task[w].order} ELSE {}
<1>1. /\ "PaymentFailed" \in SagaTypes /\ CommitInbox(w, "PaymentFailed")
      /\ Transition(w, Open, "CANCELLED") /\ Compensate(S)
      /\ UNCHANGED <<sweep, stockVars, payVars>>
  BY DEF SagaTypes, HandlePaymentFailed
<1>2. PICK o \in Orders : o = task[w].order
  BY <1>1, TaskFacts
<1>3. S \in SUBSET Orders
  BY <1>2
<1>4. /\ IdsUnique' /\ OutcomesExclusive' /\ UnitsAccounted'
      /\ \A q \in Orders : EventsBacked(q)'
      /\ \A q \in S : WasCancelled(q)'
      /\ sent \subseteq sent' /\ sent' \subseteq Event
      /\ cancels' \in [Orders -> Nat]
  <2> HIDE DEF S
  <2> QED BY <1>1, <1>3, CompensateOK
<1>5. seen[w] \in Open => StatusBacked(o, "CANCELLED")'
  BY <1>2, <1>4 DEF StatusBacked
<1>6. Open \in SUBSET Statuses /\ "CANCELLED" \in Statuses
  BY DEF Statuses, Settled
<1>7. /\ orderInbox' \subseteq sent'
      /\ status' \in [Orders -> Statuses]
      /\ task' \in [Workers -> Event \union {NoTask}]
      /\ seen' \in [Workers -> Statuses]
      /\ \A q \in Orders : StatusBacked(q, status[q])'
      /\ \A v \in Workers : TaskBacked(v)'
  BY <1>1, <1>2, <1>4, <1>5, <1>6, CommitInboxOK
<1>8. TypeOK'
  BY <1>1, <1>4, <1>7 DEF SagaInv, TypeOK, stockVars, payVars
<1> QED BY <1>4, <1>7, <1>8 DEF SagaInv

\* A handler that rolls back.
LEMMA HandlerFailsOK ==
    ASSUME SagaInv, NEW w \in Workers, HandlerFails(w)
    PROVE  SagaInv'
<1>1. TypeOK
  BY DEF SagaInv
<1>2. TypeOK'
  BY <1>1 DEF TypeOK, HandlerFails, stockVars, payVars, Statuses
<1>3. /\ IdsUnique' /\ OutcomesExclusive' /\ UnitsAccounted'
      /\ \A o \in Orders : EventsBacked(o)'
  BY OtherServicesAlone DEF HandlerFails
<1>4. /\ task'[w] = NoTask
      /\ \A v \in Workers \ {w} : task'[v] = task[v] /\ seen'[v] = seen[v]
  BY <1>1 DEF HandlerFails, TypeOK
<1>5. /\ \A o \in Orders : StatusBacked(o, status[o])'
      /\ \A v \in Workers : TaskBacked(v)'
  BY <1>4, UntouchedBacked DEF HandlerFails
<1> QED BY <1>2, <1>3, <1>5 DEF SagaInv

\* The sweeper's read and its rollback.
LEMMA SweepQuietOK ==
    ASSUME SagaInv, sweep' \in [Sweepers -> SUBSET Orders],
           UNCHANGED <<status, cancels, task, seen, orderInbox, stockVars, payVars, sent>>
    PROVE  SagaInv'
<1>1. TypeOK'
  BY DEF SagaInv, TypeOK, stockVars, payVars
<1>2. /\ IdsUnique' /\ OutcomesExclusive' /\ UnitsAccounted'
      /\ \A o \in Orders : EventsBacked(o)'
  BY OtherServicesAlone
<1>3. /\ \A o \in Orders : StatusBacked(o, status[o])'
      /\ \A v \in Workers : TaskBacked(v)'
  BY UntouchedBacked
<1> QED BY <1>1, <1>2, <1>3 DEF SagaInv

\* The sweeper's commit.
LEMMA CommitSweepOK ==
    ASSUME SagaInv, NEW s \in Sweepers, CommitSweep(s)
    PROVE  SagaInv'
<1>1. TypeOK /\ sweep[s] \in SUBSET Orders
  BY DEF SagaInv, TypeOK
<1>2. PICK S \in SUBSET Orders : S = sweep[s]
  BY <1>1
<1>3. /\ IdsUnique' /\ OutcomesExclusive' /\ UnitsAccounted'
      /\ \A o \in Orders : EventsBacked(o)'
      /\ \A o \in S : WasCancelled(o)'
      /\ sent \subseteq sent' /\ sent' \subseteq Event
      /\ cancels' \in [Orders -> Nat]
  BY <1>2, CompensateOK DEF CommitSweep
<1>4. TypeOK'
  BY <1>1, <1>3 DEF TypeOK, CommitSweep, stockVars, payVars, Statuses, Settled
<1>5. \A o \in Orders : status'[o] = IF o \in S THEN "CANCELLED" ELSE status[o]
  BY <1>2 DEF CommitSweep
<1>6. ASSUME NEW o \in Orders PROVE StatusBacked(o, status[o])'
  <2>1. CASE o \in S
    BY <1>3, <1>5, <2>1 DEF StatusBacked
  <2>2. CASE o \notin S
    BY <1>3, <1>5, <2>2, UntouchedBacked DEF CommitSweep
  <2> QED BY <2>1, <2>2
<1>7. \A v \in Workers : TaskBacked(v)'
  BY <1>3, UntouchedBacked DEF CommitSweep
<1> QED BY <1>3, <1>4, <1>6, <1>7 DEF SagaInv

-----------------------------------------------------------------------------
(* The inventory and the payment service's steps.                          *)

\* A step outside the order service that sends events.
LEMMA OrdersAlone ==
    ASSUME SagaInv, UNCHANGED orderVars, sent \subseteq sent'
    PROVE  /\ \A o \in Orders : StatusBacked(o, status[o])'
           /\ \A w \in Workers : TaskBacked(w)'
  BY UntouchedBacked DEF orderVars

\* A whole item list is reserved, or a part of it released: units only move
\* between available and reserved, and neither goes below zero.
LEMMA LedgerKeepsUnits ==
    ASSUME SagaInv, NEW o \in Orders, NEW reached \in SUBSET Products,
           Ledger!Reserve(Items[o]) \/ Ledger!Release(Items[o], reached)
    PROVE  /\ UnitsAccounted'
           /\ stock' \in [Products -> [available: Int, reserved: Int]]
           /\ supplied' = supplied
<1> DEFINE Quantity == [available: Int, reserved: Int]
           OK(p, r) == /\ r \in Quantity
                       /\ r.available >= 0 /\ r.reserved >= 0
                       /\ r.available + r.reserved = Supply[p]
<1>1. ASSUME NEW p \in Products
      PROVE  Items[o][p] \in Nat /\ OK(p, stock[p])
  BY ItemsAssumption DEF SagaInv, TypeOK, UnitsAccounted
<1>2. CASE Ledger!Reserve(Items[o])
  <2>1. ASSUME NEW p \in Products PROVE OK(p, Ledger!Deducted(stock[p], Items[o][p]))
    <3>1. Ledger!Enough(stock[p], Items[o][p])
      BY <1>2 DEF Ledger!Reserve
    <3> QED BY <1>1, <3>1 DEF Ledger!Deducted, Ledger!Enough
  <2>2. /\ stock' = [p \in Products |-> Ledger!Deducted(stock[p], Items[o][p])]
        /\ supplied' = supplied
    BY <1>2 DEF Ledger!Reserve
  <2> QED BY <2>1, <2>2 DEF UnitsAccounted
<1>3. CASE Ledger!Release(Items[o], reached)
  <2>1. ASSUME NEW p \in Products PROVE OK(p, Ledger!Released(stock[p], Items[o][p]))
    BY <1>1 DEF Ledger!Released, Ledger!ReleaseQty
  <2>2. /\ stock' = [p \in Products |-> IF p \in reached
                                        THEN Ledger!Released(stock[p], Items[o][p])
                                        ELSE stock[p]]
        /\ supplied' = supplied
    BY <1>3 DEF Ledger!Release
  <2> QED BY <1>1, <2>1, <2>2 DEF UnitsAccounted
<1> QED BY <1>2, <1>3

\* One outcome of o's OrderCreatedEvent, which was not processed before.
LEMMA ReservationOutcomeOK ==
    ASSUME SagaInv, NEW o \in Orders,
           NEW t \in {"InventoryReserved", "InventoryReserveFailed"},
           Once("OrderCreated", o) \in sent \ stockInbox,
           stockInbox' = stockInbox \union {Once("OrderCreated", o)},
           sent' = sent \union {Once(t, o)},
           UnitsAccounted', stock' \in [Products -> [available: Int, reserved: Int]],
           supplied' = supplied, UNCHANGED <<orderVars, payVars>>
    PROVE  SagaInv'
<1>1. t \in Types \ {"OrderCancelled"}
  BY DEF Types, SagaTypes
<1>2. /\ IdsUnique'
      /\ sent' \subseteq Event /\ sent \subseteq sent'
      /\ \A u, q : Once(u, q) \in sent' <=> Once(u, q) \in sent \/ (u = t /\ q = o)
  BY <1>1, SendOnce
<1>3. charges' = charges /\ payInbox' = payInbox
  BY DEF payVars
<1>4. TypeOK'
  BY <1>2, <1>3 DEF SagaInv, TypeOK, orderVars
<1>5. ~WasReserved(o) /\ Once("InventoryReserveFailed", o) \notin sent
  BY DEF SagaInv, EventsBacked
<1>6. OutcomesExclusive'
  <2> SUFFICES ASSUME NEW x \in Orders
               PROVE  (/\ charges[x] <= 1
                       /\ charges[x] = 1 <=> Once("PaymentSuccess", x) \in sent
                       /\ ~(Once("PaymentSuccess", x) \in sent /\ Once("PaymentFailed", x) \in sent)
                       /\ ~(WasReserved(x) /\ Once("InventoryReserveFailed", x) \in sent)
                       /\ charges[x] = 1 => WasReserved(x))'
    BY DEF OutcomesExclusive
  <2>1. /\ charges[x] <= 1
        /\ charges[x] = 1 <=> Once("PaymentSuccess", x) \in sent
        /\ ~(Once("PaymentSuccess", x) \in sent /\ Once("PaymentFailed", x) \in sent)
        /\ ~(WasReserved(x) /\ Once("InventoryReserveFailed", x) \in sent)
        /\ charges[x] = 1 => WasReserved(x)
    BY DEF SagaInv, OutcomesExclusive
  <2> QED BY <1>2, <1>3, <1>5, <2>1 DEF WasReserved
<1>7. ASSUME NEW x \in Orders PROVE EventsBacked(x)'
  <2>1. EventsBacked(x)
    BY DEF SagaInv
  <2> QED BY <1>2, <1>3, <2>1 DEF EventsBacked, WasReserved
<1>8. /\ \A x \in Orders : StatusBacked(x, status[x])'
      /\ \A w \in Workers : TaskBacked(w)'
  BY <1>2, OrdersAlone
<1> QED BY <1>2, <1>4, <1>6, <1>7, <1>8 DEF SagaInv

\* The reservation succeeds.
LEMMA ReserveStockOK ==
    ASSUME SagaInv, NEW o \in Orders, ReserveStock(o)
    PROVE  SagaInv'
<1>1. /\ UnitsAccounted'
      /\ stock' \in [Products -> [available: Int, reserved: Int]]
      /\ supplied' = supplied
  BY LedgerKeepsUnits DEF ReserveStock
<1> QED BY <1>1, ReservationOutcomeOK DEF ReserveStock

\* The reservation runs out of stock.
LEMMA ReserveFailsOK ==
    ASSUME SagaInv, NEW o \in Orders, ReserveFails(o)
    PROVE  SagaInv'
<1>1. /\ UnitsAccounted'
      /\ stock' \in [Products -> [available: Int, reserved: Int]]
      /\ supplied' = supplied
  BY DEF ReserveFails, SagaInv, UnitsAccounted, TypeOK
<1> QED BY <1>1, ReservationOutcomeOK DEF ReserveFails

\* A compensation event releases stock.
LEMMA ReleaseStockOK ==
    ASSUME SagaInv, NEW e \in sent, NEW reached \in SUBSET Products,
           ReleaseStock(e, reached)
    PROVE  SagaInv'
<1>1. TypeOK /\ e.order \in Orders
  BY DEF SagaInv, TypeOK, Event
<1>2. PICK o \in Orders : o = e.order
  BY <1>1
<1>3. /\ UnitsAccounted'
      /\ stock' \in [Products -> [available: Int, reserved: Int]]
      /\ supplied' = supplied
  BY <1>2, LedgerKeepsUnits DEF ReleaseStock
<1>4. "InventoryReleased" \in Types \ {"OrderCancelled"}
  BY DEF Types, SagaTypes
<1>5. /\ IdsUnique'
      /\ sent' \subseteq Event /\ sent \subseteq sent'
      /\ \A u, q : u # "InventoryReleased" => (Once(u, q) \in sent' <=> Once(u, q) \in sent)
  <2>1. CASE sent' = sent
    BY <2>1 DEF SagaInv, IdsUnique, TypeOK
  <2>2. CASE sent' = sent \union {Once("InventoryReleased", o)}
    BY <1>4, <2>2, SendOnce
  <2> QED BY <1>2, <2>1, <2>2 DEF ReleaseStock
<1>6. charges' = charges /\ payInbox' = payInbox /\ stockInbox' = stockInbox \union {e}
  BY DEF ReleaseStock, payVars
<1>7. TypeOK'
  BY <1>1, <1>3, <1>5, <1>6 DEF TypeOK, orderVars, ReleaseStock
<1>8. OutcomesExclusive'
  BY <1>5, <1>6 DEF SagaInv, OutcomesExclusive, WasReserved
<1>9. \A x \in Orders : EventsBacked(x)'
  BY <1>5, <1>6 DEF SagaInv, EventsBacked, WasReserved
<1>10. /\ \A x \in Orders : StatusBacked(x, status[x])'
       /\ \A w \in Workers : TaskBacked(w)'
  BY <1>5, OrdersAlone DEF ReleaseStock
<1> QED BY <1>3, <1>5, <1>7, <1>8, <1>9, <1>10 DEF SagaInv

\* A payment, charged or declined.
LEMMA ProcessPaymentOK ==
    ASSUME SagaInv, NEW o \in Orders, ProcessPayment(o)
    PROVE  SagaInv'
<1>1. /\ Once("InventoryReserved", o) \in sent \ payInbox
      /\ payInbox' = payInbox \union {Once("InventoryReserved", o)}
      /\ UNCHANGED <<orderVars, stockVars>>
  BY DEF ProcessPayment
<1>2. TypeOK
  BY DEF SagaInv
<1>3. /\ Once("PaymentSuccess", o) \notin sent /\ Once("PaymentFailed", o) \notin sent
      /\ charges[o] = 0
  <2>1. Once("PaymentSuccess", o) \notin sent /\ Once("PaymentFailed", o) \notin sent
    BY <1>1 DEF SagaInv, EventsBacked
  <2>2. charges[o] \in Nat
    BY <1>2 DEF TypeOK
  <2>3. charges[o] <= 1 /\ charges[o] # 1
    BY <2>1 DEF SagaInv, OutcomesExclusive
  <2> QED BY <2>1, <2>2, <2>3
<1>4. PICK t \in {"PaymentSuccess", "PaymentFailed"} :
          /\ sent' = sent \union {Once(t, o)}
          /\ charges' = IF t = "PaymentSuccess" THEN [charges EXCEPT ![o] = @ + 1] ELSE charges
  <2>1. CASE o \in Declined
    BY <2>1 DEF ProcessPayment
  <2>2. CASE o \notin Declined
    BY <2>2 DEF ProcessPayment
  <2> QED BY <2>1, <2>2
<1>5. t \in Types \ {"OrderCancelled"}
  BY DEF Types, SagaTypes
<1>6. /\ IdsUnique'
      /\ sent' \subseteq Event /\ sent \subseteq sent'
      /\ \A u, q : Once(u, q) \in sent' <=> Once(u, q) \in sent \/ (u = t /\ q = o)
  BY <1>4, <1>5, SendOnce
<1>7. /\ charges' \in [Orders -> Nat]
      /\ \A x \in Orders \ {o} : charges'[x] = charges[x]
      /\ charges'[o] = IF t = "PaymentSuccess" THEN 1 ELSE 0
  BY <1>2, <1>3, <1>4 DEF TypeOK
<1>8. TypeOK' /\ UnitsAccounted'
  BY <1>1, <1>2, <1>6, <1>7 DEF SagaInv, TypeOK, UnitsAccounted, orderVars, stockVars
<1>9. OutcomesExclusive'
  <2> SUFFICES ASSUME NEW x \in Orders
               PROVE  (/\ charges[x] <= 1
                       /\ charges[x] = 1 <=> Once("PaymentSuccess", x) \in sent
                       /\ ~(Once("PaymentSuccess", x) \in sent /\ Once("PaymentFailed", x) \in sent)
                       /\ ~(WasReserved(x) /\ Once("InventoryReserveFailed", x) \in sent)
                       /\ charges[x] = 1 => WasReserved(x))'
    BY DEF OutcomesExclusive
  <2>1. /\ charges[x] <= 1
        /\ charges[x] = 1 <=> Once("PaymentSuccess", x) \in sent
        /\ ~(Once("PaymentSuccess", x) \in sent /\ Once("PaymentFailed", x) \in sent)
        /\ ~(WasReserved(x) /\ Once("InventoryReserveFailed", x) \in sent)
        /\ charges[x] = 1 => WasReserved(x)
    BY DEF SagaInv, OutcomesExclusive
  <2>2. CASE x = o
    BY <1>1, <1>3, <1>4, <1>6, <1>7, <2>1, <2>2 DEF WasReserved
  <2>3. CASE x # o
    BY <1>4, <1>6, <1>7, <2>1, <2>3 DEF WasReserved
  <2> QED BY <2>2, <2>3
<1>10. ASSUME NEW x \in Orders PROVE EventsBacked(x)'
  <2>1. EventsBacked(x) /\ stockInbox' = stockInbox
    BY <1>1 DEF SagaInv, stockVars
  <2> QED BY <1>1, <1>4, <1>6, <2>1 DEF EventsBacked, WasReserved
<1>11. /\ \A x \in Orders : StatusBacked(x, status[x])'
       /\ \A w \in Workers : TaskBacked(w)'
  BY <1>1, <1>6, OrdersAlone
<1> QED BY <1>6, <1>8, <1>9, <1>10, <1>11 DEF SagaInv

-----------------------------------------------------------------------------
(* The theorems.                                                           *)

\* The invariant holds initially.
LEMMA SagaInit == Init => SagaInv
<1> SUFFICES ASSUME Init PROVE SagaInv
  OBVIOUS
<1>1. TypeOK
  BY SupplyAssumption DEF Init, TypeOK, Statuses
<1>2. IdsUnique /\ OutcomesExclusive
  BY DEF Init, IdsUnique, OutcomesExclusive, WasReserved
<1>3. UnitsAccounted
  BY SupplyAssumption DEF Init, UnitsAccounted
<1>4. \A o \in Orders : EventsBacked(o) /\ StatusBacked(o, status[o])
  BY DEF Init, EventsBacked, StatusBacked, WasReserved
<1>5. \A w \in Workers : TaskBacked(w)
  BY DEF Init, TaskBacked
<1> QED BY <1>1, <1>2, <1>3, <1>4, <1>5 DEF SagaInv

\* Every step keeps it.
LEMMA SagaStep == SagaInv /\ [Next]_vars => SagaInv'
<1> SUFFICES ASSUME SagaInv, [Next]_vars PROVE SagaInv'
  OBVIOUS
<1>1. ASSUME NEW o \in Orders,
             CreateOrder(o) \/ ReserveStock(o) \/ ReserveFails(o) \/ ProcessPayment(o)
      PROVE  SagaInv'
  BY <1>1, CreateOrderOK, ReserveStockOK, ReserveFailsOK, ProcessPaymentOK
<1>2. ASSUME NEW w \in Workers, NEW e \in sent, ReadOrder(w, e) PROVE SagaInv'
  BY <1>2, ReadOrderOK
<1>3. ASSUME NEW w \in Workers, Handle(w) \/ HandlerFails(w) PROVE SagaInv'
  BY <1>3, HandleInventoryReservedOK, HandleInventoryReserveFailedOK,
     HandlePaymentSuccessOK, HandlePaymentFailedOK, HandlerFailsOK DEF Handle
<1>4. ASSUME NEW s \in Sweepers, Sweep(s) \/ SweepFails(s) PROVE SagaInv'
  <2>1. CASE CommitSweep(s)
    BY <2>1, CommitSweepOK
  <2>2. ASSUME NEW batch \in SUBSET Orders, ReadStale(s, batch) PROVE SagaInv'
    BY <2>2, SweepQuietOK DEF ReadStale, SagaInv, TypeOK
  <2>3. CASE SweepFails(s)
    BY <2>3, SweepQuietOK DEF SweepFails, SagaInv, TypeOK
  <2> QED BY <1>4, <2>1, <2>2, <2>3 DEF Sweep
<1>5. ASSUME NEW e \in sent, NEW reached \in SUBSET Products, ReleaseStock(e, reached)
      PROVE  SagaInv'
  BY <1>5, ReleaseStockOK
<1>6. CASE UNCHANGED vars
  BY <1>6, SweepQuietOK DEF vars, orderVars, SagaInv, TypeOK
<1> QED BY <1>1, <1>2, <1>3, <1>4, <1>5, <1>6 DEF Next

\* The inductive invariant: every status and every event of an order rests on
\* the events that have to come before it.
THEOREM SagaInvariance == Spec => []SagaInv
<1> QED BY SagaInit, SagaStep, PTL DEF Spec

\* The types of OrderSaga, for any constants.
THEOREM SagaTypeCorrect == Spec => []TypeOK
<1>1. SagaInv => TypeOK
  BY DEF SagaInv
<1> QED BY <1>1, SagaInvariance, PTL

\* One outcome per reservation and per payment, and at most one charge, under
\* any redelivery, reordering and loss of events.
THEOREM OneOutcome == Spec => []OutcomesExclusive
<1>1. SagaInv => OutcomesExclusive
  BY DEF SagaInv
<1> QED BY <1>1, SagaInvariance, PTL

\* A confirmed order has been charged once and its stock was reserved.
THEOREM ConfirmedOrdersArePaid == Spec => []ConfirmedIsPaid
<1>1. SagaInv => ConfirmedIsPaid
  <2> SUFFICES ASSUME SagaInv, NEW o \in Orders, status[o] = "CONFIRMED"
               PROVE  WasReserved(o) /\ charges[o] = 1
    BY DEF ConfirmedIsPaid
  <2>1. Once("PaymentSuccess", o) \in sent
    BY DEF SagaInv, StatusBacked
  <2> QED BY <2>1 DEF SagaInv, OutcomesExclusive
<1> QED BY <1>1, SagaInvariance, PTL

\* A reserved order that is cancelled has a compensation event.
THEOREM CancelledOrdersAreCompensated == Spec => []CancelledIsCompensated
<1>1. SagaInv => CancelledIsCompensated
  <2> SUFFICES ASSUME SagaInv, NEW o \in Orders, WasReserved(o),
                      status[o] \in {"CANCELLED", "CANCELLED_NO_STOCK"}
               PROVE  WasCancelled(o)
    BY DEF CancelledIsCompensated
  <2>1. StatusBacked(o, status[o])
    BY DEF SagaInv
  <2>2. Once("InventoryReserveFailed", o) \notin sent
    BY DEF SagaInv, OutcomesExclusive
  <2> QED BY <2>1, <2>2 DEF StatusBacked
<1> QED BY <1>1, SagaInvariance, PTL

\* No unit of stock is lost or invented by the saga, however often an order is
\* compensated.
THEOREM SagaKeepsUnits == Spec => []UnitsAccounted
<1>1. SagaInv => UnitsAccounted
  BY DEF SagaInv
<1> QED BY <1>1, SagaInvariance, PTL

\* Statuses that a step does not write.
LEMMA StatusWriters ==
    ASSUME SagaInv, Next, NEW o \in Orders, status'[o] # status[o]
    PROVE  \/ CreateOrder(o)
           \/ \E w \in Workers : Handle(w) /\ task[w].order = o
           \/ \E s \in Sweepers : CommitSweep(s) /\ o \in sweep[s]
<1>1. status \in [Orders -> Statuses]
  BY DEF SagaInv, TypeOK
<1>2. ASSUME NEW x \in Orders, CreateOrder(x) PROVE x = o
  BY <1>1, <1>2 DEF CreateOrder
<1>3. ASSUME NEW w \in Workers, Handle(w) PROVE task[w].order = o
  BY <1>1, <1>3 DEF Handle, HandleInventoryReserved, HandleInventoryReserveFailed,
                    HandlePaymentSuccess, HandlePaymentFailed, Transition
<1>4. ASSUME NEW s \in Sweepers, CommitSweep(s) PROVE o \in sweep[s]
  BY <1>4 DEF CommitSweep
<1>5. ASSUME NEW x \in Orders, ReserveStock(x) \/ ReserveFails(x) \/ ProcessPayment(x)
      PROVE  FALSE
  BY <1>5 DEF ReserveStock, ReserveFails, ProcessPayment, orderVars
<1>6. ASSUME NEW w \in Workers, HandlerFails(w) \/ \E e \in sent : ReadOrder(w, e)
      PROVE  FALSE
  BY <1>6 DEF HandlerFails, ReadOrder
<1>7. ASSUME NEW s \in Sweepers,
             SweepFails(s) \/ \E batch \in SUBSET Orders : ReadStale(s, batch)
      PROVE  FALSE
  BY <1>7 DEF SweepFails, ReadStale
<1>8. ASSUME NEW e \in sent, NEW reached \in SUBSET Products, ReleaseStock(e, reached)
      PROVE  FALSE
  BY <1>8 DEF ReleaseStock, orderVars
<1> QED BY <1>2, <1>3, <1>4, <1>5, <1>6, <1>7, <1>8 DEF Next, Sweep

\* No handler takes the CONFIRMED status away: the event it handles would have
\* to be one that excludes the confirmation, or one processed before it.
LEMMA HandlersKeepConfirmed ==
    ASSUME SagaInv, NEW w \in Workers, Handle(w), NEW o \in Orders,
           task[w].order = o, status[o] = "CONFIRMED"
    PROVE  status'[o] = "CONFIRMED"
<1>1. /\ Once("InventoryReserved", o) \in orderInbox
      /\ Once("PaymentSuccess", o) \in sent
      /\ status \in [Orders -> Statuses] /\ orderInbox \subseteq sent
  BY DEF SagaInv, StatusBacked, TypeOK
<1>2. Once("PaymentFailed", o) \notin sent /\ Once("InventoryReserveFailed", o) \notin sent
  BY <1>1 DEF SagaInv, OutcomesExclusive, WasReserved
<1>3. CASE HandleInventoryReserved(w)
  <2>1. Once("InventoryReserved", o) \notin orderInbox
    BY <1>3, TaskFacts DEF HandleInventoryReserved, SagaTypes
  <2> QED BY <1>1, <2>1
<1>4. CASE HandleInventoryReserveFailed(w)
  <2>1. Once("InventoryReserveFailed", o) \in sent
    BY <1>4, TaskFacts DEF HandleInventoryReserveFailed, SagaTypes
  <2> QED BY <1>2, <2>1
<1>5. CASE HandlePaymentSuccess(w)
  BY <1>1, <1>5 DEF HandlePaymentSuccess, Transition
<1>6. CASE HandlePaymentFailed(w)
  <2>1. Once("PaymentFailed", o) \in sent
    BY <1>6, TaskFacts DEF HandlePaymentFailed, SagaTypes
  <2> QED BY <1>2, <2>1
<1> QED BY <1>3, <1>4, <1>5, <1>6 DEF Handle

\* Only a sweep's commit undoes a confirmation, and it compensates.
THEOREM OnlySweepsUndo == Spec => ConfirmedUndoneOnlyBySweep
<1>1. SagaInv /\ [Next]_vars =>
        [\A o \in Orders :
            status[o] = "CONFIRMED" /\ status'[o] # "CONFIRMED" =>
                /\ status'[o] = "CANCELLED"
                /\ cancels'[o] > cancels[o]
                /\ \E s \in Sweepers : o \in sweep[s] /\ sweep'[s] = {}]_vars
  <2> SUFFICES ASSUME SagaInv, Next, NEW o \in Orders,
                      status[o] = "CONFIRMED", status'[o] # "CONFIRMED"
               PROVE  /\ status'[o] = "CANCELLED"
                      /\ cancels'[o] > cancels[o]
                      /\ \E s \in Sweepers : o \in sweep[s] /\ sweep'[s] = {}
    OBVIOUS
  <2>1. ~CreateOrder(o)
    BY DEF CreateOrder
  <2>2. PICK s \in Sweepers : CommitSweep(s) /\ o \in sweep[s]
    BY <2>1, StatusWriters, HandlersKeepConfirmed
  <2>3. sweep \in [Sweepers -> SUBSET Orders]
    BY DEF SagaInv, TypeOK
  <2>4. status'[o] = "CANCELLED" /\ sweep'[s] = {}
    BY <2>2, <2>3 DEF CommitSweep
  <2>5. cancels'[o] > cancels[o]
    BY <2>2, <2>3, CompensateOK DEF CommitSweep
  <2> QED BY <2>2, <2>4, <2>5
<1> QED BY <1>1, SagaInvariance, PTL DEF Spec, ConfirmedUndoneOnlyBySweep

-----------------------------------------------------------------------------
(* Demand.                                                                 *)

\* Induction over the sizes of the subsets of a finite set W.
LEMMA SubsetInduction ==
    ASSUME NEW W, IsFiniteSet(W), NEW X,
           \A s \in SUBSET W : (\A x \in s : s \ {x} \in X) => s \in X
    PROVE  SUBSET W \subseteq X
<1> DEFINE R == {s \in SUBSET W : s \notin X}
           Sizes == {Cardinality(s) : s \in R}
<1> SUFFICES ASSUME R # {} PROVE FALSE
  OBVIOUS
<1>1. \A s \in SUBSET W : IsFiniteSet(s) /\ Cardinality(s) \in Nat
  BY FS_Subset, FS_CardinalityType
<1>2. PICK k \in Sizes : \A m \in Sizes : ~(m < k)
  <2>1. Sizes # {} /\ Sizes \subseteq Nat
    BY <1>1
  <2>2. \A m, n \in Nat : <<m, n>> \in OpToRel(<, Nat) <=> m < n
    BY Zenon DEF OpToRel
  <2> HIDE DEF Sizes
  <2>3. \E k \in Sizes : \A m \in Sizes : ~(<<m, k>> \in OpToRel(<, Nat))
    BY <2>1, NatLessThanWellFounded, WFMin, Zenon
  <2> QED BY <2>1, <2>2, <2>3, Zenon
<1>3. PICK s \in R : Cardinality(s) = k
  OBVIOUS
<1>4. PICK x \in s : s \ {x} \notin X
  OBVIOUS
<1>5. Cardinality(s \ {x}) = k - 1 /\ s \ {x} \in R
  BY <1>1, <1>3, <1>4, FS_RemoveElement
<1>6. Cardinality(s \ {x}) \in Sizes /\ k \in Nat
  BY <1>1, <1>5
<1> HIDE DEF Sizes
<1> QED BY <1>2, <1>5, <1>6

\* The units of p that the orders of S ask for, one by one.
Units(S, p) == UNION {{o} \X (1..Items[o][p]) : o \in S}

\* An order adds its quantity.
LEMMA UnitsGrow ==
    ASSUME NEW p \in Products, NEW S \in SUBSET Orders, IsFiniteSet(Units(S, p)),
           NEW o \in Orders \ S
    PROVE  /\ IsFiniteSet(Units(S \union {o}, p))
           /\ Cardinality(Units(S \union {o}, p)) = Cardinality(Units(S, p)) + Items[o][p]
<1> DEFINE n == Items[o][p]
           new == {o} \X (1..n)
<1>1. n \in Nat
  BY ItemsAssumption
<1>2. IsFiniteSet({o}) /\ Cardinality({o}) = 1
  BY FS_Singleton
<1> HIDE DEF n
<1>3. IsFiniteSet(1..n) /\ Cardinality(1..n) = n
  <2>1. IsFiniteSet(1..n) /\ Cardinality(1..n) = IF 1 > n THEN 0 ELSE n - 1 + 1
    BY <1>1, FS_Interval
  <2> QED BY <1>1, <2>1
<1>4. IsFiniteSet(new) /\ Cardinality(new) = n
  <2>1. IsFiniteSet(new) /\ Cardinality(new) = Cardinality({o}) * Cardinality(1..n)
    BY <1>2, <1>3, FS_Product
  <2> QED BY <1>1, <1>2, <1>3, <2>1
<1>5. Units(S \union {o}, p) = Units(S, p) \union new
  BY DEF Units, n
<1>6. Units(S, p) \intersect new = {}
  BY DEF Units
<1>7. Cardinality({}) = 0
  BY FS_EmptySet
<1>8. Cardinality(Units(S, p)) \in Nat
  BY FS_CardinalityType
<1> HIDE DEF new
<1>9. /\ IsFiniteSet(Units(S, p) \union new)
      /\ Cardinality(Units(S, p) \union new) =
            Cardinality(Units(S, p)) + Cardinality(new) - Cardinality(Units(S, p) \intersect new)
  BY <1>4, FS_Union
<1>10. n = Items[o][p]
  BY DEF n
<1>11. Cardinality(Units(S \union {o}, p)) = Cardinality(Units(S, p)) + n
  <2>1. Cardinality(Units(S, p) \intersect new) = 0
    BY <1>6, <1>7
  <2>2. Cardinality(Units(S \union {o}, p)) = Cardinality(Units(S, p) \union new)
    BY <1>5
  <2> DEFINE both == Cardinality(Units(S, p) \union new)
             old == Cardinality(Units(S, p))
  <2>3. both = old + n - 0 /\ old \in Nat
    BY <1>4, <1>8, <1>9, <2>1
  <2> HIDE DEF both, old
  <2>4. both = old + n
    BY <1>1, <2>3
  <2> QED BY <2>2, <2>4 DEF both, old
<1> QED BY <1>5, <1>9, <1>10, <1>11

\* Finitely many orders ask for finitely many units.
LEMMA UnitsFinite ==
    ASSUME NEW p \in Products, NEW W \in SUBSET Orders, IsFiniteSet(W)
    PROVE  \A s \in SUBSET W : IsFiniteSet(Units(s, p))
<1> DEFINE X == {s \in SUBSET W : IsFiniteSet(Units(s, p))}
<1>1. ASSUME NEW s \in SUBSET W, \A x \in s : s \ {x} \in X PROVE s \in X
  <2>1. CASE s = {}
    <3>1. Units(s, p) = {}
      BY <2>1 DEF Units
    <3> QED BY <3>1, FS_EmptySet
  <2>2. CASE s # {}
    <3>1. PICK x \in s : TRUE
      BY <2>2
    <3>2. s = (s \ {x}) \union {x} /\ IsFiniteSet(Units(s \ {x}, p))
      BY <1>1
    <3>3. IsFiniteSet(Units((s \ {x}) \union {x}, p))
      BY <3>2, UnitsGrow
    <3> QED BY <3>2, <3>3
  <2> QED BY <2>1, <2>2
<1> HIDE DEF X
<1>2. SUBSET W \subseteq X
  BY <1>1, SubsetInduction
<1> QED BY <1>2 DEF X

\* Demand, a fold over the orders in some order, counts their units.
LEMMA DemandCounts ==
    ASSUME NEW p \in Products, NEW W \in SUBSET Orders, IsFiniteSet(W)
    PROVE  Demand(W, p) = Cardinality(Units(W, p))
<1> DEFINE pick(s) == CHOOSE x \in s : TRUE
           step(g) == [s \in SUBSET W |-> IF s = {} THEN 0
                                          ELSE Items[pick(s)][p] + g[s \ {pick(s)}]]
           count == [s \in SUBSET W |-> Cardinality(Units(s, p))]
           found == CHOOSE g : g = step(g)
           X == {s \in SUBSET W : found[s] = count[s]}
<1>1. Demand(W, p) = found[W]
  BY Zenon DEF Demand, MapThenSumSet, MapThenFoldSet
<1>2. ASSUME NEW s \in SUBSET W, s # {}
      PROVE  /\ pick(s) \in s /\ s \ {pick(s)} \in SUBSET W
             /\ count[s] = Items[pick(s)][p] + count[s \ {pick(s)}]
  <2>1. PICK x \in s : x = pick(s)
    BY <1>2
  <2>2. /\ s = (s \ {x}) \union {x} /\ IsFiniteSet(Units(s \ {x}, p))
        /\ x \in Orders \ (s \ {x}) /\ s \ {x} \in SUBSET Orders
    BY UnitsFinite
  <2>3. Cardinality(Units((s \ {x}) \union {x}, p)) = Cardinality(Units(s \ {x}, p)) + Items[x][p]
    BY <2>2, UnitsGrow
  <2>4. Items[x][p] \in Nat /\ Cardinality(Units(s \ {x}, p)) \in Nat
    BY <2>2, ItemsAssumption, FS_CardinalityType
  <2> QED BY <2>1, <2>2, <2>3, <2>4
<1>3. count[{}] = 0
  BY FS_EmptySet DEF Units
<1>4. count = step(count)
  <2> HIDE DEF count, pick
  <2>1. \A s \in SUBSET W : count[s] = IF s = {} THEN 0 ELSE Items[pick(s)][p] + count[s \ {pick(s)}]
    BY <1>2, <1>3
  <2> QED BY <2>1 DEF count
<1>5. found = step(found)
  <2> HIDE DEF count, step
  <2> QED BY <1>4
<1> HIDE DEF found
<1>6. \A s \in SUBSET W : found[s] = IF s = {} THEN 0
                                     ELSE Items[pick(s)][p] + found[s \ {pick(s)}]
  BY <1>5
<1> HIDE DEF count, pick, step
<1>7. ASSUME NEW s \in SUBSET W, \A x \in s : s \ {x} \in X PROVE s \in X
  BY <1>2, <1>3, <1>6, <1>7
<1> HIDE DEF X
<1>8. SUBSET W \subseteq X
  BY <1>7, SubsetInduction
<1>9. found[W] = count[W]
  BY <1>8 DEF X
<1> QED BY <1>1, <1>9 DEF count

\* Nothing demands nothing, and an order adds its quantity to the demand.
LEMMA DemandGrows ==
    ASSUME NEW p \in Products
    PROVE  /\ Demand({}, p) = 0
           /\ \A W \in SUBSET Orders : IsFiniteSet(W) =>
                 \A o \in Orders \ W : Demand(W \union {o}, p) = Demand(W, p) + Items[o][p]
<1>1. Demand({}, p) = 0
  BY DemandCounts, FS_EmptySet DEF Units
<1>2. ASSUME NEW W \in SUBSET Orders, IsFiniteSet(W), NEW o \in Orders \ W
      PROVE  Demand(W \union {o}, p) = Demand(W, p) + Items[o][p]
  <2>1. W \union {o} \in SUBSET Orders /\ IsFiniteSet(W \union {o})
    BY <1>2, FS_AddElement
  <2>2. IsFiniteSet(Units(W, p))
    BY <1>2, UnitsFinite
  <2> QED BY <1>2, <2>1, <2>2, UnitsGrow, DemandCounts
<1> QED BY <1>1, <1>2
-----------------------------------------------------------------------------
(* The orders nobody compensates.                                          *)

\* Once undone, always undone; and what compensates an order undoes it.
LEMMA UndoneMonotone ==
    ASSUME sent \subseteq sent', NEW o
    PROVE  (Undone(o) => Undone(o)') /\ (WasCancelled(o)' => Undone(o)')
  BY DEF Undone, WasCancelled

\* Compensating sends no events of another type.
LEMMA CompensateSends ==
    ASSUME NEW S, Compensate(S), NEW t \in Types \ {"OrderCancelled"}, NEW o
    PROVE  Once(t, o) \in sent' <=> Once(t, o) \in sent
  BY OnceInjective DEF Compensate

\* An order a step leaves alone.
LEMMA ShownAlone ==
    ASSUME NEW o, ReservationShown(o), sent \subseteq sent', status'[o] = status[o],
           Once("OrderCreated", o) \in sent' => Once("OrderCreated", o) \in sent,
           Once("InventoryReserved", o) \in orderInbox' =>
              Once("InventoryReserved", o) \in orderInbox
    PROVE  ReservationShown(o)'
<1>1. Undone(o) => Undone(o)'
  BY UndoneMonotone
<1> QED BY <1>1 DEF ReservationShown

\* A handler a step leaves alone, and one that has ended.
LEMMA ReadAlone ==
    ASSUME NEW w, ReadIsCurrent(w), sent \subseteq sent', orderInbox \subseteq orderInbox',
           \/ task'[w] = NoTask
           \/ /\ task'[w] = task[w] /\ seen'[w] = seen[w]
              /\ status'[task[w].order] = status[task[w].order]
    PROVE  ReadIsCurrent(w)'
  BY DEF ReadIsCurrent, Undone

\* Stock a step leaves alone.
LEMMA HeldAlone ==
    ASSUME StockHeld, sent \subseteq sent', stock' = stock,
           \A o \in Orders : WasReserved(o)' <=> WasReserved(o)
    PROVE  StockHeld'
<1> DEFINE holders == {o \in Orders : WasReserved(o)}
<1>1. holders' = holders
  OBVIOUS
<1>2. \A o \in Orders : Undone(o) => Undone(o)'
  BY UndoneMonotone
<1>3. /\ IsFiniteSet(holders)
      /\ (\A o \in Orders : ~Undone(o)) =>
            \A p \in Products : stock[p].reserved = Demand(holders, p)
  BY DEF StockHeld
<1> HIDE DEF holders
<1>4. /\ IsFiniteSet(holders')
      /\ (\A o \in Orders : ~Undone(o)') =>
            \A p \in Products : stock'[p].reserved = Demand(holders', p)
  BY <1>1, <1>2, <1>3
<1> QED BY <1>4 DEF StockHeld, holders

\* What exists of an event in hand, and of the status read for it.
LEMMA UndisturbedTask ==
    ASSUME UndisturbedInv, NEW w \in Workers, task[w] # NoTask, task[w] \notin orderInbox,
           NEW o \in Orders, task[w].order = o, ~Undone(o)
    PROVE  /\ task[w] = Once(task[w].type, o) /\ task[w] \in sent
           /\ \/ /\ task[w].type = "InventoryReserved"
                 /\ seen[w] = "PENDING" /\ status[o] = "PENDING"
              \/ /\ task[w].type = "InventoryReserveFailed"
                 /\ seen[w] \in Open => status[o] = seen[w]
              \/ /\ task[w].type = "PaymentSuccess"
                 /\ seen[w] = "STOCK_RESERVED" =>
                       status[o] = seen[w] /\ Once("InventoryReserved", o) \in orderInbox
<1>1. /\ TypeOK /\ IdsUnique /\ TaskBacked(w) /\ ReadIsCurrent(w)
      /\ ~(WasReserved(o) /\ Once("InventoryReserveFailed", o) \in sent)
  BY DEF UndisturbedInv, SagaInv, OutcomesExclusive
<1>2. /\ task[w] \in sent /\ task[w].type \in SagaTypes /\ StatusBacked(o, seen[w])
      /\ seen[w] \in Statuses
  BY <1>1 DEF TaskBacked, TypeOK
<1>3. task[w] = Once(task[w].type, o)
  BY <1>1, <1>2 DEF IdsUnique, SagaTypes
<1>4. task[w].type # "PaymentFailed" /\ ~WasCancelled(o)
  BY <1>2 DEF Undone, WasCancelled
<1>5. /\ seen[w] # "NONE"
      /\ seen[w] \in Awaited(task[w].type) => status[o] = seen[w]
  BY <1>1 DEF ReadIsCurrent
<1>6. CASE task[w].type = "InventoryReserved"
  <2>1. seen[w] = "PENDING"
    BY <1>1, <1>2, <1>3, <1>4, <1>5, <1>6 DEF StatusBacked, Statuses, Open, Settled, WasReserved
  <2> QED BY <1>2, <1>3, <1>5, <1>6, <2>1 DEF Awaited
<1>7. CASE task[w].type = "InventoryReserveFailed"
  BY <1>2, <1>3, <1>5, <1>7 DEF Awaited
<1>8. CASE task[w].type = "PaymentSuccess"
  BY <1>2, <1>3, <1>5, <1>8 DEF Awaited, StatusBacked
<1> QED BY <1>2, <1>4, <1>6, <1>7, <1>8 DEF SagaTypes

\* The events of an order exclude each other.
LEMMA EventsExclude ==
    ASSUME SagaInv, NEW o \in Orders
    PROVE  /\ ~(WasReserved(o) /\ Once("InventoryReserveFailed", o) \in sent)
           /\ Once("PaymentSuccess", o) \in sent => WasReserved(o)
           /\ orderInbox \subseteq sent
  BY DEF SagaInv, OutcomesExclusive, TypeOK

\* A commit of a handler.
LEMMA HandleUndisturbed ==
    ASSUME UndisturbedInv, NEW w \in Workers, Handle(w)
    PROVE  /\ \A o \in Orders : ReservationShown(o)'
           /\ \A v \in Workers : ReadIsCurrent(v)'
           /\ StockHeld'
<1>1. PICK t \in SagaTypes :
         /\ CommitInbox(w, t)
         /\ t = "InventoryReserved" => Transition(w, {"PENDING"}, "STOCK_RESERVED")
         /\ t = "InventoryReserveFailed" => Transition(w, Open, "CANCELLED_NO_STOCK")
         /\ t = "PaymentSuccess" => Transition(w, {"STOCK_RESERVED"}, "CONFIRMED")
         /\ t = "PaymentFailed" => Transition(w, Open, "CANCELLED")
         /\ UNCHANGED <<stockVars, payVars>>
         /\ sent' = sent \/ \E S : Compensate(S)
  BY DEF Handle, HandleInventoryReserved, HandleInventoryReserveFailed,
         HandlePaymentSuccess, HandlePaymentFailed, SagaTypes
<1>2. SagaInv /\ TypeOK
  BY DEF UndisturbedInv, SagaInv
<1>3. PICK x \in Orders : /\ x = task[w].order /\ task[w] = Once(t, x)
                          /\ task[w] \in sent \ orderInbox
  BY <1>1, <1>2, TaskFacts
<1>4. /\ sent \subseteq sent'
      /\ \A u \in {"OrderCreated", "InventoryReserved"}, o \in Orders :
            Once(u, o) \in sent' <=> Once(u, o) \in sent
  <2>1. CASE sent' = sent
    BY <2>1
  <2>2. ASSUME NEW S, Compensate(S)
        PROVE  /\ sent \subseteq sent'
               /\ \A u \in {"OrderCreated", "InventoryReserved"}, o \in Orders :
                     Once(u, o) \in sent' <=> Once(u, o) \in sent
    <3>1. sent \subseteq sent'
      BY <2>2 DEF Compensate
    <3> QED BY <2>2, <3>1, CompensateSends DEF Types, SagaTypes
  <2> QED BY <1>1, <2>1, <2>2
<1>5. /\ task[w] # NoTask /\ task[w].type = t /\ orderInbox' = orderInbox \union {Once(t, x)}
      /\ task'[w] = NoTask
      /\ \A v \in Workers \ {w} : task'[v] = task[v] /\ seen'[v] = seen[v]
  BY <1>1, <1>2, <1>3 DEF CommitInbox, TypeOK
<1>6. /\ status'[x] \in {status[x], "STOCK_RESERVED", "CONFIRMED", "CANCELLED", "CANCELLED_NO_STOCK"}
      /\ \A o \in Orders \ {x} : status'[o] = status[o]
  BY <1>1, <1>2, <1>3 DEF Transition, TypeOK, SagaTypes
<1>7. StockHeld'
  BY <1>1, <1>4, HeldAlone DEF UndisturbedInv, stockVars, WasReserved
<1>8. ASSUME NEW o \in Orders \ {x} PROVE ReservationShown(o)'
  <2>1. Once("InventoryReserved", o) # Once(t, x)
    BY OnceInjective
  <2> QED BY <1>4, <1>5, <1>6, <2>1, ShownAlone DEF UndisturbedInv
<1>9. ASSUME NEW v \in Workers, v = w \/ task[v].order # x \/ status'[x] = status[x]
      PROVE  ReadIsCurrent(v)'
  <2>1. CASE task[v] = NoTask
    BY <1>5, <2>1 DEF ReadIsCurrent
  <2>2. CASE task[v] # NoTask
    <3>1. task[v].order \in Orders
      BY <1>2, <2>2 DEF TypeOK, Event
    <3> QED BY <1>4, <1>5, <1>6, <1>9, <3>1, ReadAlone DEF UndisturbedInv
  <2> QED BY <2>1, <2>2
<1>10. ReservationShown(x)
  BY DEF UndisturbedInv
<1>11. CASE Undone(x)
  <2>1. Undone(x)'
    BY <1>4, <1>11, UndoneMonotone
  <2>2. ReservationShown(x)'
    BY <1>4, <1>6, <1>10, <2>1 DEF ReservationShown
  <2>3. ASSUME NEW v \in Workers \ {w}, task[v].order = x PROVE ReadIsCurrent(v)'
    BY <1>5, <2>1, <2>3 DEF ReadIsCurrent
  <2> QED BY <1>7, <1>8, <1>9, <2>2, <2>3
<1>12. CASE ~Undone(x)
  <2>1. \/ t = "InventoryReserved" /\ seen[w] = "PENDING" /\ status[x] = "PENDING"
        \/ t = "InventoryReserveFailed" /\ (seen[w] \in Open => status[x] = seen[w])
        \/ /\ t = "PaymentSuccess"
           /\ seen[w] = "STOCK_RESERVED" =>
                 status[x] = seen[w] /\ Once("InventoryReserved", x) \in orderInbox
    BY <1>3, <1>5, <1>12, UndisturbedTask
  <2>2. /\ ~(WasReserved(x) /\ Once("InventoryReserveFailed", x) \in sent)
        /\ Once("PaymentSuccess", x) \in sent => WasReserved(x)
        /\ orderInbox \subseteq sent
    BY <1>2, EventsExclude
  \* No other handler has read something of x that is no longer so.
  <2>3. ASSUME NEW v \in Workers \ {w}, task[v].order = x, status'[x] # status[x],
               task[v] # NoTask, task[v] \notin orderInbox'
        PROVE  /\ t = "InventoryReserved" /\ task[v].type = "PaymentSuccess"
               /\ seen[v] # "STOCK_RESERVED"
    <3>1. /\ task[v] = Once(task[v].type, x) /\ task[v] \in sent /\ task[v].type # t
          /\ \/ task[v].type \in {"InventoryReserved", "InventoryReserveFailed"}
             \/ /\ task[v].type = "PaymentSuccess"
                /\ seen[v] = "STOCK_RESERVED" => Once("InventoryReserved", x) \in orderInbox
      BY <1>5, <1>12, <2>3, UndisturbedTask
    <3>2. Once(t, x) \in sent /\ Once(t, x) \notin orderInbox
      BY <1>3
    <3>3. t # "InventoryReserveFailed"
      BY <2>2, <3>1, <3>2 DEF WasReserved
    <3>4. task[v].type # "InventoryReserveFailed"
      BY <2>1, <2>2, <3>1, <3>2 DEF WasReserved
    <3>5. t # "PaymentSuccess"
      <4>1. t = "PaymentSuccess" => seen[w] = "STOCK_RESERVED"
        BY <1>1, <1>2, <1>3, <2>3 DEF Transition, TypeOK
      <4>2. t = "PaymentSuccess" => Once("InventoryReserved", x) \in orderInbox'
        BY <1>5, <2>1, <4>1
      <4> QED BY <2>3, <3>1, <3>4, <4>2
    <3> QED BY <2>1, <3>1, <3>2, <3>3, <3>4, <3>5
  <2>4. ASSUME NEW v \in Workers \ {w}, task[v].order = x, status'[x] # status[x]
        PROVE  ReadIsCurrent(v)'
    <3> SUFFICES ASSUME task'[v] # NoTask, task'[v] \notin orderInbox', ~Undone(task[v].order)'
                 PROVE  /\ seen'[v] # "NONE"
                        /\ seen'[v] \notin Awaited(task'[v].type)
      BY DEF ReadIsCurrent
    <3>1. ReadIsCurrent(v) /\ task[v] \notin orderInbox
      BY <1>5 DEF UndisturbedInv
    <3>2. seen[v] # "NONE"
      BY <1>5, <1>12, <2>4, <3>1 DEF ReadIsCurrent
    <3> QED BY <1>5, <2>3, <2>4, <3>2 DEF Awaited
  <2>5. ReservationShown(x)'
    <3>1. CASE t = "InventoryReserved"
      <4>1. status'[x] = "STOCK_RESERVED"
        BY <1>1, <1>2, <1>3, <2>1, <3>1 DEF Transition, TypeOK
      <4> QED BY <4>1 DEF ReservationShown
    <3>2. CASE t = "InventoryReserveFailed"
      <4>1. Once("InventoryReserved", x) \notin orderInbox'
        BY <1>3, <1>5, <2>2, <3>2, OnceInjective DEF WasReserved
      <4> QED BY <1>4, <1>6, <1>10, <4>1 DEF ReservationShown
    <3>3. CASE t = "PaymentSuccess"
      <4>1. Once("InventoryReserved", x) \in orderInbox' <=> Once("InventoryReserved", x) \in orderInbox
        BY <1>5, <3>3, OnceInjective
      <4>2. status'[x] \in {status[x], "CONFIRMED"}
        BY <1>1, <1>2, <1>3, <3>3 DEF Transition, TypeOK
      <4> QED BY <1>4, <1>10, <1>12, <4>1, <4>2 DEF ReservationShown
    <3> QED BY <2>1, <3>1, <3>2, <3>3
  <2> QED BY <1>7, <1>8, <1>9, <2>4, <2>5
<1> QED BY <1>11, <1>12

\* A step that changes no order, handler or stock.
LEMMA AloneUndisturbed ==
    ASSUME UndisturbedInv, sent \subseteq sent', orderInbox' = orderInbox,
           \A o \in Orders : status'[o] = status[o],
           \A w \in Workers : task'[w] = NoTask \/ (task'[w] = task[w] /\ seen'[w] = seen[w]),
           \A o \in Orders : Once("OrderCreated", o) \in sent' => Once("OrderCreated", o) \in sent
    PROVE  /\ \A o \in Orders : ReservationShown(o)'
           /\ \A w \in Workers : ReadIsCurrent(w)'
<1>1. ASSUME NEW o \in Orders PROVE ReservationShown(o)'
  BY ShownAlone DEF UndisturbedInv
<1>2. ASSUME NEW w \in Workers PROVE ReadIsCurrent(w)'
  <2>1. CASE task'[w] = NoTask
    BY <2>1 DEF ReadIsCurrent
  <2>2. CASE task'[w] # NoTask
    <3>1. task[w] = task'[w] /\ task[w].order \in Orders
      BY <2>2 DEF UndisturbedInv, SagaInv, TypeOK, Event
    <3> QED BY <2>2, <3>1, ReadAlone DEF UndisturbedInv
  <2> QED BY <2>1, <2>2
<1> QED BY <1>1, <1>2

\* create_order.
LEMMA CreateUndisturbed ==
    ASSUME UndisturbedInv, NEW o \in Orders, CreateOrder(o)
    PROVE  /\ \A x \in Orders : ReservationShown(x)'
           /\ \A w \in Workers : ReadIsCurrent(w)'
           /\ StockHeld'
<1>1. /\ SagaInv /\ status \in [Orders -> Statuses] /\ status[o] = "NONE"
      /\ orderInbox \subseteq sent
  BY DEF UndisturbedInv, SagaInv, TypeOK, CreateOrder
<1>2. /\ sent' = sent \union {Once("OrderCreated", o)} /\ sent \subseteq sent'
      /\ orderInbox' = orderInbox /\ task' = task /\ seen' = seen /\ stock' = stock
      /\ status'[o] = "PENDING"
      /\ \A x \in Orders \ {o} : status'[x] = status[x]
  BY <1>1 DEF CreateOrder, stockVars
<1>3. \A u, x : Once(u, x) \in sent' <=> Once(u, x) \in sent \/ (u = "OrderCreated" /\ x = o)
  BY <1>2, OnceInjective
<1>4. StockHeld'
  BY <1>2, <1>3, HeldAlone DEF UndisturbedInv, WasReserved
<1>5. Once("OrderCreated", o) \notin sent
  BY <1>1 DEF UndisturbedInv, ReservationShown
<1>6. /\ ~WasReserved(o) /\ Once("InventoryReserveFailed", o) \notin sent
      /\ Once("PaymentSuccess", o) \notin sent /\ Once("PaymentFailed", o) \notin sent
  <2>1. EventsBacked(o) /\ stockInbox \subseteq sent /\ payInbox \subseteq sent
    BY <1>1 DEF SagaInv, TypeOK
  <2> QED BY <1>5, <2>1 DEF EventsBacked, WasReserved
<1>7. ASSUME NEW x \in Orders PROVE ReservationShown(x)'
  <2>1. CASE x = o
    BY <1>1, <1>2, <1>6, <2>1 DEF ReservationShown, WasReserved
  <2>2. CASE x # o
    <3>1. ReservationShown(x)
      BY DEF UndisturbedInv
    <3> QED BY <1>2, <1>3, <2>2, <3>1, ShownAlone
  <2> QED BY <2>1, <2>2
<1>8. ASSUME NEW w \in Workers PROVE ReadIsCurrent(w)'
  <2>1. CASE task[w] = NoTask
    BY <1>2, <2>1 DEF ReadIsCurrent
  <2>2. CASE task[w] # NoTask
    <3>1. /\ task[w].order \in Orders /\ task[w] \in sent
          /\ task[w].type \in SagaTypes /\ task[w] = Once(task[w].type, task[w].order)
      BY <1>1, <2>2 DEF SagaInv, TypeOK, TaskBacked, IdsUnique, SagaTypes, Event
    <3>2. task[w].order # o
      BY <1>6, <3>1 DEF SagaTypes, WasReserved
    <3> QED BY <1>2, <3>1, <3>2, ReadAlone DEF UndisturbedInv
  <2> QED BY <2>1, <2>2
<1> QED BY <1>4, <1>7, <1>8

\* A handler reads an order that exists.
LEMMA ReadUndisturbed ==
    ASSUME UndisturbedInv, NEW w \in Workers, NEW e \in sent, ReadOrder(w, e)
    PROVE  /\ \A x \in Orders : ReservationShown(x)'
           /\ \A v \in Workers : ReadIsCurrent(v)'
           /\ StockHeld'
<1>1. SagaInv /\ TypeOK
  BY DEF UndisturbedInv, SagaInv
<1>2. PICK o \in Orders : o = e.order
  BY <1>1 DEF TypeOK, Event
<1>3. /\ UNCHANGED <<status, orderInbox, sent, stock>> /\ e.type \in SagaTypes
      /\ task'[w] = e /\ seen'[w] = status[o]
      /\ \A v \in Workers \ {w} : task'[v] = task[v] /\ seen'[v] = seen[v]
  BY <1>1, <1>2 DEF ReadOrder, TypeOK, stockVars
<1>4. StockHeld'
  BY <1>3, HeldAlone DEF UndisturbedInv, WasReserved
<1>5. \A x \in Orders : ReservationShown(x)'
  BY <1>3, ShownAlone DEF UndisturbedInv
<1>6. status[o] # "NONE"
  <2>1. e = Once(e.type, o)
    BY <1>1, <1>2, <1>3 DEF SagaInv, IdsUnique, SagaTypes
  <2>2. EventsBacked(o) /\ stockInbox \subseteq sent /\ payInbox \subseteq sent
    BY <1>1 DEF SagaInv, TypeOK
  <2>3. Once("OrderCreated", o) \in sent
    BY <1>3, <2>1, <2>2 DEF EventsBacked, WasReserved, SagaTypes
  <2> QED BY <2>3 DEF UndisturbedInv, ReservationShown
<1>7. ReadIsCurrent(w)'
  BY <1>2, <1>3, <1>6 DEF ReadIsCurrent
<1>8. ASSUME NEW v \in Workers \ {w} PROVE ReadIsCurrent(v)'
  BY <1>3, ReadAlone DEF UndisturbedInv
<1> QED BY <1>4, <1>5, <1>7, <1>8

\* The commit of a sweep undoes every order it writes.
LEMMA SweepUndisturbed ==
    ASSUME UndisturbedInv, NEW s \in Sweepers, CommitSweep(s)
    PROVE  /\ \A o \in Orders : ReservationShown(o)'
           /\ \A w \in Workers : ReadIsCurrent(w)'
           /\ StockHeld'
<1>1. SagaInv /\ TypeOK
  BY DEF UndisturbedInv, SagaInv
<1>2. PICK S \in SUBSET Orders : S = sweep[s] /\ Compensate(S)
  BY <1>1 DEF TypeOK, CommitSweep
<1>3. /\ \A o \in S : Undone(o)'
      /\ sent \subseteq sent'
  BY <1>1, <1>2, CompensateOK, UndoneMonotone DEF CommitSweep
<1>4. \A u \in {"OrderCreated", "InventoryReserved"}, o \in Orders :
          Once(u, o) \in sent' <=> Once(u, o) \in sent
  BY <1>2, CompensateSends DEF Types, SagaTypes
<1>5. /\ orderInbox' = orderInbox /\ task' = task /\ seen' = seen /\ stock' = stock
      /\ \A o \in Orders : status'[o] = IF o \in S THEN "CANCELLED" ELSE status[o]
  BY <1>2 DEF CommitSweep, stockVars
<1>6. StockHeld'
  BY <1>3, <1>4, <1>5, HeldAlone DEF UndisturbedInv, WasReserved
<1>7. ASSUME NEW o \in Orders PROVE ReservationShown(o)'
  <2>1. CASE o \in S
    BY <1>3, <1>5, <2>1 DEF ReservationShown
  <2>2. CASE o \notin S
    BY <1>3, <1>4, <1>5, <2>2, ShownAlone DEF UndisturbedInv
  <2> QED BY <2>1, <2>2
<1>8. ASSUME NEW w \in Workers PROVE ReadIsCurrent(w)'
  <2>1. CASE task[w] = NoTask
    BY <1>5, <2>1 DEF ReadIsCurrent
  <2>2. CASE task[w] # NoTask
    <3>1. PICK o \in Orders : o = task[w].order
      BY <1>1, <2>2 DEF TypeOK, Event
    <3>2. CASE o \in S
      BY <1>3, <1>5, <3>1, <3>2 DEF ReadIsCurrent
    <3>3. CASE o \notin S
      BY <1>3, <1>5, <3>1, <3>3, ReadAlone DEF UndisturbedInv
    <3> QED BY <3>2, <3>3
  <2> QED BY <2>1, <2>2
<1> QED BY <1>6, <1>7, <1>8

\* The inventory service reserves an order's items.
LEMMA ReserveUndisturbed ==
    ASSUME UndisturbedInv, NEW o \in Orders, ReserveStock(o)
    PROVE  /\ \A x \in Orders : ReservationShown(x)'
           /\ \A w \in Workers : ReadIsCurrent(w)'
           /\ StockHeld'
<1>1. /\ SagaInv /\ stock \in [Products -> [available: Int, reserved: Int]]
      /\ Once("OrderCreated", o) \notin stockInbox
  BY DEF UndisturbedInv, SagaInv, TypeOK, ReserveStock
<1>2. sent' = sent \union {Once("InventoryReserved", o)} /\ sent \subseteq sent'
  BY DEF ReserveStock
<1>3. \A u, x : Once(u, x) \in sent' <=> Once(u, x) \in sent \/ (u = "InventoryReserved" /\ x = o)
  BY <1>2, OnceInjective
<1>4. /\ \A x \in Orders : ReservationShown(x)'
      /\ \A w \in Workers : ReadIsCurrent(w)'
  BY <1>2, <1>3, AloneUndisturbed DEF ReserveStock, orderVars
<1> DEFINE holders == {x \in Orders : WasReserved(x)}
<1>5. o \notin holders
  BY <1>1 DEF SagaInv, EventsBacked
<1>6. holders' = holders \union {o}
  BY <1>3 DEF WasReserved
<1>7. /\ IsFiniteSet(holders) /\ holders \in SUBSET Orders
      /\ (\A x \in Orders : ~Undone(x)) =>
            \A p \in Products : stock[p].reserved = Demand(holders, p)
  BY DEF UndisturbedInv, StockHeld
<1>8. \A p \in Products : stock'[p].reserved = stock[p].reserved + Items[o][p]
  BY DEF ReserveStock, Ledger!Reserve, Ledger!Deducted
<1>9. \A x \in Orders : Undone(x) => Undone(x)'
  BY <1>2, UndoneMonotone
<1> HIDE DEF holders
<1>10. IsFiniteSet(holders')
  BY <1>6, <1>7, FS_AddElement
<1>11. ASSUME \A x \in Orders : ~Undone(x)', NEW p \in Products
       PROVE  stock'[p].reserved = Demand(holders', p)
  <2>1. Demand(holders \union {o}, p) = Demand(holders, p) + Items[o][p]
    BY <1>5, <1>7, DemandGrows
  <2>2. stock[p].reserved = Demand(holders, p)
    BY <1>7, <1>9, <1>11
  <2> QED BY <1>6, <1>8, <2>1, <2>2
<1>12. StockHeld'
  BY <1>10, <1>11 DEF StockHeld, holders
<1> QED BY <1>4, <1>12

\* Stock is released for an order that is undone.
LEMMA ReleaseUndisturbed ==
    ASSUME UndisturbedInv, NEW e \in sent, NEW reached \in SUBSET Products,
           ReleaseStock(e, reached)
    PROVE  /\ \A x \in Orders : ReservationShown(x)'
           /\ \A w \in Workers : ReadIsCurrent(w)'
           /\ StockHeld'
<1>1. PICK o \in Orders : o = e.order
  BY DEF UndisturbedInv, SagaInv, TypeOK, Event
<1>2. /\ sent \subseteq sent'
      /\ \A u \in {"OrderCreated", "InventoryReserved"}, x \in Orders :
            Once(u, x) \in sent' <=> Once(u, x) \in sent
  BY OnceInjective DEF ReleaseStock
<1>3. /\ \A x \in Orders : ReservationShown(x)'
      /\ \A w \in Workers : ReadIsCurrent(w)'
  BY <1>2, AloneUndisturbed DEF ReleaseStock, orderVars
<1>4. Undone(o)'
  BY <1>1, <1>2 DEF Undone, ReleaseStock
<1> DEFINE holders == {x \in Orders : WasReserved(x)}
<1>5. holders' = holders
  BY <1>2 DEF WasReserved
<1>6. IsFiniteSet(holders)
  BY DEF UndisturbedInv, StockHeld
<1> HIDE DEF holders
<1>7. IsFiniteSet(holders')
  BY <1>5, <1>6
<1>8. StockHeld'
  BY <1>4, <1>7 DEF StockHeld, holders
<1> QED BY <1>3, <1>8

\* Initially there are no orders.
LEMMA UndisturbedInit == Init => UndisturbedInv
<1> SUFFICES ASSUME Init PROVE UndisturbedInv
  OBVIOUS
<1>1. /\ \A o \in Orders : ReservationShown(o)
      /\ \A w \in Workers : ReadIsCurrent(w)
  BY DEF Init, ReservationShown, ReadIsCurrent
<1>2. {o \in Orders : WasReserved(o)} = {}
  BY DEF Init, WasReserved
<1>3. \A p \in Products : stock[p].reserved = 0
  BY DEF Init
<1>4. StockHeld
  BY <1>2, <1>3, DemandGrows, FS_EmptySet DEF StockHeld
<1> QED BY <1>1, <1>4, SagaInit DEF UndisturbedInv

\* Every step keeps what holds of the orders nobody compensates.
LEMMA UndisturbedStep == UndisturbedInv /\ [Next]_vars => UndisturbedInv'
<1> SUFFICES ASSUME UndisturbedInv, [Next]_vars
             PROVE  /\ \A o \in Orders : ReservationShown(o)'
                    /\ \A w \in Workers : ReadIsCurrent(w)'
                    /\ StockHeld'
  BY SagaStep DEF UndisturbedInv
<1> DEFINE Kept == /\ \A o \in Orders : ReservationShown(o)'
                   /\ \A w \in Workers : ReadIsCurrent(w)'
                   /\ StockHeld'
<1>1. ASSUME UNCHANGED <<status, orderInbox, stock>>, sent \subseteq sent',
             \A w \in Workers : task'[w] = NoTask \/ (task'[w] = task[w] /\ seen'[w] = seen[w]),
             \A u \in {"OrderCreated", "InventoryReserved"}, o \in Orders :
                Once(u, o) \in sent' => Once(u, o) \in sent
      PROVE  Kept
  <2>1. \A o \in Orders : WasReserved(o)' <=> WasReserved(o)
    BY <1>1 DEF WasReserved
  <2>2. StockHeld'
    BY <1>1, <2>1, HeldAlone DEF UndisturbedInv
  <2> QED BY <1>1, <2>2, AloneUndisturbed
<1>2. ASSUME NEW o \in Orders, ReserveFails(o) PROVE Kept
  BY <1>1, <1>2, OnceInjective DEF ReserveFails, orderVars
<1>3. ASSUME NEW o \in Orders, ProcessPayment(o) PROVE Kept
  BY <1>1, <1>3, OnceInjective DEF ProcessPayment, orderVars, stockVars
<1>4. ASSUME NEW w \in Workers, HandlerFails(w) PROVE Kept
  <2>1. \A v \in Workers : task'[v] = NoTask \/ (task'[v] = task[v] /\ seen'[v] = seen[v])
    BY <1>4 DEF HandlerFails, UndisturbedInv, SagaInv, TypeOK
  <2> QED BY <1>1, <1>4, <2>1 DEF HandlerFails, stockVars
<1>5. ASSUME NEW s \in Sweepers, NEW batch, ReadStale(s, batch) PROVE Kept
  BY <1>1, <1>5 DEF ReadStale, stockVars
<1>6. ASSUME NEW s \in Sweepers, SweepFails(s) PROVE Kept
  BY <1>1, <1>6 DEF SweepFails, stockVars
<1>7. CASE UNCHANGED vars
  BY <1>1, <1>7 DEF vars, orderVars, stockVars
<1>8. ASSUME NEW o \in Orders, CreateOrder(o) PROVE Kept
  BY <1>8, CreateUndisturbed
<1>9. ASSUME NEW o \in Orders, ReserveStock(o) PROVE Kept
  BY <1>9, ReserveUndisturbed
<1>10. ASSUME NEW w \in Workers, NEW e \in sent, ReadOrder(w, e) PROVE Kept
  BY <1>10, ReadUndisturbed
<1>11. ASSUME NEW w \in Workers, Handle(w) PROVE Kept
  BY <1>11, HandleUndisturbed
<1>12. ASSUME NEW s \in Sweepers, CommitSweep(s) PROVE Kept
  BY <1>12, SweepUndisturbed
<1>13. ASSUME NEW e \in sent, NEW reached \in SUBSET Products, ReleaseStock(e, reached)
       PROVE  Kept
  BY <1>13, ReleaseUndisturbed
<1> HIDE DEF Kept
<1>14. ASSUME NEW s \in Sweepers, Sweep(s) \/ SweepFails(s) PROVE Kept
  BY <1>5, <1>6, <1>12, <1>14 DEF Sweep
<1>15. ASSUME Next PROVE Kept
  BY <1>2, <1>3, <1>4, <1>8, <1>9, <1>10, <1>11, <1>13, <1>14, <1>15 DEF Next
<1> QED BY <1>7, <1>15 DEF Kept

\* The inductive invariant of the orders nobody compensates: what is read is
\* still so when it is acted on, and what is reserved is what they ask for.
THEOREM UndisturbedInvariance == Spec => []UndisturbedInv
<1> QED BY UndisturbedInit, UndisturbedStep, PTL DEF Spec

\* The edge along which a handler moves an order that is not undone.
LEMMA HandlerEdge ==
    ASSUME UndisturbedInv, NEW w \in Workers, Handle(w),
           NEW o \in Orders, task[w].order = o, status'[o] # status[o], ~Undone(o)
    PROVE  /\ \/ status[o] = "PENDING" /\ status'[o] = "STOCK_RESERVED"
              \/ status[o] = "STOCK_RESERVED" /\ status'[o] = "CONFIRMED"
              \/ status[o] \in Open /\ status'[o] = "CANCELLED_NO_STOCK"
           /\ status' = [q \in Orders |-> IF q \in {o} THEN status'[o] ELSE status[q]]
<1>1. /\ status \in [Orders -> Statuses]
      /\ task[w] # NoTask /\ task[w] \notin orderInbox
  BY DEF UndisturbedInv, SagaInv, TypeOK, Handle, HandleInventoryReserved,
         HandleInventoryReserveFailed, HandlePaymentSuccess, HandlePaymentFailed, CommitInbox
<1>2. \/ task[w].type = "InventoryReserved" /\ status[o] = "PENDING"
      \/ task[w].type = "InventoryReserveFailed" /\ (seen[w] \in Open => status[o] = seen[w])
      \/ /\ task[w].type = "PaymentSuccess"
         /\ seen[w] = "STOCK_RESERVED" => status[o] = seen[w]
  BY <1>1, UndisturbedTask
<1>3. CASE HandleInventoryReserved(w)
  BY <1>1, <1>2, <1>3 DEF HandleInventoryReserved, CommitInbox, Transition
<1>4. CASE HandleInventoryReserveFailed(w)
  BY <1>1, <1>2, <1>4 DEF HandleInventoryReserveFailed, CommitInbox, Transition
<1>5. CASE HandlePaymentSuccess(w)
  BY <1>1, <1>2, <1>5 DEF HandlePaymentSuccess, CommitInbox, Transition
<1>6. ~HandlePaymentFailed(w)
  BY <1>2 DEF HandlePaymentFailed, CommitInbox
<1> QED BY <1>3, <1>4, <1>5, <1>6 DEF Handle

\* Every step only adds to what has been sent.
LEMMA SentGrows == Next => sent \subseteq sent'
<1> SUFFICES ASSUME Next PROVE sent \subseteq sent'
  OBVIOUS
<1>1. ASSUME NEW o \in Orders,
             CreateOrder(o) \/ ReserveStock(o) \/ ReserveFails(o) \/ ProcessPayment(o)
      PROVE  sent \subseteq sent'
  BY <1>1 DEF CreateOrder, ReserveStock, ReserveFails, ProcessPayment
<1>2. ASSUME NEW w \in Workers,
             Handle(w) \/ HandlerFails(w) \/ \E e \in sent : ReadOrder(w, e)
      PROVE  sent \subseteq sent'
  BY <1>2 DEF Handle, HandleInventoryReserved, HandleInventoryReserveFailed,
              HandlePaymentSuccess, HandlePaymentFailed, Compensate, HandlerFails, ReadOrder
<1>3. ASSUME NEW s \in Sweepers, Sweep(s) \/ SweepFails(s) PROVE sent \subseteq sent'
  BY <1>3 DEF Sweep, ReadStale, CommitSweep, Compensate, SweepFails
<1>4. ASSUME NEW e \in sent, NEW reached \in SUBSET Products, ReleaseStock(e, reached)
      PROVE  sent \subseteq sent'
  BY <1>4 DEF ReleaseStock
<1> QED BY <1>1, <1>2, <1>3, <1>4 DEF Next

\* Each order that nobody compensates follows the documented state machine,
\* whatever happens to the others: the order service's unlocked read and write
\* cannot lose an update of it.
THEOREM UndisturbedLifecycle == Spec => FollowsLifecycleUntilUndone
<1> DEFINE Edge(o) == \/ status[o] = "NONE" /\ status'[o] = "PENDING"
                      \/ status[o] = "PENDING" /\ status'[o] = "STOCK_RESERVED"
                      \/ status[o] = "STOCK_RESERVED" /\ status'[o] = "CONFIRMED"
                      \/ status[o] \in Open /\ status'[o] = "CANCELLED_NO_STOCK"
<1>1. UndisturbedInv /\ [Next]_vars =>
        [\A o \in Orders : status'[o] # status[o] /\ ~Undone(o)' => Edge(o)]_vars
  <2> SUFFICES ASSUME UndisturbedInv, Next, NEW o \in Orders,
                      status'[o] # status[o], ~Undone(o)'
               PROVE  Edge(o)
    OBVIOUS
  <2>1. SagaInv /\ TypeOK
    BY DEF UndisturbedInv, SagaInv
  <2>2. ~Undone(o)
    BY SentGrows, UndoneMonotone
  <2>3. CASE CreateOrder(o)
    BY <2>1, <2>3 DEF CreateOrder, TypeOK
  <2>4. ASSUME NEW w \in Workers, Handle(w), task[w].order = o PROVE Edge(o)
    BY <2>2, <2>4, HandlerEdge
  <2>5. ASSUME NEW s \in Sweepers, CommitSweep(s), o \in sweep[s] PROVE FALSE
    <3>1. PICK S \in SUBSET Orders : S = sweep[s] /\ Compensate(S)
      BY <2>1, <2>5 DEF TypeOK, CommitSweep
    <3>2. WasCancelled(o)'
      BY <2>1, <2>5, <3>1, CompensateOK DEF CommitSweep
    <3> QED BY <3>2, SentGrows, UndoneMonotone
  <2> QED BY <2>1, <2>3, <2>4, <2>5, StatusWriters
<1> QED BY <1>1, UndisturbedInvariance, PTL DEF Spec, FollowsLifecycleUntilUndone

\* In a quiet system in which nothing is compensated, the stock that was
\* reserved is that of the orders whose status says so.
LEMMA QuietAgreement == UndisturbedInv => ConsistentUntilUndone
<1> SUFFICES ASSUME UndisturbedInv, \A o \in Orders : ~Undone(o), Quiescent,
                    NEW p \in Products
             PROVE  stock[p].reserved =
                      Demand({o \in Orders : status[o] \in {"STOCK_RESERVED", "CONFIRMED"}}, p)
  BY DEF ConsistentUntilUndone, ConsistentWhenQuiet
<1>1. ASSUME NEW o \in Orders
      PROVE  status[o] \in {"STOCK_RESERVED", "CONFIRMED"} <=> WasReserved(o)
  <2>1. /\ WasReserved(o) => Once("InventoryReserved", o) \in orderInbox
        /\ orderInbox \subseteq sent
        /\ StatusBacked(o, status[o]) /\ ReservationShown(o)
    BY EventFields DEF Quiescent, WasReserved, Once, SagaTypes, UndisturbedInv, SagaInv, TypeOK
  <2> QED BY <2>1 DEF StatusBacked, ReservationShown, WasReserved
<1>2. {o \in Orders : status[o] \in {"STOCK_RESERVED", "CONFIRMED"}} =
        {o \in Orders : WasReserved(o)}
  BY <1>1
<1>3. stock[p].reserved = Demand({o \in Orders : WasReserved(o)}, p)
  BY DEF UndisturbedInv, StockHeld
<1> QED BY <1>2, <1>3

\* As long as no payment fails and no order is cancelled, the two services
\* agree whenever all events have been processed.
THEOREM ConsistentUntilCompensated == Spec => []ConsistentUntilUndone
<1> QED BY QuietAgreement, UndisturbedInvariance, PTL

-----------------------------------------------------------------------------
(* A system without timeouts and declined payments.                        *)

\* Nothing in it is ever compensated.
LEMMA NothingUndone ==
    ASSUME Sweepers = {}, Declined = {}
    PROVE  Spec => [](\A o \in Orders : ~Undone(o))
<1> DEFINE Calm == \A e \in sent : e.type \notin {"PaymentFailed", "OrderCancelled"}
<1>1. Init => Calm
  BY DEF Init
<1>2. UndisturbedInv /\ Calm /\ [Next]_vars => Calm'
  <2> SUFFICES ASSUME UndisturbedInv, Calm, [Next]_vars PROVE Calm'
    OBVIOUS
  <2>1. ASSUME NEW o \in Orders,
               CreateOrder(o) \/ ReserveStock(o) \/ ReserveFails(o) \/ ProcessPayment(o)
        PROVE  Calm'
    BY <2>1 DEF CreateOrder, ReserveStock, ReserveFails, ProcessPayment, Once, Ev
  <2>2. ASSUME NEW w \in Workers, ~HandlePaymentFailed(w),
               Handle(w) \/ HandlerFails(w) \/ \E e \in sent : ReadOrder(w, e)
        PROVE  Calm'
    BY <2>2 DEF Handle, HandleInventoryReserved, HandleInventoryReserveFailed,
                HandlePaymentSuccess, HandlerFails, ReadOrder
  <2>3. ASSUME NEW w \in Workers, HandlePaymentFailed(w) PROVE FALSE
    BY <2>3 DEF HandlePaymentFailed, CommitInbox, UndisturbedInv, SagaInv, TaskBacked
  <2>4. ASSUME NEW e \in sent, NEW reached \in SUBSET Products, ReleaseStock(e, reached)
        PROVE  FALSE
    BY <2>4 DEF ReleaseStock
  <2>5. CASE UNCHANGED vars
    BY <2>5 DEF vars
  <2> HIDE DEF Calm
  <2> QED BY <2>1, <2>2, <2>3, <2>4, <2>5 DEF Next
<1>3. Calm => \A o \in Orders : ~Undone(o)
  BY DEF Undone
<1> QED BY <1>1, <1>2, <1>3, UndisturbedInvariance, PTL DEF Spec

\* Without timeouts and declined payments the saga is the documented state
\* machine: the order service implements OrderLifecycle.
THEOREM QuietLifecycle ==
    ASSUME Sweepers = {}, Declined = {}
    PROVE  Spec => FollowsLifecycle
<1>1. Init => Lifecycle!LifecycleInit
  BY DEF Init, Lifecycle!LifecycleInit
<1>2. UndisturbedInv /\ (\A o \in Orders : ~Undone(o)) /\ [Next]_vars =>
        [Lifecycle!LifecycleNext]_status
  <2> SUFFICES ASSUME UndisturbedInv, \A o \in Orders : ~Undone(o), Next, status' # status
               PROVE  Lifecycle!LifecycleNext
    BY DEF vars, orderVars
  <2>1. SagaInv /\ status \in [Orders -> Statuses]
    BY DEF UndisturbedInv, SagaInv, TypeOK
  <2>2. ASSUME NEW o \in Orders, CreateOrder(o) PROVE Lifecycle!LifecycleNext
    <3>1. Lifecycle!Move({o}, {"NONE"}, "PENDING")
      BY <2>1, <2>2 DEF CreateOrder, Lifecycle!Move
    <3> QED BY <3>1 DEF Lifecycle!LifecycleNext
  <2>3. ASSUME NEW w \in Workers, Handle(w) PROVE Lifecycle!LifecycleNext
    <3>1. PICK o \in Orders : task[w].order = o
      BY <2>1, <2>3, TaskFacts DEF Handle, HandleInventoryReserved,
         HandleInventoryReserveFailed, HandlePaymentSuccess, HandlePaymentFailed, SagaTypes
    <3>2. status'[o] # status[o]
      <4>1. /\ \A q \in Orders \ {o} : status'[q] = status[q]
            /\ status' = [q \in Orders |-> status'[q]]
        BY <2>1, <2>3, <3>1 DEF Handle, HandleInventoryReserved,
           HandleInventoryReserveFailed, HandlePaymentSuccess, HandlePaymentFailed, Transition
      <4> QED BY <2>1, <4>1
    <3>3. /\ \/ status[o] = "PENDING" /\ status'[o] = "STOCK_RESERVED"
             \/ status[o] = "STOCK_RESERVED" /\ status'[o] = "CONFIRMED"
             \/ status[o] \in Open /\ status'[o] = "CANCELLED_NO_STOCK"
          /\ status' = [q \in Orders |-> IF q \in {o} THEN status'[o] ELSE status[q]]
      BY <2>3, <3>1, <3>2, HandlerEdge
    <3>4. \/ Lifecycle!Move({o}, {"PENDING"}, "STOCK_RESERVED")
          \/ Lifecycle!Move({o}, {"STOCK_RESERVED"}, "CONFIRMED")
          \/ Lifecycle!Move({o}, Lifecycle!Open, "CANCELLED_NO_STOCK")
      BY <3>3 DEF Lifecycle!Move, Lifecycle!Open, Open
    <3> QED BY <3>4 DEF Lifecycle!LifecycleNext
  <2>4. \E o \in Orders : status'[o] # status[o]
    <3>1. status' = [o \in Orders |-> status'[o]]
      BY <2>1 DEF Next, CreateOrder, ReserveStock, ReserveFails, ProcessPayment, orderVars,
         Handle, HandleInventoryReserved, HandleInventoryReserveFailed, HandlePaymentSuccess,
         HandlePaymentFailed, HandlerFails, ReadOrder, Transition, ReleaseStock
    <3> QED BY <2>1, <3>1
  <2> QED BY <2>1, <2>2, <2>3, <2>4, StatusWriters
<1> QED BY <1>1, <1>2, NothingUndone, UndisturbedInvariance, PTL
       DEF Spec, FollowsLifecycle, Lifecycle!LifecycleSpec

\* Without timeouts and declined payments, stock and orders agree whenever all
\* events have been processed, however often each was delivered.
THEOREM QuietConsistency ==
    ASSUME Sweepers = {}, Declined = {}
    PROVE  Spec => []ConsistentWhenQuiet
<1>1. ConsistentUntilUndone /\ (\A o \in Orders : ~Undone(o)) => ConsistentWhenQuiet
  BY DEF ConsistentUntilUndone
<1> QED BY <1>1, NothingUndone, ConsistentUntilCompensated, PTL

=============================================================================
