----------------------------- MODULE OrderSaga -----------------------------
(***************************************************************************)
(* The checkout saga: the order, inventory and payment services, which only *)
(* talk through events.                                                     *)
(*                                                                         *)
(*   - A handler writes its events to its service's outbox in the same      *)
(*     transaction as its other changes, so an event exists in sent exactly *)
(*     when its transaction committed.  From there it reaches the consumers *)
(*     in any order, any number of times, or never.                         *)
(*   - A consumer records the event's id in its inbox, whose id column is   *)
(*     unique, in the handler's transaction: of two deliveries of one event *)
(*     that run at the same time the second fails to commit.                *)
(*   - The order service reads an order's row, decides, and writes it later *)
(*     without checking that it still is what it read (orders have no       *)
(*     version).  Its handlers and the sweeper's batches are therefore two  *)
(*     steps each, a read and a commit.                                     *)
(*   - The inventory service's handlers are single steps on StockLedger,    *)
(*     which InventoryStock implements.  The payment service writes no row  *)
(*     that another handler reads: its handler is a single step.            *)
(***************************************************************************)
EXTENDS Integers, FiniteSets, FiniteSetsExt

CONSTANTS
    Orders,         \* order ids
    Products,       \* product ids
    Items,          \* order -> product -> quantity
    Supply,         \* product -> units restocked before the first order
    Declined,       \* orders whose items carry simulate_failure
    Workers,        \* the order service's consumer tasks, over all replicas
    Sweepers,       \* the order service's sweeper tasks, one per replica
    NoTask          \* what a worker handles between two events

ASSUME ItemsAssumption == Items \in [Orders -> [Products -> Nat]]
ASSUME SupplyAssumption == Supply \in [Products -> Nat]
ASSUME DeclinedAssumption == Declined \subseteq Orders

VARIABLES
    status,     \* orders.status: order -> Statuses
    cancels,    \* order -> number of OrderCancelledEvents written for it
    task,       \* worker -> the event whose handler has read its order
    seen,       \* worker -> the status that handler has read
    sweep,      \* sweeper -> the orders of the batch it has read
    orderInbox, \* events the order service has processed
    stock,      \* inventory rows, as StockLedger keeps them
    supplied,   \* history of StockLedger; constant here
    stockInbox, \* events the inventory service has processed
    charges,    \* order -> number of COMPLETED payments
    payInbox,   \* events the payment service has processed
    sent        \* every event any outbox has ever held

orderVars == <<status, cancels, task, seen, sweep, orderInbox>>
stockVars == <<stock, supplied, stockInbox>>
payVars == <<charges, payInbox>>
vars == <<orderVars, stockVars, payVars, sent>>

Open == {"PENDING", "STOCK_RESERVED"}
Settled == {"CONFIRMED", "CANCELLED", "CANCELLED_NO_STOCK"}
Statuses == {"NONE"} \union Open \union Settled

\* The event types the order service's handler knows.
SagaTypes == {"InventoryReserved", "InventoryReserveFailed",
              "PaymentSuccess", "PaymentFailed"}
Types == SagaTypes \union {"OrderCreated", "OrderCancelled", "InventoryReleased"}

\* Every event has an id of its own.  At most one event of a type is written
\* for an order, except OrderCancelled, of which n tells them apart.
Event == [type: Types, order: Orders, n: Nat]
Ev(t, o, n) == [type |-> t, order |-> o, n |-> n]
Once(t, o) == Ev(t, o, 0)

Ledger == INSTANCE StockLedger
          WITH Carts <- {Items[o] : o \in Orders}, RestockQuantities <- {}

TypeOK ==
    /\ status \in [Orders -> Statuses]
    /\ cancels \in [Orders -> Nat]
    /\ task \in [Workers -> Event \union {NoTask}]
    /\ seen \in [Workers -> Statuses]
    /\ sweep \in [Sweepers -> SUBSET Orders]
    /\ orderInbox \subseteq sent
    /\ stock \in [Products -> [available: Int, reserved: Int]]
    /\ supplied \in [Products -> Nat]
    /\ stockInbox \subseteq sent
    /\ charges \in [Orders -> Nat]
    /\ payInbox \subseteq sent
    /\ sent \subseteq Event

Init ==
    /\ status = [o \in Orders |-> "NONE"]
    /\ cancels = [o \in Orders |-> 0]
    /\ task = [w \in Workers |-> NoTask]
    /\ seen = [w \in Workers |-> "NONE"]
    /\ sweep = [s \in Sweepers |-> {}]
    /\ orderInbox = {}
    /\ stock = [p \in Products |-> [available |-> Supply[p], reserved |-> 0]]
    /\ supplied = Supply
    /\ stockInbox = {}
    /\ charges = [o \in Orders |-> 0]
    /\ payInbox = {}
    /\ sent = {}

-----------------------------------------------------------------------------
(* The order service.                                                      *)

\* OrderService.create_order, past its quota and idempotency checks.
CreateOrder(o) ==
    /\ status[o] = "NONE"
    /\ status' = [status EXCEPT ![o] = "PENDING"]
    /\ sent' = sent \union {Once("OrderCreated", o)}
    /\ UNCHANGED <<cancels, task, seen, sweep, orderInbox, stockVars, payVars>>

\* The handler finds the event's id not in the inbox and selects its order.
ReadOrder(w, e) ==
    /\ task[w] = NoTask
    /\ e.type \in SagaTypes
    /\ e \notin orderInbox
    /\ task' = [task EXCEPT ![w] = e]
    /\ seen' = [seen EXCEPT ![w] = status[e.order]]
    /\ UNCHANGED <<status, cancels, sweep, orderInbox, stockVars, payVars, sent>>

\* Mutant: the inbox's id column is not unique.
CommitInboxTwice(w, t) ==
    /\ task[w] # NoTask
    /\ task[w].type = t
    /\ orderInbox' = orderInbox \union {task[w]}
    /\ task' = [task EXCEPT ![w] = NoTask]
    /\ seen' = [seen EXCEPT ![w] = "NONE"]

\* The commit of a handler of events of type t: the inbox takes the id, once.
CommitInbox(w, t) ==
    /\ task[w] # NoTask
    /\ task[w].type = t
    /\ task[w] \notin orderInbox
    /\ orderInbox' = orderInbox \union {task[w]}
    /\ task' = [task EXCEPT ![w] = NoTask]
    /\ seen' = [seen EXCEPT ![w] = "NONE"]

\* An order that was read in one of the statuses of from gets status to.
Transition(w, from, to) ==
    status' = [status EXCEPT ![task[w].order] = IF seen[w] \in from THEN to ELSE @]

\* One OrderCancelledEvent for each order of S.
Compensate(S) ==
    /\ cancels' = [o \in Orders |-> IF o \in S THEN cancels[o] + 1 ELSE cancels[o]]
    /\ sent' = sent \union {Ev("OrderCancelled", o, cancels[o]) : o \in S}

\* Mutant: the handler tests for the status it should set.
HandleInventoryReservedLate(w) ==
    /\ CommitInbox(w, "InventoryReserved")
    /\ Transition(w, {"STOCK_RESERVED"}, "STOCK_RESERVED")
    /\ UNCHANGED <<cancels, sweep, stockVars, payVars, sent>>

HandleInventoryReserved(w) ==
    /\ CommitInbox(w, "InventoryReserved")
    /\ Transition(w, {"PENDING"}, "STOCK_RESERVED")
    /\ UNCHANGED <<cancels, sweep, stockVars, payVars, sent>>

HandleInventoryReserveFailed(w) ==
    /\ CommitInbox(w, "InventoryReserveFailed")
    /\ Transition(w, Open, "CANCELLED_NO_STOCK")
    /\ UNCHANGED <<cancels, sweep, stockVars, payVars, sent>>

HandlePaymentSuccess(w) ==
    /\ CommitInbox(w, "PaymentSuccess")
    /\ Transition(w, {"STOCK_RESERVED"}, "CONFIRMED")
    /\ UNCHANGED <<cancels, sweep, stockVars, payVars, sent>>

HandlePaymentFailed(w) ==
    /\ CommitInbox(w, "PaymentFailed")
    /\ Transition(w, Open, "CANCELLED")
    /\ Compensate(IF seen[w] \in Open THEN {task[w].order} ELSE {})
    /\ UNCHANGED <<sweep, stockVars, payVars>>

\* The transaction rolls back: the id is in the inbox by now, the database or
\* the breaker refuses, or the process dies.
HandlerFails(w) ==
    /\ task[w] # NoTask
    /\ task' = [task EXCEPT ![w] = NoTask]
    /\ seen' = [seen EXCEPT ![w] = "NONE"]
    /\ UNCHANGED <<status, cancels, sweep, orderInbox, stockVars, payVars, sent>>

\* Mutant: the query asks for PENDING orders only.
ReadStalePending(s, batch) ==
    /\ sweep[s] = {}
    /\ batch # {}
    /\ \A o \in batch : status[o] = "PENDING"
    /\ sweep' = [sweep EXCEPT ![s] = batch]
    /\ UNCHANGED <<status, cancels, task, seen, orderInbox, stockVars, payVars, sent>>

\* sweep_stale_sagas selects a batch of open orders past the timeout; any open
\* order may be that old.
ReadStale(s, batch) ==
    /\ sweep[s] = {}
    /\ batch # {}
    /\ \A o \in batch : status[o] \in Open
    /\ sweep' = [sweep EXCEPT ![s] = batch]
    /\ UNCHANGED <<status, cancels, task, seen, orderInbox, stockVars, payVars, sent>>

\* Mutant: no write_outbox in the sweeper.
CommitSweepSilently(s) ==
    /\ sweep[s] # {}
    /\ status' = [o \in Orders |-> IF o \in sweep[s] THEN "CANCELLED" ELSE status[o]]
    /\ sweep' = [sweep EXCEPT ![s] = {}]
    /\ UNCHANGED <<cancels, task, seen, orderInbox, stockVars, payVars, sent>>

\* It cancels the orders of the batch and compensates each of them.
CommitSweep(s) ==
    /\ sweep[s] # {}
    /\ status' = [o \in Orders |-> IF o \in sweep[s] THEN "CANCELLED" ELSE status[o]]
    /\ Compensate(sweep[s])
    /\ sweep' = [sweep EXCEPT ![s] = {}]
    /\ UNCHANGED <<task, seen, orderInbox, stockVars, payVars>>

SweepFails(s) ==
    /\ sweep[s] # {}
    /\ sweep' = [sweep EXCEPT ![s] = {}]
    /\ UNCHANGED <<status, cancels, task, seen, orderInbox, stockVars, payVars, sent>>

-----------------------------------------------------------------------------
(* The inventory service.                                                  *)

ReserveStock(o) ==
    LET e == Once("OrderCreated", o) IN
    /\ e \in sent \ stockInbox
    /\ Ledger!Reserve(Items[o])
    /\ stockInbox' = stockInbox \union {e}
    /\ sent' = sent \union {Once("InventoryReserved", o)}
    /\ UNCHANGED <<orderVars, payVars>>

ReserveFails(o) ==
    LET e == Once("OrderCreated", o) IN
    /\ e \in sent \ stockInbox
    /\ \E p \in Products : ~Ledger!Enough(stock[p], Items[o][p])
    /\ stockInbox' = stockInbox \union {e}
    /\ sent' = sent \union {Once("InventoryReserveFailed", o)}
    /\ UNCHANGED <<orderVars, payVars, stock, supplied>>

\* Both compensation events release, as many of the items as could be locked;
\* the confirmation is only written when that was all of them.
ReleaseStock(e, reached) ==
    /\ e \in sent \ stockInbox
    /\ e.type \in {"PaymentFailed", "OrderCancelled"}
    /\ Ledger!Release(Items[e.order], reached)
    /\ stockInbox' = stockInbox \union {e}
    /\ sent' = sent \union (IF reached = Products
                            THEN {Once("InventoryReleased", e.order)} ELSE {})
    /\ UNCHANGED <<orderVars, payVars>>

-----------------------------------------------------------------------------
(* The payment service.                                                    *)

\* Mutant: no inbox check before the charge.
ProcessPaymentAgain(o) ==
    LET e == Once("InventoryReserved", o) IN
    /\ e \in sent
    /\ charges[o] < 2
    /\ payInbox' = payInbox \union {e}
    /\ sent' = sent \union {Once("PaymentSuccess", o)}
    /\ charges' = [charges EXCEPT ![o] = @ + 1]
    /\ UNCHANGED <<orderVars, stockVars>>

\* Mutant: the payment record is not added to the session.
ProcessPaymentUnsaved(o) ==
    LET e == Once("InventoryReserved", o) IN
    /\ e \in sent \ payInbox
    /\ payInbox' = payInbox \union {e}
    /\ sent' = sent \union {Once("PaymentSuccess", o)}
    /\ UNCHANGED <<charges, orderVars, stockVars>>

ProcessPayment(o) ==
    LET e == Once("InventoryReserved", o) IN
    /\ e \in sent \ payInbox
    /\ payInbox' = payInbox \union {e}
    /\ IF o \in Declined
       THEN /\ sent' = sent \union {Once("PaymentFailed", o)}
            /\ UNCHANGED charges
       ELSE /\ sent' = sent \union {Once("PaymentSuccess", o)}
            /\ charges' = [charges EXCEPT ![o] = @ + 1]
    /\ UNCHANGED <<orderVars, stockVars>>

-----------------------------------------------------------------------------

Handle(w) ==
    \/ HandleInventoryReserved(w)
    \/ HandleInventoryReserveFailed(w)
    \/ HandlePaymentSuccess(w)
    \/ HandlePaymentFailed(w)

Sweep(s) == (\E batch \in SUBSET Orders : ReadStale(s, batch)) \/ CommitSweep(s)

Next ==
    \/ \E o \in Orders : \/ CreateOrder(o)
                         \/ ReserveStock(o) \/ ReserveFails(o)
                         \/ ProcessPayment(o)
    \/ \E w \in Workers : \/ \E e \in sent : ReadOrder(w, e)
                          \/ Handle(w)
                          \/ HandlerFails(w)
    \/ \E s \in Sweepers : Sweep(s) \/ SweepFails(s)
    \/ \E e \in sent, reached \in SUBSET Products : ReleaseStock(e, reached)

Spec == Init /\ [][Next]_vars

\* The sweeper loop survives every exception and comes round again, and a
\* commit that is tried again and again succeeds in the end.  Nothing is
\* assumed of event delivery or of the handlers.
SweeperFairness ==
    \A s \in Sweepers :
        /\ WF_vars(\E batch \in SUBSET Orders : ReadStale(s, batch))
        /\ SF_vars(CommitSweep(s))

FairSpec == Spec /\ SweeperFairness

-----------------------------------------------------------------------------
(* Safety.                                                                 *)

WasReserved(o) == Once("InventoryReserved", o) \in sent
WasCancelled(o) == \E e \in sent : e.type = "OrderCancelled" /\ e.order = o

\* However often and in whatever order events are delivered, an order has one
\* outcome of its reservation and one of its payment: the card is charged at
\* most once, only for reserved stock, and never for an order whose payment is
\* reported as failed.
OutcomesExclusive ==
    \A o \in Orders :
        /\ charges[o] <= 1
        /\ charges[o] = 1 <=> Once("PaymentSuccess", o) \in sent
        /\ ~(Once("PaymentSuccess", o) \in sent /\ Once("PaymentFailed", o) \in sent)
        /\ ~(WasReserved(o) /\ Once("InventoryReserveFailed", o) \in sent)
        /\ charges[o] = 1 => WasReserved(o)

\* An order is only confirmed when its stock was reserved and its card
\* charged, although the order service sees neither and acts on events that
\* may be late, repeated or out of order.
ConfirmedIsPaid ==
    \A o \in Orders : status[o] = "CONFIRMED" => WasReserved(o) /\ charges[o] = 1

\* No order whose stock was reserved ends up cancelled without an
\* OrderCancelledEvent that gives the stock back, whichever of the concurrent
\* handlers and sweepers wrote its status last.
CancelledIsCompensated ==
    \A o \in Orders :
        WasReserved(o) /\ status[o] \in {"CANCELLED", "CANCELLED_NO_STOCK"} =>
            WasCancelled(o)

\* The stock of the inventory service stays non-negative and complete, even
\* when compensations outnumber reservations.
UnitsAccounted ==
    \A p \in Products :
        /\ stock[p].available >= 0
        /\ stock[p].reserved >= 0
        /\ stock[p].available + stock[p].reserved = Supply[p]

\* A confirmed order stays confirmed against every late, repeated or concurrent
\* event handler: only the commit of a sweep, which also writes a compensation,
\* can take the status away.
ConfirmedUndoneOnlyBySweep ==
    [][\A o \in Orders :
          status[o] = "CONFIRMED" /\ status'[o] # "CONFIRMED" =>
              /\ status'[o] = "CANCELLED"
              /\ cancels'[o] > cancels[o]
              /\ \E s \in Sweepers : o \in sweep[s] /\ sweep'[s] = {}]_vars

\* Every event has been processed by every service that handles its type.
Quiescent ==
    \A e \in sent :
        /\ e.type \in SagaTypes => e \in orderInbox
        /\ e.type \in {"OrderCreated", "PaymentFailed", "OrderCancelled"} => e \in stockInbox
        /\ e.type = "InventoryReserved" => e \in payInbox

\* Units of p the orders of S ask for.
Demand(S, p) == MapThenSumSet(LAMBDA o : Items[o][p], S)

\* Eventual consistency: once every event has been processed everywhere, the
\* reserved stock is what the orders that are not cancelled hold.
ConsistentWhenQuiet ==
    Quiescent =>
        \A p \in Products :
            stock[p].reserved =
                Demand({o \in Orders : status[o] \in {"STOCK_RESERVED", "CONFIRMED"}}, p)

\* An event asks to give up o's reservation: its payment failed, or it was
\* cancelled.
Undone(o) ==
    \E e \in sent : e.order = o /\ e.type \in {"PaymentFailed", "OrderCancelled"}

\* As long as nothing is undone, stock and orders agree when quiet.
ConsistentUntilUndone == (\A o \in Orders : ~Undone(o)) => ConsistentWhenQuiet

\* A confirmed order is never touched again, by the sweeper or by anyone.
ConfirmedIsFinal ==
    [][\A o \in Orders : status[o] = "CONFIRMED" => status'[o] = "CONFIRMED"]_vars

Lifecycle == INSTANCE OrderLifecycle

\* Orders follow the documented saga state machine.
FollowsLifecycle == Lifecycle!LifecycleSpec

\* Until it is undone an order follows the documented state machine, also while
\* other orders time out or are declined: no handler writes a status over one
\* that another handler has written since it was read.
FollowsLifecycleUntilUndone ==
    [][\A o \in Orders : status'[o] # status[o] /\ ~Undone(o)' =>
          \/ status[o] = "NONE" /\ status'[o] = "PENDING"
          \/ status[o] = "PENDING" /\ status'[o] = "STOCK_RESERVED"
          \/ status[o] = "STOCK_RESERVED" /\ status'[o] = "CONFIRMED"
          \/ status[o] \in Open /\ status'[o] = "CANCELLED_NO_STOCK"]_vars

-----------------------------------------------------------------------------
(* Liveness.                                                               *)

\* With a sweeper running, no order stays open for ever, whatever events are
\* lost, late or handled while the sweeper works.
EveryOrderSettles ==
    \A o \in Orders : <>[](status[o] \in {"NONE"} \union Settled)

-----------------------------------------------------------------------------
(* The inductive invariant behind the safety properties.                   *)

\* Which events exist for o, and who has processed them.
EventsBacked(o) ==
    /\ WasReserved(o) \/ Once("InventoryReserveFailed", o) \in sent =>
          Once("OrderCreated", o) \in stockInbox
    /\ Once("PaymentSuccess", o) \in sent \/ Once("PaymentFailed", o) \in sent =>
          Once("InventoryReserved", o) \in payInbox

\* What has to have happened for o to have, or to have had, status st.
StatusBacked(o, st) ==
    /\ st \in {"STOCK_RESERVED", "CONFIRMED"} => Once("InventoryReserved", o) \in orderInbox
    /\ st = "CONFIRMED" => Once("PaymentSuccess", o) \in sent
    /\ st = "CANCELLED" => WasCancelled(o)
    /\ st = "CANCELLED_NO_STOCK" => Once("InventoryReserveFailed", o) \in sent

\* A handler runs for an event that was sent, on a status the order has had.
TaskBacked(w) ==
    task[w] # NoTask =>
        /\ task[w] \in sent
        /\ task[w].type \in SagaTypes
        /\ StatusBacked(task[w].order, seen[w])

\* Only OrderCancelled events are written more than once for an order.
IdsUnique == \A e \in sent : e.type # "OrderCancelled" => e = Once(e.type, e.order)

SagaInv ==
    /\ TypeOK
    /\ IdsUnique
    /\ OutcomesExclusive
    /\ UnitsAccounted
    /\ \A o \in Orders : EventsBacked(o) /\ StatusBacked(o, status[o])
    /\ \A w \in Workers : TaskBacked(w)

-----------------------------------------------------------------------------
(* What else holds of the orders nobody compensates.                       *)

\* The statuses a handler of events of type t moves an order from.
Awaited(t) ==
    CASE t = "InventoryReserved" -> {"PENDING"}
      [] t = "PaymentSuccess" -> {"STOCK_RESERVED"}
      [] OTHER -> Open

\* No event precedes its order, and a reservation that was taken in shows.
ReservationShown(o) ==
    /\ Once("OrderCreated", o) \in sent => status[o] # "NONE"
    /\ ~Undone(o) /\ Once("InventoryReserved", o) \in orderInbox =>
          status[o] \in {"STOCK_RESERVED", "CONFIRMED"}

\* What a handler has read is still so when it acts on it, although nothing
\* locks the order: every event that could have changed it is excluded by the
\* one in hand, or has to be processed after it.
ReadIsCurrent(w) ==
    task[w] # NoTask /\ task[w] \notin orderInbox /\ ~Undone(task[w].order) =>
        /\ seen[w] # "NONE"
        /\ seen[w] \in Awaited(task[w].type) => status[task[w].order] = seen[w]

\* The reserved stock is the demand of the orders it was reserved for.
StockHeld ==
    LET holders == {o \in Orders : WasReserved(o)} IN
    /\ IsFiniteSet(holders)
    /\ (\A o \in Orders : ~Undone(o)) =>
          \A p \in Products : stock[p].reserved = Demand(holders, p)

UndisturbedInv ==
    /\ SagaInv
    /\ \A o \in Orders : ReservationShown(o)
    /\ \A w \in Workers : ReadIsCurrent(w)
    /\ StockHeld

=============================================================================
