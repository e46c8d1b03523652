--------------------------- MODULE InventoryStock ---------------------------
(***************************************************************************)
(* The inventory service's stock rows, as the HTTP handlers and the Kafka   *)
(* consumer really change them:                                             *)
(*                                                                         *)
(*   - a session reads a row, changes the object in memory (autoflush is    *)
(*     off) and writes it when the session commits; the UPDATE carries      *)
(*     WHERE version = <the version read> (version_id_col), so a row that   *)
(*     changed in between raises StaleDataError and rolls the session back; *)
(*   - restock and the two event handlers wrap each row's read in a Redis   *)
(*     lock, which is given back before the commit and may expire at any    *)
(*     moment; reserve_batch takes no lock and retries on StaleDataError.   *)
(*                                                                         *)
(* Flush and commit are one step here: from flush to commit PostgreSQL      *)
(* holds the row's write lock, so no other transaction can write the row in *)
(* between, and one that waits for it re-evaluates its WHERE afterwards.    *)
(***************************************************************************)
EXTENDS Integers, FiniteSets

CONSTANTS
    Products,           \* product ids
    Carts,              \* item lists: [Products -> Nat], 0 = not in the list
    RestockQuantities,  \* quantities restock is called with
    Workers,            \* concurrent requests and event handlers
    Nobody,             \* the value of a lock key that does not exist
    MaxRetries,         \* max_retries of reserve_batch
    MaxVersion          \* bound: no new request for a row whose version is there

ASSUME CartsAssumption == Carts \subseteq [Products -> Nat]
ASSUME QuantityAssumption == RestockQuantities \subseteq Nat \ {0}
ASSUME NobodyAssumption == Nobody \notin Workers
ASSUME RetriesAssumption == MaxRetries \in Nat \ {0}
ASSUME BoundAssumption == MaxVersion \in Nat

VARIABLES
    inventory,  \* the committed rows: product -> Row
    lock,       \* Redis: product -> the worker whose token the key holds
    op,         \* worker -> the operation it runs, "idle" between two
    cart,       \* worker -> the item list of the operation
    stage,      \* worker -> where it stands, see Stages
    todo,       \* worker -> the products its loop has not visited yet
    at,         \* worker -> the product inside whose lock it is
    failed,     \* workers whose reservation ran out of stock: their loop
                \*    now takes back what they had reserved
    attempt,    \* worker -> attempt of reserve_batch, from 0
    loaded,     \* worker -> the products whose row object is in its session
    base,       \* worker -> product -> that row as it was loaded
    row,        \* worker -> product -> the row object as it is now
    supplied    \* history: product -> everything restocked and committed

session == <<op, cart, stage, todo, at, failed, attempt, loaded, base, row>>
vars == <<inventory, lock, session, supplied>>

Row == [available: Int, reserved: Int, version: Nat]

\* A product before its first restock; a row in the table has version >= 1.
NoRow == [available |-> 0, reserved |-> 0, version |-> 0]
NoRows == [p \in Products |-> NoRow]
NoItems == [p \in Products |-> 0]

\* The operations whose loop body runs inside acquire_lock.
LockedOps == {"restock", "order_created", "release"}
ReserveOps == {"order_created", "reserve_batch"}
Ops == LockedOps \union ReserveOps \union {"idle"}

\* "items":  in the loop over the item list, outside any lock
\* "body":   inside the lock of product at, before the row is read
\* "exit":   the body is done, the lock is about to be given back
\* "commit": the handler has returned, the session will commit
Stages == {"items", "body", "exit", "commit"}

\* for attempt in range(max_retries)
Attempts == 0 .. (MaxRetries - 1)

TypeOK ==
    /\ inventory \in [Products -> Row]
    /\ lock \in [Products -> Workers \union {Nobody}]
    /\ op \in [Workers -> Ops]
    /\ cart \in [Workers -> [Products -> Nat]]
    /\ stage \in [Workers -> Stages]
    /\ todo \in [Workers -> SUBSET Products]
    /\ at \in [Workers -> Products \union {Nobody}]
    /\ failed \in SUBSET Workers
    /\ attempt \in [Workers -> Attempts]
    /\ loaded \in [Workers -> SUBSET Products]
    /\ base \in [Workers -> [Products -> Row]]
    /\ row \in [Workers -> [Products -> Row]]
    /\ supplied \in [Products -> Nat]

Init ==
    /\ inventory = NoRows
    /\ lock = [p \in Products |-> Nobody]
    /\ op = [w \in Workers |-> "idle"]
    /\ cart = [w \in Workers |-> NoItems]
    /\ stage = [w \in Workers |-> "commit"]
    /\ todo = [w \in Workers |-> {}]
    /\ at = [w \in Workers |-> Nobody]
    /\ failed = {}
    /\ attempt = [w \in Workers |-> 0]
    /\ loaded = [w \in Workers |-> {}]
    /\ base = [w \in Workers |-> NoRows]
    /\ row = [w \in Workers |-> NoRows]
    /\ supplied = NoItems

-----------------------------------------------------------------------------
(* Rows.                                                                   *)

Present(r) == r.version > 0

Enough(r, q) == Present(r) /\ r.available >= q

\* What the loop bodies do to a row object; every change bumps the version.
Deducted(r, q) ==
    [available |-> r.available - q, reserved |-> r.reserved + q,
     version |-> r.version + 1]

TakenBack(r, q) ==
    [available |-> r.available + q, reserved |-> r.reserved - q,
     version |-> r.version + 1]

ReleaseQty(r, q) == IF r.reserved < q THEN r.reserved ELSE q

Released(r, q) ==
    IF Present(r)
    THEN [available |-> r.available + ReleaseQty(r, q),
          reserved |-> r.reserved - ReleaseQty(r, q),
          version |-> r.version + 1]
    ELSE r

\* A new row starts at version 1, which is also 0 + 1.
Restocked(r, q) ==
    [available |-> r.available + q, reserved |-> r.reserved,
     version |-> r.version + 1]

-----------------------------------------------------------------------------
(* Sessions.                                                               *)

\* The products of an item list.
Lines(c) == {p \in Products : c[p] > 0}

\* A select: the object already in the session wins over the table.
Selected(w, p) == IF p \in loaded[w] THEN row[w][p] ELSE inventory[p]

\* The session holds row object r for p from here on.
Hold(w, p, r) ==
    /\ loaded' = [loaded EXCEPT ![w] = @ \union {p}]
    /\ base' = [base EXCEPT ![w][p] = IF p \in loaded[w] THEN @ ELSE inventory[p]]
    /\ row' = [row EXCEPT ![w][p] = r]

\* The row objects the commit will write.
Dirty(w) == {p \in loaded[w] : row[w][p] # base[w][p]}

\* Mutant: no version_id_col, the UPDATE always matches.
FreshAlways(w) == TRUE

\* UPDATE ... WHERE version = <loaded version> matches for every dirty row;
\* for a new row, the primary key is still free.
Fresh(w) == \A p \in Dirty(w) : inventory[p].version = base[w][p].version

\* A new session for an operation on item list c.
Open(w, name, c, n) ==
    /\ op' = [op EXCEPT ![w] = name]
    /\ cart' = [cart EXCEPT ![w] = c]
    /\ stage' = [stage EXCEPT ![w] = IF Lines(c) = {} THEN "commit" ELSE "items"]
    /\ todo' = [todo EXCEPT ![w] = Lines(c)]
    /\ at' = [at EXCEPT ![w] = Nobody]
    /\ failed' = failed \ {w}
    /\ attempt' = [attempt EXCEPT ![w] = n]
    /\ loaded' = [loaded EXCEPT ![w] = {}]
    /\ base' = [base EXCEPT ![w] = NoRows]
    /\ row' = [row EXCEPT ![w] = NoRows]

Close(w) == Open(w, "idle", NoItems, 0)

Begin(w, name, c) ==
    /\ op[w] = "idle"
    /\ \A p \in Lines(c) : inventory[p].version < MaxVersion
    /\ Open(w, name, c, 0)
    /\ UNCHANGED <<inventory, lock, supplied>>

BeginRestock(w, p, q) == Begin(w, "restock", [NoItems EXCEPT ![p] = q])

BeginReserveBatch(w, c) == Begin(w, "reserve_batch", c)

BeginOrderCreated(w, c) == Begin(w, "order_created", c)

BeginRelease(w, c) == Begin(w, "release", c)

-----------------------------------------------------------------------------
(* acquire_lock.                                                           *)

\* SET key token NX EX 10 found no key.
AcquireLock(w, p) ==
    /\ op[w] \in LockedOps
    /\ stage[w] = "items"
    /\ p \in todo[w]
    /\ lock[p] = Nobody
    /\ lock' = [lock EXCEPT ![p] = w]
    /\ stage' = [stage EXCEPT ![w] = "body"]
    /\ at' = [at EXCEPT ![w] = p]
    /\ todo' = [todo EXCEPT ![w] = @ \ {p}]
    /\ UNCHANGED <<inventory, op, cart, failed, attempt, loaded, base, row, supplied>>

\* Mutant: acquire_lock polls for ever.
LockFailsNever(w) == FALSE

\* TimeoutError after five seconds of polling, or Redis is unreachable.
\* _handle_release_stock catches it and its session commits what it has; the
\* other operations roll back.
LockFails(w) ==
    /\ op[w] \in LockedOps
    /\ stage[w] = "items"
    /\ IF op[w] = "release"
       THEN /\ stage' = [stage EXCEPT ![w] = "commit"]
            /\ todo' = [todo EXCEPT ![w] = {}]
            /\ UNCHANGED <<op, cart, at, failed, attempt, loaded, base, row>>
       ELSE Close(w)
    /\ UNCHANGED <<inventory, lock, supplied>>

\* The Lua script: delete the key only while it holds this worker's token.
\* When Redis cannot be reached the error is logged and the key stays.
ExitLock(w) ==
    /\ stage[w] = "exit"
    /\ \/ lock' = [lock EXCEPT ![at[w]] = IF @ = w THEN Nobody ELSE @]
       \/ UNCHANGED lock
    /\ stage' = [stage EXCEPT ![w] = IF todo[w] = {} THEN "commit" ELSE "items"]
    /\ at' = [at EXCEPT ![w] = Nobody]
    /\ UNCHANGED <<inventory, op, cart, todo, failed, attempt, loaded, base, row, supplied>>

\* EX 10 runs out, whatever the owner is doing.
LockExpires(p) ==
    /\ lock[p] # Nobody
    /\ lock' = [lock EXCEPT ![p] = Nobody]
    /\ UNCHANGED <<inventory, session, supplied>>

-----------------------------------------------------------------------------
(* The bodies of the loops: read the row, change the object.               *)

RestockRow(w) ==
    /\ op[w] = "restock"
    /\ stage[w] = "body"
    /\ Hold(w, at[w], Restocked(Selected(w, at[w]), cart[w][at[w]]))
    /\ stage' = [stage EXCEPT ![w] = "exit"]
    /\ UNCHANGED <<inventory, lock, op, cart, todo, at, failed, attempt, supplied>>

ReserveRow(w) ==
    /\ op[w] = "order_created"
    /\ stage[w] = "body"
    /\ w \notin failed
    /\ Enough(Selected(w, at[w]), cart[w][at[w]])
    /\ Hold(w, at[w], Deducted(Selected(w, at[w]), cart[w][at[w]]))
    /\ stage' = [stage EXCEPT ![w] = "exit"]
    /\ UNCHANGED <<inventory, lock, op, cart, todo, at, failed, attempt, supplied>>

\* Mutant: failed = True; break without the loop that takes lines back.
OutOfStockKeepsLines(w) ==
    /\ op[w] = "order_created"
    /\ stage[w] = "body"
    /\ w \notin failed
    /\ ~Enough(Selected(w, at[w]), cart[w][at[w]])
    /\ Hold(w, at[w], Selected(w, at[w]))
    /\ failed' = failed \union {w}
    /\ todo' = [todo EXCEPT ![w] = {}]
    /\ stage' = [stage EXCEPT ![w] = "exit"]
    /\ UNCHANGED <<inventory, lock, op, cart, at, attempt, supplied>>

\* failed = True; break: the loop that follows visits reserved_items.
OutOfStock(w) ==
    /\ op[w] = "order_created"
    /\ stage[w] = "body"
    /\ w \notin failed
    /\ ~Enough(Selected(w, at[w]), cart[w][at[w]])
    /\ Hold(w, at[w], Selected(w, at[w]))
    /\ failed' = failed \union {w}
    /\ todo' = [todo EXCEPT ![w] = Dirty(w)]
    /\ stage' = [stage EXCEPT ![w] = "exit"]
    /\ UNCHANGED <<inventory, lock, op, cart, at, attempt, supplied>>

TakeBackRow(w) ==
    /\ op[w] = "order_created"
    /\ stage[w] = "body"
    /\ w \in failed
    /\ Hold(w, at[w], TakenBack(Selected(w, at[w]), cart[w][at[w]]))
    /\ stage' = [stage EXCEPT ![w] = "exit"]
    /\ UNCHANGED <<inventory, lock, op, cart, todo, at, failed, attempt, supplied>>

ReleaseRow(w) ==
    /\ op[w] = "release"
    /\ stage[w] = "body"
    /\ Hold(w, at[w], Released(Selected(w, at[w]), cart[w][at[w]]))
    /\ stage' = [stage EXCEPT ![w] = "exit"]
    /\ UNCHANGED <<inventory, lock, op, cart, todo, at, failed, attempt, supplied>>

\* One line of reserve_batch, which takes no lock.
BatchRow(w, p) ==
    /\ op[w] = "reserve_batch"
    /\ stage[w] = "items"
    /\ p \in todo[w]
    /\ Enough(Selected(w, p), cart[w][p])
    /\ Hold(w, p, Deducted(Selected(w, p), cart[w][p]))
    /\ todo' = [todo EXCEPT ![w] = @ \ {p}]
    /\ stage' = [stage EXCEPT ![w] = IF todo[w] = {p} THEN "commit" ELSE "items"]
    /\ UNCHANGED <<inventory, lock, op, cart, at, failed, attempt, supplied>>

\* ValidationException: nothing of the batch is kept.
BatchRejected(w, p) ==
    /\ op[w] = "reserve_batch"
    /\ stage[w] = "items"
    /\ p \in todo[w]
    /\ ~Enough(Selected(w, p), cart[w][p])
    /\ Close(w)
    /\ UNCHANGED <<inventory, lock, supplied>>

-----------------------------------------------------------------------------
(* The end of a session.                                                   *)

Commit(w) ==
    /\ op[w] # "idle"
    /\ stage[w] = "commit"
    /\ Fresh(w)
    /\ inventory' = [p \in Products |-> IF p \in Dirty(w) THEN row[w][p]
                                                          ELSE inventory[p]]
    /\ supplied' = [p \in Products |-> IF op[w] = "restock"
                                       THEN supplied[p] + cart[w][p]
                                       ELSE supplied[p]]
    /\ Close(w)
    /\ UNCHANGED lock

\* StaleDataError, or a duplicate primary key for a new row: roll back.
\* reserve_batch starts over with an empty session until its last attempt.
Conflict(w) ==
    /\ op[w] # "idle"
    /\ stage[w] = "commit"
    /\ ~Fresh(w)
    /\ IF op[w] = "reserve_batch" /\ attempt[w] < MaxRetries - 1
       THEN Open(w, op[w], cart[w], attempt[w] + 1)
       ELSE Close(w)
    /\ UNCHANGED <<inventory, lock, supplied>>

\* The process dies: PostgreSQL rolls back, the Redis key stays.
Crash(w) ==
    /\ op[w] # "idle"
    /\ Close(w)
    /\ UNCHANGED <<inventory, lock, supplied>>

Step(w) ==
    \/ \E p \in Products : AcquireLock(w, p) \/ BatchRow(w, p) \/ BatchRejected(w, p)
    \/ LockFails(w) \/ ExitLock(w)
    \/ RestockRow(w) \/ ReleaseRow(w)
    \/ ReserveRow(w) \/ OutOfStock(w) \/ TakeBackRow(w)
    \/ Commit(w) \/ Conflict(w)

Request(w) ==
    \/ \E p \in Products, q \in RestockQuantities : BeginRestock(w, p, q)
    \/ \E c \in Carts : \/ BeginReserveBatch(w, c)
                        \/ BeginOrderCreated(w, c)
                        \/ BeginRelease(w, c)

Next ==
    \/ \E w \in Workers : Step(w) \/ Request(w) \/ Crash(w)
    \/ \E p \in Products : LockExpires(p)

Spec == Init /\ [][Next]_vars

\* A running handler keeps running; nothing makes anyone send a request, and
\* nothing makes a process crash or a key expire.
FairSpec == Spec /\ \A w \in Workers : WF_vars(Step(w))

-----------------------------------------------------------------------------
(* Properties.                                                             *)

\* Whatever restock, reserve_batch and the two event handlers do at the same
\* time, with locks expiring under them and sessions dying half way, no
\* quantity goes below zero and every unit ever restocked is either available
\* or reserved: no update is lost and none is applied twice.
StockSound ==
    \A p \in Products :
        /\ inventory[p].available >= 0
        /\ inventory[p].reserved >= 0
        /\ inventory[p].available + inventory[p].reserved = supplied[p]

\* What version_id_col relies on: a row that changes never keeps or goes back
\* to a version some open session may have read.
VersionAdvances ==
    [][\A p \in Products :
          inventory'[p] # inventory[p] =>
              inventory'[p].version > inventory[p].version]_vars

\* The stock as StockLedger sees it, without versions.
stock == [p \in Products |-> [available |-> inventory[p].available,
                              reserved  |-> inventory[p].reserved]]

Ledger == INSTANCE StockLedger

\* The sessions together behave as if each operation were applied to its whole
\* item list at once, although rows are read one by one, under locks that are
\* given back before the commit.
AtomicStock == Ledger!LedgerSpec

\* Every request and every event handler comes to an end, although lock keys
\* may be left behind by dead processes and reserve_batch retries conflicts.
SessionsEnd == \A w \in Workers : op[w] # "idle" ~> op[w] = "idle"

-----------------------------------------------------------------------------
(* The inductive invariant behind StockSound and AtomicStock.              *)

RowOK(r) ==
    /\ r.available >= 0
    /\ r.reserved >= 0
    /\ Present(r) \/ r = NoRow

\* Products the loop has yet to treat.
Pending(w) == todo[w] \union (IF stage[w] = "body" THEN {at[w]} ELSE {})

\* Row object r holds the stock it was loaded with, as b.
SameStock(r, b) ==
    /\ r.available = b.available
    /\ r.reserved = b.reserved
    /\ r = b \/ r.version > b.version

\* What the loop has made of the row object of p, loaded as b, which is r by
\* now, for q units of it.
LineOK(w, p, r, b, q) ==
    /\ op[w] \in ReserveOps /\ w \notin failed =>
          IF q > 0 /\ p \notin Pending(w)
          THEN p \in loaded[w] /\ Enough(b, q) /\ r = Deducted(b, q)
          ELSE r = b
    /\ w \in failed =>
          IF p \in Pending(w)
          THEN p \in loaded[w] /\ Enough(b, q) /\ r = Deducted(b, q)
          ELSE SameStock(r, b)
    /\ op[w] = "restock" =>
          IF q > 0 /\ p \notin Pending(w)
          THEN p \in loaded[w] /\ r = Restocked(b, q)
          ELSE r = b
    /\ op[w] = "release" =>
          \/ r = b
          \/ p \in loaded[w] /\ p \notin Pending(w) /\ r = Released(b, q)

CartOK(w) ==
    /\ op[w] \in {"reserve_batch", "order_created", "release"} => cart[w] \in Carts
    /\ op[w] = "restock" => \E p \in Products, q \in RestockQuantities :
                                cart[w] = [NoItems EXCEPT ![p] = q]

StageOK(w) ==
    /\ stage[w] \in {"body", "exit"} => op[w] \in LockedOps /\ at[w] \in Products
    /\ stage[w] = "body" => at[w] \notin todo[w] /\ cart[w][at[w]] > 0
    /\ \A p \in todo[w] : cart[w][p] > 0
    /\ stage[w] = "commit" => todo[w] = {}
    /\ w \in failed => op[w] = "order_created"

\* A loaded row is a row the table has had: it is the present one unless the
\* version says otherwise.
SnapshotOK(w, p) ==
    /\ RowOK(base[w][p])
    /\ p \in loaded[w] =>
          /\ base[w][p].version <= inventory[p].version
          /\ base[w][p].version = inventory[p].version => base[w][p] = inventory[p]
    /\ p \notin loaded[w] => row[w][p] = base[w][p]

WorkerOK(w) ==
    /\ CartOK(w)
    /\ StageOK(w)
    /\ \A p \in Products :
          /\ SnapshotOK(w, p)
          /\ LineOK(w, p, row[w][p], base[w][p], cart[w][p])

\* Every open session holds rows the table has had, changed by exactly the
\* lines of its operation that its loop has treated so far.
SessionsSound == \A w \in Workers : WorkerOK(w)

IndInv ==
    /\ TypeOK
    /\ StockSound
    /\ SessionsSound
    /\ \A p \in Products : RowOK(inventory[p])

=============================================================================
