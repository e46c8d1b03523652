------------------------ MODULE InventoryStockProofs ------------------------
(***************************************************************************)
(* Theorems about InventoryStock, for any number of products, workers and   *)
(* requests.                                                                *)
(***************************************************************************)
EXTENDS InventoryStock, TLAPS

-----------------------------------------------------------------------------
(* Type correctness.                                                       *)

\* The row operations of the handlers yield rows.
LEMMA RowTypes ==
    ASSUME NEW r \in Row, NEW q \in Nat
    PROVE  /\ Deducted(r, q) \in Row
           /\ TakenBack(r, q) \in Row
           /\ Released(r, q) \in Row
           /\ Restocked(r, q) \in Row
  BY DEF Row, Present, Deducted, TakenBack, Released, ReleaseQty, Restocked

\* The values a session starts with have their types.
LEMMA EmptyTypes ==
    /\ NoRow \in Row
    /\ NoRows \in [Products -> Row]
    /\ NoItems \in [Products -> Nat]
    /\ 0 \in Attempts
    /\ \A p \in Products, q \in RestockQuantities :
          [NoItems EXCEPT ![p] = q] \in [Products -> Nat]
  BY QuantityAssumption, RetriesAssumption DEF NoRow, NoRows, NoItems, Row, Attempts

\* A new session keeps the types.
LEMMA OpenType ==
    ASSUME TypeOK, NEW w \in Workers, NEW name \in Ops,
           NEW c \in [Products -> Nat], NEW n \in Attempts, Open(w, name, c, n),
           UNCHANGED <<inventory, lock, supplied>>
    PROVE  TypeOK'
  BY EmptyTypes DEF TypeOK, Open, Lines, Stages

\* Holding a row object keeps the session's rows typed.
LEMMA HoldType ==
    ASSUME TypeOK, NEW w \in Workers, NEW p \in Products, NEW r \in Row, Hold(w, p, r)
    PROVE  /\ loaded' \in [Workers -> SUBSET Products]
           /\ base' \in [Workers -> [Products -> Row]]
           /\ row' \in [Workers -> [Products -> Row]]
  BY DEF TypeOK, Hold

\* What a select returns is a row.
LEMMA SelectedType ==
    ASSUME TypeOK, NEW w \in Workers, NEW p \in Products
    PROVE  Selected(w, p) \in Row
  BY DEF TypeOK, Selected

-----------------------------------------------------------------------------
(* Sessions a step leaves alone, and sessions it opens.                    *)

\* The step does not touch the session of v.
Untouched(v) ==
    /\ op'[v] = op[v]
    /\ cart'[v] = cart[v]
    /\ stage'[v] = stage[v]
    /\ todo'[v] = todo[v]
    /\ at'[v] = at[v]
    /\ v \in failed' <=> v \in failed
    /\ attempt'[v] = attempt[v]
    /\ loaded'[v] = loaded[v]
    /\ base'[v] = base[v]
    /\ row'[v] = row[v]

\* A session that is left alone stays sound while the table does not change.
LEMMA UntouchedOK ==
    ASSUME NEW v \in Workers, WorkerOK(v), Untouched(v), inventory' = inventory
    PROVE  WorkerOK(v)'
<1>1. CartOK(v)'
  BY DEF WorkerOK, CartOK, Untouched
<1>2. StageOK(v)'
  BY DEF WorkerOK, StageOK, Untouched
<1>3. Pending(v)' = Pending(v)
  BY DEF Pending, Untouched
<1>4. ASSUME NEW p \in Products
      PROVE  /\ SnapshotOK(v, p)'
             /\ LineOK(v, p, row[v][p], base[v][p], cart[v][p])'
  <2>1. SnapshotOK(v, p)'
    BY DEF WorkerOK, SnapshotOK, Untouched
  <2>2. LineOK(v, p, row[v][p], base[v][p], cart[v][p])'
    BY <1>3 DEF WorkerOK, LineOK, Untouched
  <2> QED BY <2>1, <2>2
<1> QED BY <1>1, <1>2, <1>4 DEF WorkerOK

\* The item list fits the operation, as the handlers' callers make sure.
CartFits(name, c) ==
    /\ name \in {"reserve_batch", "order_created", "release"} => c \in Carts
    /\ name = "restock" => \E p \in Products, q \in RestockQuantities :
                               c = [NoItems EXCEPT ![p] = q]

\* A session that has just been opened is sound.
LEMMA OpenOK ==
    ASSUME TypeOK, NEW w \in Workers, NEW name \in Ops, NEW c \in [Products -> Nat],
           NEW n \in Attempts, CartFits(name, c), Open(w, name, c, n)
    PROVE  /\ WorkerOK(w)'
           /\ \A v \in Workers \ {w} : Untouched(v)
<1>1. /\ op'[w] = name /\ cart'[w] = c /\ todo'[w] = Lines(c) /\ at'[w] = Nobody
      /\ stage'[w] = IF Lines(c) = {} THEN "commit" ELSE "items"
      /\ w \notin failed' /\ loaded'[w] = {} /\ base'[w] = NoRows /\ row'[w] = NoRows
  BY DEF TypeOK, Open
<1>2. CartOK(w)'
  BY <1>1 DEF CartOK, CartFits
<1>3. StageOK(w)'
  BY <1>1 DEF StageOK, Lines
<1>4. Pending(w)' = Lines(c)
  BY <1>1 DEF Pending
<1>5. ASSUME NEW p \in Products
      PROVE  /\ SnapshotOK(w, p)'
             /\ LineOK(w, p, row[w][p], base[w][p], cart[w][p])'
  <2>1. row'[w][p] = NoRow /\ base'[w][p] = NoRow
    BY <1>1 DEF NoRows
  <2>2. SnapshotOK(w, p)'
    BY <1>1, <2>1 DEF SnapshotOK, RowOK, NoRow, Present
  <2>3. LineOK(w, p, row[w][p], base[w][p], cart[w][p])'
    BY <1>1, <1>4, <2>1 DEF LineOK, Lines
  <2> QED BY <2>2, <2>3
<1>6. \A v \in Workers \ {w} : Untouched(v)
  BY DEF TypeOK, Open, Untouched
<1> QED BY <1>2, <1>3, <1>5, <1>6 DEF WorkerOK

-----------------------------------------------------------------------------
(* The loop bodies.                                                        *)

\* Holding a row object changes that product's row in that session only, and
\* leaves every loaded row one the table has had.
LEMMA HoldOK ==
    ASSUME TypeOK, NEW w \in Workers, NEW p \in Products, NEW r \in Row,
           WorkerOK(w), RowOK(inventory[p]), inventory' = inventory, Hold(w, p, r)
    PROVE  /\ loaded'[w] = loaded[w] \union {p}
           /\ row'[w][p] = r
           /\ base'[w][p] = IF p \in loaded[w] THEN base[w][p] ELSE inventory[p]
           /\ \A x \in Products \ {p} : row'[w][x] = row[w][x] /\ base'[w][x] = base[w][x]
           /\ \A x \in Products : SnapshotOK(w, x)'
           /\ \A v \in Workers \ {w} : /\ loaded'[v] = loaded[v]
                                       /\ base'[v] = base[v]
                                       /\ row'[v] = row[v]
<1>1. /\ loaded'[w] = loaded[w] \union {p}
      /\ row'[w][p] = r
      /\ base'[w][p] = IF p \in loaded[w] THEN base[w][p] ELSE inventory[p]
      /\ \A x \in Products \ {p} : row'[w][x] = row[w][x] /\ base'[w][x] = base[w][x]
  BY DEF TypeOK, Hold
<1>2. ASSUME NEW x \in Products
      PROVE  SnapshotOK(w, x)'
  <2>1. SnapshotOK(w, x)
    BY DEF WorkerOK
  <2>2. CASE x = p
    BY <1>1, <2>1, <2>2 DEF SnapshotOK, TypeOK, Row
  <2>3. CASE x # p
    BY <1>1, <2>1, <2>3 DEF SnapshotOK
  <2> QED BY <2>2, <2>3
<1>3. \A v \in Workers \ {w} : /\ loaded'[v] = loaded[v]
                               /\ base'[v] = base[v]
                               /\ row'[v] = row[v]
  BY DEF TypeOK, Hold
<1> QED BY <1>1, <1>2, <1>3

\* The product inside whose lock a worker is has not been treated yet, so its
\* row object, if it is in the session, is as it was loaded.
LEMMA SelectedFresh ==
    ASSUME TypeOK, NEW w \in Workers, NEW p \in Products, WorkerOK(w),
           p \in Pending(w), w \notin failed,
           op[w] # "idle"
    PROVE  row[w][p] = base[w][p]
  BY DEF WorkerOK, LineOK, TypeOK, Ops, ReserveOps, LockedOps

\* One treated line: the other lines of the session stay sound.
LEMMA OtherLinesOK ==
    ASSUME TypeOK, NEW w \in Workers, NEW p \in Products, NEW r \in Row,
           WorkerOK(w), RowOK(inventory[p]), inventory' = inventory, Hold(w, p, r),
           op' = op, cart' = cart, failed' = failed,
           \A x \in Products \ {p} : x \in Pending(w)' <=> x \in Pending(w)
    PROVE  \A x \in Products \ {p} :
              LineOK(w, x, row[w][x], base[w][x], cart[w][x])'
<1> SUFFICES ASSUME NEW x \in Products \ {p}
             PROVE  LineOK(w, x, row[w][x], base[w][x], cart[w][x])'
  OBVIOUS
<1>1. row'[w][x] = row[w][x] /\ base'[w][x] = base[w][x]
  BY HoldOK
<1>2. x \in loaded'[w] <=> x \in loaded[w]
  BY HoldOK
<1>3. LineOK(w, x, row[w][x], base[w][x], cart[w][x])
  BY DEF WorkerOK
<1> QED BY <1>1, <1>2, <1>3 DEF LineOK

\* The step of a loop body that treats the product inside whose lock it is
\* keeps everything sound, once the treated line is known to be.
LEMMA BodyOK ==
    ASSUME TypeOK, NEW w \in Workers, NEW r \in Row, WorkerOK(w),
           \A p \in Products : RowOK(inventory[p]),
           stage[w] = "body", Hold(w, at[w], r),
           stage' = [stage EXCEPT ![w] = "exit"],
           UNCHANGED <<inventory, lock, op, cart, todo, at, failed, attempt, supplied>>,
           LineOK(w, at[w], row[w][at[w]], base[w][at[w]], cart[w][at[w]])'
    PROVE  TypeOK' /\ WorkerOK(w)' /\ \A v \in Workers \ {w} : Untouched(v)
<1> DEFINE p == at[w]
<1>1. p \in Products /\ p \notin todo[w] /\ op[w] \in LockedOps
  BY DEF WorkerOK, StageOK
<1>2. TypeOK'
  BY <1>1, HoldType DEF TypeOK, Stages
<1>3. Pending(w) = todo[w] \union {p} /\ Pending(w)' = todo[w]
  BY DEF Pending, TypeOK
<1>4. \A x \in Products \ {p} : LineOK(w, x, row[w][x], base[w][x], cart[w][x])'
  BY <1>1, <1>3, OtherLinesOK
<1>5. \A x \in Products : SnapshotOK(w, x)'
  BY <1>1, HoldOK
<1>6. CartOK(w)' /\ StageOK(w)'
  BY <1>1 DEF WorkerOK, CartOK, StageOK, TypeOK
<1>7. \A v \in Workers \ {w} : Untouched(v)
  BY <1>1, HoldOK DEF Untouched, TypeOK
<1>8. at'[w] = p
  OBVIOUS
<1>9. \A x \in Products : LineOK(w, x, row[w][x], base[w][x], cart[w][x])'
  BY <1>4, <1>8
<1> QED BY <1>2, <1>5, <1>6, <1>7, <1>9 DEF WorkerOK

\* What is known when a loop body runs: the row it selects is the row object
\* the session will hold, as loaded.
LEMMA BodyFacts ==
    ASSUME TypeOK, NEW w \in Workers, NEW r \in Row, WorkerOK(w),
           \A p \in Products : RowOK(inventory[p]),
           op[w] # "idle", stage[w] = "body", Hold(w, at[w], r), inventory' = inventory
    PROVE  /\ at[w] \in Products
           /\ cart[w][at[w]] \in Nat \ {0}
           /\ Selected(w, at[w]) \in Row
           /\ at[w] \in loaded'[w]
           /\ row'[w][at[w]] = r
           /\ base'[w][at[w]] \in Row
           /\ w \notin failed => Selected(w, at[w]) = base'[w][at[w]]
           /\ at[w] \in loaded[w] => /\ base'[w][at[w]] = base[w][at[w]]
                                     /\ Selected(w, at[w]) = row[w][at[w]]
           /\ stage' = [stage EXCEPT ![w] = "exit"] /\ todo' = todo =>
                 at[w] \notin Pending(w)'
<1>1. at[w] \in Products /\ cart[w][at[w]] \in Nat \ {0} /\ at[w] \notin todo[w]
  BY DEF WorkerOK, StageOK, TypeOK
<1>2. Selected(w, at[w]) \in Row
  BY <1>1, SelectedType
<1>3. /\ at[w] \in loaded'[w]
      /\ row'[w][at[w]] = r
      /\ base'[w][at[w]] = IF at[w] \in loaded[w] THEN base[w][at[w]] ELSE inventory[at[w]]
  BY <1>1, HoldOK
<1>4. base'[w][at[w]] \in Row
  BY <1>1, <1>3 DEF TypeOK
<1>5. ASSUME w \notin failed PROVE Selected(w, at[w]) = base'[w][at[w]]
  <2>1. at[w] \in Pending(w)
    BY DEF Pending
  <2>2. row[w][at[w]] = base[w][at[w]]
    BY <1>1, <1>5, <2>1, SelectedFresh
  <2> QED BY <1>3, <2>2 DEF Selected
<1>6. stage' = [stage EXCEPT ![w] = "exit"] /\ todo' = todo => at[w] \notin Pending(w)'
  BY <1>1 DEF Pending, TypeOK
<1> QED BY <1>1, <1>2, <1>3, <1>4, <1>5, <1>6 DEF Selected

\* restock's loop body.
LEMMA RestockRowOK ==
    ASSUME TypeOK, NEW w \in Workers, WorkerOK(w),
           \A p \in Products : RowOK(inventory[p]), RestockRow(w)
    PROVE  TypeOK' /\ WorkerOK(w)' /\ \A v \in Workers \ {w} : Untouched(v)
<1> DEFINE p == at[w]
           r == Restocked(Selected(w, p), cart[w][p])
<1>1. p \in Products /\ Selected(w, p) \in Row /\ cart[w][p] \in Nat /\ w \notin failed
  BY SelectedType DEF RestockRow, WorkerOK, StageOK, TypeOK
<1>2. r \in Row
  BY <1>1, RowTypes
<1>3. Hold(w, p, r)
  BY DEF RestockRow
<1>4. /\ p \in loaded'[w] /\ row'[w][p] = r /\ p \notin Pending(w)'
      /\ Selected(w, p) = base'[w][p]
  BY <1>1, <1>2, <1>3, BodyFacts DEF RestockRow
<1>5. LineOK(w, p, row[w][p], base[w][p], cart[w][p])'
  <2>1. cart'[w][p] > 0
    BY DEF RestockRow, WorkerOK, StageOK
  <2> QED BY <1>1, <1>4, <2>1 DEF LineOK, RestockRow, ReserveOps
<1> QED BY <1>1, <1>2, <1>3, <1>5, BodyOK DEF RestockRow

\* The loop body of _handle_order_created when there is enough stock.
LEMMA ReserveRowOK ==
    ASSUME TypeOK, NEW w \in Workers, WorkerOK(w),
           \A p \in Products : RowOK(inventory[p]), ReserveRow(w)
    PROVE  TypeOK' /\ WorkerOK(w)' /\ \A v \in Workers \ {w} : Untouched(v)
<1> DEFINE p == at[w]
           r == Deducted(Selected(w, p), cart[w][p])
<1>1. p \in Products /\ Selected(w, p) \in Row /\ cart[w][p] \in Nat /\ w \notin failed
  BY SelectedType DEF ReserveRow, WorkerOK, StageOK, TypeOK
<1>2. r \in Row
  BY <1>1, RowTypes
<1>3. Hold(w, p, r)
  BY DEF ReserveRow
<1>4. /\ p \in loaded'[w] /\ row'[w][p] = r /\ p \notin Pending(w)'
      /\ Selected(w, p) = base'[w][p] /\ Enough(Selected(w, p), cart[w][p])
  BY <1>1, <1>2, <1>3, BodyFacts DEF ReserveRow
<1>5. LineOK(w, p, row[w][p], base[w][p], cart[w][p])'
  <2>1. cart'[w][p] > 0
    BY DEF ReserveRow, WorkerOK, StageOK
  <2> QED BY <1>1, <1>4, <2>1 DEF LineOK, ReserveRow, ReserveOps
<1> QED BY <1>1, <1>2, <1>3, <1>5, BodyOK DEF ReserveRow

\* The loop body that takes a line of a failed reservation back.
LEMMA TakeBackRowOK ==
    ASSUME TypeOK, NEW w \in Workers, WorkerOK(w),
           \A p \in Products : RowOK(inventory[p]), TakeBackRow(w)
    PROVE  TypeOK' /\ WorkerOK(w)' /\ \A v \in Workers \ {w} : Untouched(v)
<1> DEFINE p == at[w]
           r == TakenBack(Selected(w, p), cart[w][p])
<1>1. p \in Products /\ Selected(w, p) \in Row /\ cart[w][p] \in Nat /\ w \in failed
  BY SelectedType DEF TakeBackRow, WorkerOK, StageOK, TypeOK
<1>2. r \in Row
  BY <1>1, RowTypes
<1>3. Hold(w, p, r)
  BY DEF TakeBackRow
<1>4. /\ p \in loaded[w]
      /\ Enough(base[w][p], cart[w][p])
      /\ row[w][p] = Deducted(base[w][p], cart[w][p])
  BY <1>1 DEF WorkerOK, LineOK, TakeBackRow, Pending
<1>5. /\ row'[w][p] = r /\ p \notin Pending(w)' /\ base'[w][p] = base[w][p]
      /\ Selected(w, p) = row[w][p] /\ base'[w][p] \in Row
  BY <1>1, <1>2, <1>3, <1>4, BodyFacts DEF TakeBackRow
<1>6. SameStock(row'[w][p], base'[w][p])
  BY <1>1, <1>4, <1>5 DEF SameStock, TakenBack, Deducted, Row
<1>7. LineOK(w, p, row[w][p], base[w][p], cart[w][p])'
  BY <1>1, <1>5, <1>6 DEF LineOK, TakeBackRow, SameStock
<1> QED BY <1>1, <1>2, <1>3, <1>7, BodyOK DEF TakeBackRow

\* The loop body of _handle_release_stock.
LEMMA ReleaseRowOK ==
    ASSUME TypeOK, NEW w \in Workers, WorkerOK(w),
           \A p \in Products : RowOK(inventory[p]), ReleaseRow(w)
    PROVE  TypeOK' /\ WorkerOK(w)' /\ \A v \in Workers \ {w} : Untouched(v)
<1> DEFINE p == at[w]
           r == Released(Selected(w, p), cart[w][p])
<1>1. p \in Products /\ Selected(w, p) \in Row /\ cart[w][p] \in Nat /\ w \notin failed
  BY SelectedType DEF ReleaseRow, WorkerOK, StageOK, TypeOK
<1>2. r \in Row
  BY <1>1, RowTypes
<1>3. Hold(w, p, r)
  BY DEF ReleaseRow
<1>4. /\ p \in loaded'[w] /\ row'[w][p] = r /\ p \notin Pending(w)'
      /\ Selected(w, p) = base'[w][p]
  BY <1>1, <1>2, <1>3, BodyFacts DEF ReleaseRow
<1>5. LineOK(w, p, row[w][p], base[w][p], cart[w][p])'
  BY <1>1, <1>4 DEF LineOK, ReleaseRow, ReserveOps
<1> QED BY <1>1, <1>2, <1>3, <1>5, BodyOK DEF ReleaseRow

\* The row an item runs out on is left as it was loaded; the lines reserved
\* before it become the ones to take back.
LEMMA OutOfStockOK ==
    ASSUME TypeOK, NEW w \in Workers, WorkerOK(w),
           \A p \in Products : RowOK(inventory[p]), OutOfStock(w)
    PROVE  TypeOK' /\ WorkerOK(w)' /\ \A v \in Workers \ {w} : Untouched(v)
<1> DEFINE p == at[w]
           r == Selected(w, p)
<1>1. p \in Products /\ r \in Row /\ w \notin failed /\ p \notin todo[w]
  BY SelectedType DEF OutOfStock, WorkerOK, StageOK, TypeOK
<1>2. Hold(w, p, r)
  BY DEF OutOfStock
<1>3. p \in loaded'[w] /\ row'[w][p] = r /\ r = base'[w][p]
  BY <1>1, <1>2, BodyFacts DEF OutOfStock
<1>4. TypeOK'
  BY <1>1, <1>2, HoldType DEF TypeOK, OutOfStock, Stages, Dirty
<1>5. Pending(w) = todo[w] \union {p} /\ Pending(w)' = Dirty(w)
  BY DEF Pending, OutOfStock, TypeOK
<1>6. row[w][p] = base[w][p]
  BY <1>1, <1>5, SelectedFresh DEF OutOfStock
<1>7. ASSUME NEW x \in Products
      PROVE  LineOK(w, x, row[w][x], base[w][x], cart[w][x])'
  <2>1. CASE x = p
    <3>1. p \notin Dirty(w)
      BY <1>6 DEF Dirty
    <3> QED BY <1>3, <1>5, <2>1, <3>1 DEF LineOK, OutOfStock, SameStock, ReserveOps
  <2>2. CASE x # p
    <3>1. row'[w][x] = row[w][x] /\ base'[w][x] = base[w][x] /\ loaded[w] \subseteq loaded'[w]
      BY <1>1, <1>2, <2>2, HoldOK DEF OutOfStock
    <3>2. LineOK(w, x, row[w][x], base[w][x], cart[w][x])
      BY DEF WorkerOK
    <3>3. CASE x \in Dirty(w)
      BY <1>1, <1>5, <3>1, <3>2, <3>3 DEF LineOK, OutOfStock, ReserveOps, Dirty
    <3>4. CASE x \notin Dirty(w)
      <4>1. row[w][x] = base[w][x]
        BY <3>4 DEF Dirty, WorkerOK, SnapshotOK
      <4> QED BY <1>5, <3>1, <3>4, <4>1 DEF LineOK, OutOfStock, SameStock, ReserveOps
    <3> QED BY <3>3, <3>4
  <2> QED BY <2>1, <2>2
<1>8. \A x \in Products : SnapshotOK(w, x)'
  BY <1>1, <1>2, HoldOK DEF OutOfStock
<1>9. CartOK(w)'
  BY DEF WorkerOK, CartOK, OutOfStock
<1>10. StageOK(w)'
  <2>1. \A x \in Dirty(w) : cart[w][x] > 0
    <3> SUFFICES ASSUME NEW x \in Dirty(w) PROVE cart[w][x] > 0
      OBVIOUS
    <3>1. x \in Products /\ row[w][x] # base[w][x]
      BY DEF Dirty, TypeOK
    <3>2. LineOK(w, x, row[w][x], base[w][x], cart[w][x])
      BY <3>1 DEF WorkerOK
    <3> QED BY <1>1, <3>1, <3>2 DEF LineOK, OutOfStock, ReserveOps
  <2> QED BY <1>1, <2>1 DEF StageOK, OutOfStock, LockedOps, TypeOK
<1>11. \A v \in Workers \ {w} : Untouched(v)
  BY <1>1, <1>2, HoldOK DEF Untouched, OutOfStock, TypeOK
<1> QED BY <1>4, <1>7, <1>8, <1>9, <1>10, <1>11 DEF WorkerOK

\* A line of reserve_batch, which is not inside a lock.
LEMMA BatchRowOK ==
    ASSUME TypeOK, NEW w \in Workers, NEW p \in Products, WorkerOK(w),
           \A x \in Products : RowOK(inventory[x]), BatchRow(w, p)
    PROVE  TypeOK' /\ WorkerOK(w)' /\ \A v \in Workers \ {w} : Untouched(v)
<1> DEFINE r == Deducted(Selected(w, p), cart[w][p])
<1>1. /\ Selected(w, p) \in Row /\ cart[w][p] \in Nat /\ w \notin failed
      /\ p \in todo[w] /\ cart[w][p] > 0
  BY SelectedType DEF BatchRow, WorkerOK, StageOK, TypeOK
<1>2. r \in Row
  BY <1>1, RowTypes
<1>3. Hold(w, p, r) /\ inventory' = inventory
  BY DEF BatchRow
<1>4. Pending(w) = todo[w] /\ Pending(w)' = todo[w] \ {p}
  BY DEF Pending, BatchRow, TypeOK
<1>5. row[w][p] = base[w][p]
  BY <1>1, <1>4, SelectedFresh DEF BatchRow
<1>6. /\ p \in loaded'[w] /\ row'[w][p] = r /\ Selected(w, p) = base'[w][p]
  BY <1>2, <1>3, <1>5, HoldOK DEF Selected
<1>7. TypeOK'
  BY <1>2, <1>3, HoldType DEF TypeOK, BatchRow, Stages
<1>8. \A x \in Products \ {p} : LineOK(w, x, row[w][x], base[w][x], cart[w][x])'
  BY <1>2, <1>3, <1>4, OtherLinesOK DEF BatchRow
<1>9. LineOK(w, p, row[w][p], base[w][p], cart[w][p])'
  BY <1>1, <1>4, <1>6 DEF LineOK, BatchRow, ReserveOps
<1>10. \A x \in Products : SnapshotOK(w, x)'
  BY <1>2, <1>3, HoldOK
<1>11. CartOK(w)' /\ StageOK(w)'
  BY <1>1 DEF WorkerOK, CartOK, StageOK, BatchRow, TypeOK
<1>12. \A v \in Workers \ {w} : Untouched(v)
  BY <1>2, <1>3, HoldOK DEF Untouched, BatchRow, TypeOK
<1> QED BY <1>7, <1>8, <1>9, <1>10, <1>11, <1>12 DEF WorkerOK

-----------------------------------------------------------------------------
(* The lock.                                                               *)

\* Entering a lock moves the product from the list to the body.
LEMMA AcquireLockOK ==
    ASSUME TypeOK, NEW w \in Workers, NEW p \in Products, WorkerOK(w), AcquireLock(w, p)
    PROVE  TypeOK' /\ WorkerOK(w)' /\ \A v \in Workers \ {w} : Untouched(v)
<1>1. TypeOK'
  BY DEF TypeOK, AcquireLock, Stages
<1>2. Pending(w)' = Pending(w)
  BY DEF Pending, AcquireLock, TypeOK
<1>3. CartOK(w)' /\ StageOK(w)'
  BY DEF WorkerOK, CartOK, StageOK, AcquireLock, TypeOK
<1>4. \A x \in Products : /\ SnapshotOK(w, x)'
                          /\ LineOK(w, x, row[w][x], base[w][x], cart[w][x])'
  BY <1>2 DEF WorkerOK, SnapshotOK, LineOK, AcquireLock
<1>5. \A v \in Workers \ {w} : Untouched(v)
  BY DEF Untouched, AcquireLock, TypeOK
<1> QED BY <1>1, <1>3, <1>4, <1>5 DEF WorkerOK

\* Leaving a lock.
LEMMA ExitLockOK ==
    ASSUME TypeOK, NEW w \in Workers, WorkerOK(w), ExitLock(w)
    PROVE  TypeOK' /\ WorkerOK(w)' /\ \A v \in Workers \ {w} : Untouched(v)
<1>1. TypeOK'
  BY DEF TypeOK, ExitLock, Stages
<1>2. Pending(w)' = Pending(w)
  BY DEF Pending, ExitLock, TypeOK
<1>3. CartOK(w)' /\ StageOK(w)'
  BY DEF WorkerOK, CartOK, StageOK, ExitLock, TypeOK
<1>4. \A x \in Products : /\ SnapshotOK(w, x)'
                          /\ LineOK(w, x, row[w][x], base[w][x], cart[w][x])'
  BY <1>2 DEF WorkerOK, SnapshotOK, LineOK, ExitLock
<1>5. \A v \in Workers \ {w} : Untouched(v)
  BY DEF Untouched, ExitLock, TypeOK
<1> QED BY <1>1, <1>3, <1>4, <1>5 DEF WorkerOK

\* A release that cannot get a lock goes on to commit what it has released.
LEMMA SwallowedOK ==
    ASSUME TypeOK, NEW w \in Workers, WorkerOK(w), LockFails(w), op[w] = "release"
    PROVE  TypeOK' /\ WorkerOK(w)' /\ \A v \in Workers \ {w} : Untouched(v)
<1>1. TypeOK'
  BY DEF TypeOK, LockFails, Stages
<1>2. Pending(w)' = {} /\ w \notin failed
  BY DEF Pending, LockFails, TypeOK, WorkerOK, StageOK
<1>3. CartOK(w)' /\ StageOK(w)'
  BY DEF WorkerOK, CartOK, StageOK, LockFails, TypeOK
<1>4. \A x \in Products : /\ SnapshotOK(w, x)'
                          /\ LineOK(w, x, row[w][x], base[w][x], cart[w][x])'
  BY <1>2 DEF WorkerOK, SnapshotOK, LineOK, LockFails, ReserveOps
<1>5. \A v \in Workers \ {w} : Untouched(v)
  BY DEF Untouched, LockFails, TypeOK
<1> QED BY <1>1, <1>3, <1>4, <1>5 DEF WorkerOK

-----------------------------------------------------------------------------
(* The commit.                                                             *)

\* The row operations keep quantities from going below zero, and every one of
\* them gives the row a higher version.
LEMMA RowsStayOK ==
    ASSUME NEW r \in Row, NEW q \in Nat, RowOK(r)
    PROVE  /\ q > 0 => RowOK(Restocked(r, q))
           /\ Enough(r, q) => RowOK(Deducted(r, q))
           /\ RowOK(Released(r, q))
           /\ Restocked(r, q).version > r.version
           /\ Deducted(r, q).version > r.version
           /\ Released(r, q) = r \/ Released(r, q).version > r.version
  BY DEF RowOK, Row, NoRow, Present, Enough, Restocked, Deducted, Released, ReleaseQty

\* Only restock changes the number of units a row accounts for.
LEMMA RowSums ==
    ASSUME NEW r \in Row, NEW q \in Nat
    PROVE  /\ Deducted(r, q).available + Deducted(r, q).reserved = r.available + r.reserved
           /\ Released(r, q).available + Released(r, q).reserved = r.available + r.reserved
           /\ Restocked(r, q).available + Restocked(r, q).reserved
                 = r.available + r.reserved + q
  BY DEF Row, Deducted, Released, ReleaseQty, Restocked

\* A commit that finds its rows fresh applies the operation to the rows the
\* table has at that moment.
LEMMA CommittedRow ==
    ASSUME IndInv, NEW w \in Workers, Commit(w), NEW p \in Products
    PROVE  /\ op[w] \in ReserveOps /\ w \notin failed =>
                 IF cart[w][p] > 0
                 THEN /\ Enough(inventory[p], cart[w][p])
                      /\ inventory'[p] = Deducted(inventory[p], cart[w][p])
                 ELSE inventory'[p] = inventory[p]
           /\ w \in failed => SameStock(inventory'[p], inventory[p])
           /\ op[w] = "restock" =>
                 inventory'[p] = IF cart[w][p] > 0
                                 THEN Restocked(inventory[p], cart[w][p])
                                 ELSE inventory[p]
           /\ op[w] = "release" =>
                 inventory'[p] = IF p \in Dirty(w)
                                 THEN Released(inventory[p], cart[w][p])
                                 ELSE inventory[p]
<1>1. /\ WorkerOK(w) /\ TypeOK
      /\ inventory[p] \in Row /\ base[w][p] \in Row /\ row[w][p] \in Row
      /\ cart[w][p] \in Nat
  BY DEF IndInv, SessionsSound, TypeOK
<1>2. Pending(w) = {}
  BY <1>1 DEF Commit, Pending, WorkerOK, StageOK
<1>3. /\ LineOK(w, p, row[w][p], base[w][p], cart[w][p])
      /\ SnapshotOK(w, p)
  BY <1>1 DEF WorkerOK
<1>4. p \in Dirty(w) => base[w][p] = inventory[p]
  BY <1>3 DEF Dirty, Commit, Fresh, SnapshotOK
<1>5. inventory'[p] = IF p \in Dirty(w) THEN row[w][p] ELSE inventory[p]
  BY DEF Commit
<1>6. ASSUME op[w] \in ReserveOps, w \notin failed
      PROVE  IF cart[w][p] > 0
             THEN /\ Enough(inventory[p], cart[w][p])
                  /\ inventory'[p] = Deducted(inventory[p], cart[w][p])
             ELSE inventory'[p] = inventory[p]
  <2>1. CASE cart[w][p] > 0
    <3>1. /\ p \in loaded[w] /\ Enough(base[w][p], cart[w][p])
          /\ row[w][p] = Deducted(base[w][p], cart[w][p])
      BY <1>2, <1>3, <1>6, <2>1 DEF LineOK
    <3>2. row[w][p] # base[w][p]
      BY <1>1, <3>1 DEF Deducted, Row
    <3> QED BY <1>4, <1>5, <2>1, <3>1, <3>2 DEF Dirty
  <2>2. CASE ~(cart[w][p] > 0)
    BY <1>3, <1>5, <1>6, <2>2 DEF LineOK, Dirty
  <2> QED BY <2>1, <2>2
<1>7. ASSUME w \in failed PROVE SameStock(inventory'[p], inventory[p])
  BY <1>2, <1>3, <1>4, <1>5, <1>7 DEF LineOK, SameStock
<1>8. ASSUME op[w] = "restock"
      PROVE  inventory'[p] = IF cart[w][p] > 0
                             THEN Restocked(inventory[p], cart[w][p])
                             ELSE inventory[p]
  <2>1. CASE cart[w][p] > 0
    <3>1. p \in loaded[w] /\ row[w][p] = Restocked(base[w][p], cart[w][p])
      BY <1>2, <1>3, <1>8, <2>1 DEF LineOK
    <3>2. row[w][p] # base[w][p]
      BY <1>1, <3>1 DEF Restocked, Row
    <3> QED BY <1>4, <1>5, <2>1, <3>1, <3>2 DEF Dirty
  <2>2. CASE ~(cart[w][p] > 0)
    BY <1>3, <1>5, <1>8, <2>2 DEF LineOK, Dirty
  <2> QED BY <2>1, <2>2
<1>9. ASSUME op[w] = "release"
      PROVE  inventory'[p] = IF p \in Dirty(w)
                             THEN Released(inventory[p], cart[w][p])
                             ELSE inventory[p]
  BY <1>3, <1>4, <1>5, <1>9 DEF LineOK, Dirty
<1> QED BY <1>6, <1>7, <1>8, <1>9

\* The commit keeps quantities non-negative and the units of every product
\* accounted for, and gives every row it changes a higher version.
LEMMA CommitRowOK ==
    ASSUME IndInv, NEW w \in Workers, Commit(w), NEW p \in Products
    PROVE  /\ inventory'[p] \in Row
           /\ RowOK(inventory'[p])
           /\ inventory'[p].available + inventory'[p].reserved = supplied'[p]
           /\ inventory'[p] = inventory[p] \/ inventory'[p].version > inventory[p].version
<1>1. /\ inventory[p] \in Row /\ RowOK(inventory[p]) /\ cart[w][p] \in Nat
      /\ inventory[p].available + inventory[p].reserved = supplied[p]
      /\ supplied[p] \in Nat
      /\ w \in failed => op[w] = "order_created"
      /\ op[w] \in Ops
  BY DEF IndInv, TypeOK, StockSound, SessionsSound, WorkerOK, StageOK
<1>2. supplied'[p] = IF op[w] = "restock" THEN supplied[p] + cart[w][p] ELSE supplied[p]
  BY DEF Commit
<1>3. CASE op[w] \in ReserveOps /\ w \notin failed
  <2>1. supplied'[p] = supplied[p]
    BY <1>2, <1>3 DEF ReserveOps
  <2>2. CASE cart[w][p] > 0
    <3>1. /\ Enough(inventory[p], cart[w][p])
          /\ inventory'[p] = Deducted(inventory[p], cart[w][p])
      BY <1>3, <2>2, CommittedRow
    <3>2. inventory'[p] \in Row /\ RowOK(inventory'[p])
      BY <1>1, <3>1, RowTypes, RowsStayOK
    <3>3. inventory'[p].available + inventory'[p].reserved = supplied[p]
      BY <1>1, <3>1, RowSums
    <3>4. inventory'[p].version > inventory[p].version
      BY <1>1, <3>1, RowsStayOK
    <3> QED BY <2>1, <3>2, <3>3, <3>4
  <2>3. CASE ~(cart[w][p] > 0)
    BY <1>1, <1>3, <2>1, <2>3, CommittedRow
  <2> QED BY <2>2, <2>3
<1>4. CASE w \in failed
  <2>1. SameStock(inventory'[p], inventory[p]) /\ supplied'[p] = supplied[p]
    BY <1>1, <1>2, <1>4, CommittedRow
  <2>2. inventory'[p] \in Row
    BY <1>1 DEF Commit, IndInv, TypeOK
  <2> QED BY <1>1, <2>1, <2>2 DEF SameStock, RowOK, Row, Present
<1>5. CASE op[w] = "restock"
  <2>1. CASE cart[w][p] > 0
    <3>1. inventory'[p] = Restocked(inventory[p], cart[w][p])
      BY <1>5, <2>1, CommittedRow
    <3>2. supplied'[p] = supplied[p] + cart[w][p]
      BY <1>2, <1>5
    <3>3. inventory'[p] \in Row /\ RowOK(inventory'[p])
      BY <1>1, <2>1, <3>1, RowTypes, RowsStayOK
    <3> QED BY <1>1, <3>1, <3>2, <3>3, RowsStayOK, RowSums
  <2>2. CASE ~(cart[w][p] > 0)
    BY <1>1, <1>2, <1>5, <2>2, CommittedRow DEF Row
  <2> QED BY <2>1, <2>2
<1>6. CASE op[w] = "release"
  <2>1. supplied'[p] = supplied[p]
    BY <1>2, <1>6
  <2>2. inventory'[p] = inventory[p] \/ inventory'[p] = Released(inventory[p], cart[w][p])
    BY <1>6, CommittedRow
  <2>3. inventory'[p] \in Row /\ RowOK(inventory'[p])
    BY <1>1, <2>2, RowTypes, RowsStayOK
  <2>4. inventory'[p].available + inventory'[p].reserved = supplied[p]
    BY <1>1, <2>2, RowSums
  <2>5. inventory'[p] = inventory[p] \/ inventory'[p].version > inventory[p].version
    BY <1>1, <2>2, RowsStayOK
  <2> QED BY <2>1, <2>3, <2>4, <2>5
<1> QED BY <1>1, <1>3, <1>4, <1>5, <1>6 DEF Ops, LockedOps, ReserveOps, Commit

\* The whole step of a commit: the rows, the worker that commits, and the
\* other sessions, whose loaded rows may now be out of date.
LEMMA CommitOK ==
    ASSUME IndInv, NEW w \in Workers, Commit(w)
    PROVE  IndInv'
<1>1. TypeOK /\ CartFits("idle", NoItems) /\ NoItems \in [Products -> Nat] /\ "idle" \in Ops /\ 0 \in Attempts
  BY EmptyTypes DEF IndInv, CartFits, Ops
<1>2. WorkerOK(w)' /\ \A v \in Workers \ {w} : Untouched(v)
  BY <1>1, OpenOK DEF Commit, Close
<1>3. TypeOK'
  <2>1. inventory' \in [Products -> Row]
    BY CommitRowOK DEF Commit
  <2>2. supplied' \in [Products -> Nat]
    BY <1>1 DEF TypeOK, Commit
  <2> QED BY <1>1, <2>1, <2>2, EmptyTypes DEF TypeOK, Commit, Close, Open, Lines, Stages
<1>4. \A p \in Products : RowOK(inventory[p])'
  BY CommitRowOK
<1>5. StockSound'
  BY CommitRowOK DEF StockSound, RowOK
<1>6. ASSUME NEW v \in Workers \ {w}
      PROVE  WorkerOK(v)'
  <2>1. WorkerOK(v) /\ Untouched(v)
    BY <1>2 DEF IndInv, SessionsSound
  <2>2. CartOK(v)' /\ StageOK(v)'
    BY <2>1 DEF WorkerOK, CartOK, StageOK, Untouched
  <2>3. Pending(v)' = Pending(v)
    BY <2>1 DEF Pending, Untouched
  <2>4. ASSUME NEW p \in Products
        PROVE  /\ SnapshotOK(v, p)'
               /\ LineOK(v, p, row[v][p], base[v][p], cart[v][p])'
    <3>1. SnapshotOK(v, p)
      BY <2>1 DEF WorkerOK
    <3>2. inventory'[p] = inventory[p] \/ inventory'[p].version > inventory[p].version
      BY CommitRowOK
    <3>3. inventory[p] \in Row /\ inventory'[p] \in Row /\ base[v][p] \in Row
      BY <1>1, <1>3 DEF TypeOK
    <3>4. SnapshotOK(v, p)'
      BY <2>1, <3>1, <3>2, <3>3 DEF SnapshotOK, Untouched, Row
    <3>5. LineOK(v, p, row[v][p], base[v][p], cart[v][p])'
      BY <2>1, <2>3 DEF WorkerOK, LineOK, Untouched
    <3> QED BY <3>4, <3>5
  <2> QED BY <2>2, <2>4 DEF WorkerOK
<1> QED BY <1>2, <1>3, <1>4, <1>5, <1>6 DEF IndInv, SessionsSound

-----------------------------------------------------------------------------
(* The invariant.                                                          *)

\* A step that leaves the table alone keeps the invariant when it keeps the
\* types and one worker's session sound.
LEMMA QuietStep ==
    ASSUME IndInv, NEW w \in Workers, UNCHANGED <<inventory, supplied>>,
           TypeOK', WorkerOK(w)', \A v \in Workers \ {w} : Untouched(v)
    PROVE  IndInv'
<1>1. ASSUME NEW v \in Workers \ {w} PROVE WorkerOK(v)'
  BY UntouchedOK DEF IndInv, SessionsSound
<1>2. StockSound' /\ \A p \in Products : RowOK(inventory[p])'
  BY DEF IndInv, StockSound
<1> QED BY <1>1, <1>2 DEF IndInv, SessionsSound

\* A session that opens, or closes without a commit.
LEMMA OpenStep ==
    ASSUME IndInv, NEW w \in Workers, NEW name \in Ops, NEW c \in [Products -> Nat],
           NEW n \in Attempts, CartFits(name, c), Open(w, name, c, n),
           UNCHANGED <<inventory, lock, supplied>>
    PROVE  IndInv'
<1>1. TypeOK'
  BY OpenType DEF IndInv
<1>2. WorkerOK(w)' /\ \A v \in Workers \ {w} : Untouched(v)
  BY OpenOK DEF IndInv
<1> QED BY <1>1, <1>2, QuietStep

\* A session that is rolled back.
LEMMA CloseStep ==
    ASSUME IndInv, NEW w \in Workers, Close(w), UNCHANGED <<inventory, lock, supplied>>
    PROVE  IndInv'
<1>1. CartFits("idle", NoItems) /\ NoItems \in [Products -> Nat] /\ "idle" \in Ops /\ 0 \in Attempts
  BY EmptyTypes DEF CartFits, Ops
<1> QED BY <1>1, OpenStep DEF Close

\* Every step keeps the invariant.
LEMMA IndStep == IndInv /\ [Next]_vars => IndInv'
<1> SUFFICES ASSUME IndInv, [Next]_vars PROVE IndInv'
  OBVIOUS
<1>1. TypeOK /\ \A w \in Workers : WorkerOK(w)
  BY DEF IndInv, SessionsSound
<1>2. \A p \in Products : RowOK(inventory[p])
  BY DEF IndInv
<1>3. ASSUME NEW w \in Workers, Step(w) PROVE IndInv'
  <2>1. CASE \E p \in Products : AcquireLock(w, p)
    <3>1. PICK p \in Products : AcquireLock(w, p)
      BY <2>1
    <3>2. UNCHANGED <<inventory, supplied>>
      BY <3>1 DEF AcquireLock
    <3> QED BY <1>1, <3>1, <3>2, AcquireLockOK, QuietStep
  <2>2. CASE \E p \in Products : BatchRow(w, p)
    <3>1. PICK p \in Products : BatchRow(w, p)
      BY <2>2
    <3>2. UNCHANGED <<inventory, supplied>>
      BY <3>1 DEF BatchRow
    <3> QED BY <1>1, <1>2, <3>1, <3>2, BatchRowOK, QuietStep
  <2>3. CASE \E p \in Products : BatchRejected(w, p)
    BY <2>3, CloseStep DEF BatchRejected
  <2>4. CASE LockFails(w)
    <3>1. CASE op[w] = "release"
      BY <1>1, <2>4, <3>1, SwallowedOK, QuietStep DEF LockFails
    <3>2. CASE op[w] # "release"
      BY <2>4, <3>2, CloseStep DEF LockFails
    <3> QED BY <3>1, <3>2
  <2>5. CASE ExitLock(w)
    BY <1>1, <2>5, ExitLockOK, QuietStep DEF ExitLock
  <2>6. CASE RestockRow(w)
    BY <1>1, <1>2, <2>6, RestockRowOK, QuietStep DEF RestockRow
  <2>7. CASE ReleaseRow(w)
    BY <1>1, <1>2, <2>7, ReleaseRowOK, QuietStep DEF ReleaseRow
  <2>8. CASE ReserveRow(w)
    BY <1>1, <1>2, <2>8, ReserveRowOK, QuietStep DEF ReserveRow
  <2>9. CASE OutOfStock(w)
    BY <1>1, <1>2, <2>9, OutOfStockOK, QuietStep DEF OutOfStock
  <2>10. CASE TakeBackRow(w)
    BY <1>1, <1>2, <2>10, TakeBackRowOK, QuietStep DEF TakeBackRow
  <2>11. CASE Commit(w)
    BY <2>11, CommitOK
  <2>12. CASE Conflict(w)
    <3>1. CASE op[w] = "reserve_batch" /\ attempt[w] < MaxRetries - 1
      <4>1. Open(w, op[w], cart[w], attempt[w] + 1) /\ UNCHANGED <<inventory, lock, supplied>>
        BY <2>12, <3>1 DEF Conflict
      <4>2. op[w] \in Ops /\ cart[w] \in [Products -> Nat] /\ attempt[w] + 1 \in Attempts
        BY <1>1, <3>1, RetriesAssumption DEF TypeOK, Attempts
      <4>3. CartFits(op[w], cart[w])
        BY <1>1, <3>1 DEF WorkerOK, CartOK, CartFits
      <4> QED BY <4>1, <4>2, <4>3, OpenStep
    <3>2. CASE ~(op[w] = "reserve_batch" /\ attempt[w] < MaxRetries - 1)
      BY <2>12, <3>2, CloseStep DEF Conflict
    <3> QED BY <3>1, <3>2
  <2> QED BY <1>3, <2>1, <2>2, <2>3, <2>4, <2>5, <2>6, <2>7, <2>8, <2>9, <2>10,
             <2>11, <2>12 DEF Step
<1>4. ASSUME NEW w \in Workers, Request(w) PROVE IndInv'
  <2>1. ASSUME NEW p \in Products, NEW q \in RestockQuantities, BeginRestock(w, p, q)
        PROVE  IndInv'
    <3>1. [NoItems EXCEPT ![p] = q] \in [Products -> Nat] /\ "restock" \in Ops
          /\ 0 \in Attempts
      BY EmptyTypes DEF Ops, LockedOps
    <3>2. CartFits("restock", [NoItems EXCEPT ![p] = q])
      BY DEF CartFits
    <3> QED BY <2>1, <3>1, <3>2, OpenStep DEF BeginRestock, Begin
  <2>2. ASSUME NEW c \in Carts, NEW name \in {"reserve_batch", "order_created", "release"},
               Begin(w, name, c)
        PROVE  IndInv'
    <3>1. c \in [Products -> Nat] /\ name \in Ops /\ CartFits(name, c) /\ 0 \in Attempts
      BY CartsAssumption, EmptyTypes DEF Ops, LockedOps, ReserveOps, CartFits
    <3> QED BY <2>2, <3>1, OpenStep DEF Begin
  <2> QED BY <1>4, <2>1, <2>2
             DEF Request, BeginReserveBatch, BeginOrderCreated, BeginRelease
<1>5. ASSUME NEW w \in Workers, Crash(w) PROVE IndInv'
  BY <1>5, CloseStep DEF Crash
<1>6. ASSUME UNCHANGED <<inventory, session, supplied>>, TypeOK' PROVE IndInv'
  <2>1. \A v \in Workers : Untouched(v)
    BY <1>6 DEF Untouched, session
  <2>2. \A v \in Workers : WorkerOK(v)'
    BY <1>1, <1>6, <2>1, UntouchedOK
  <2> QED BY <1>6, <2>2 DEF IndInv, SessionsSound, StockSound
<1>7. ASSUME NEW p \in Products, LockExpires(p) PROVE IndInv'
  BY <1>1, <1>6, <1>7 DEF LockExpires, TypeOK, session
<1>8. CASE UNCHANGED vars
  BY <1>1, <1>6, <1>8 DEF vars, TypeOK, session
<1> QED BY <1>3, <1>4, <1>5, <1>7, <1>8 DEF Next

\* The empty tables satisfy it.
LEMMA IndInit == Init => IndInv
<1> SUFFICES ASSUME Init PROVE IndInv
  OBVIOUS
<1>1. TypeOK
  BY EmptyTypes DEF Init, TypeOK, Ops, Stages
<1>2. \A p \in Products : inventory[p] = NoRow /\ supplied[p] = 0
  BY DEF Init, NoRows, NoItems
<1>3. StockSound /\ \A p \in Products : RowOK(inventory[p])
  BY <1>2 DEF StockSound, RowOK, NoRow, Present
<1>4. ASSUME NEW w \in Workers PROVE WorkerOK(w)
  <2>1. /\ op[w] = "idle" /\ stage[w] = "commit" /\ todo[w] = {} /\ w \notin failed
        /\ loaded[w] = {} /\ base[w] = NoRows /\ row[w] = NoRows
    BY DEF Init
  <2>2. CartOK(w) /\ StageOK(w)
    BY <2>1 DEF CartOK, StageOK
  <2>3. \A p \in Products : /\ SnapshotOK(w, p)
                            /\ LineOK(w, p, row[w][p], base[w][p], cart[w][p])
    BY <2>1 DEF SnapshotOK, LineOK, RowOK, NoRows, NoRow, Present, ReserveOps
  <2> QED BY <2>2, <2>3 DEF WorkerOK
<1> QED BY <1>1, <1>3, <1>4 DEF IndInv, SessionsSound

\* The inductive invariant holds in every reachable state: open sessions hold
\* rows the table has had, changed by the lines treated so far.
THEOREM Invariance == Spec => []IndInv
<1> QED BY IndInit, IndStep, PTL DEF Spec

\* The types of InventoryStock, for any constants.
THEOREM TypeCorrect == Spec => []TypeOK
<1>1. IndInv => TypeOK
  BY DEF IndInv
<1> QED BY <1>1, Invariance, PTL

\* No quantity below zero and no unit lost or invented, whatever runs at the
\* same time and however many products, workers and requests there are.
THEOREM StockIsSound == Spec => []StockSound
<1>1. IndInv => StockSound
  BY DEF IndInv
<1> QED BY <1>1, Invariance, PTL

-----------------------------------------------------------------------------
(* What a step does to the committed rows.                                 *)

\* Only a commit changes the table.
LEMMA OnlyCommitWrites ==
    ASSUME [Next]_vars, ~\E w \in Workers : Commit(w)
    PROVE  UNCHANGED <<inventory, supplied>>
<1>1. ASSUME NEW w \in Workers, Step(w) PROVE UNCHANGED <<inventory, supplied>>
  BY <1>1 DEF Step, AcquireLock, BatchRow, BatchRejected, LockFails, ExitLock,
              RestockRow, ReleaseRow, ReserveRow, OutOfStock, TakeBackRow, Conflict
<1>2. ASSUME NEW w \in Workers, Request(w) PROVE UNCHANGED <<inventory, supplied>>
  BY <1>2 DEF Request, Begin, BeginRestock, BeginReserveBatch, BeginOrderCreated,
              BeginRelease
<1>3. ASSUME NEW w \in Workers, Crash(w) PROVE UNCHANGED <<inventory, supplied>>
  BY <1>3 DEF Crash
<1>4. ASSUME NEW p \in Products, LockExpires(p) PROVE UNCHANGED <<inventory, supplied>>
  BY <1>4 DEF LockExpires
<1> QED BY <1>1, <1>2, <1>3, <1>4 DEF Next, vars

\* A row that changes gets a version no session has read: a session that loaded
\* the old row cannot commit over the new one.
THEOREM VersionsAdvance == Spec => VersionAdvances
<1>1. IndInv /\ [Next]_vars =>
          [\A p \in Products : inventory'[p] # inventory[p] =>
              inventory'[p].version > inventory[p].version]_vars
  <2> SUFFICES ASSUME IndInv, [Next]_vars, NEW p \in Products,
                      inventory'[p] # inventory[p]
               PROVE  inventory'[p].version > inventory[p].version
    OBVIOUS
  <2>1. PICK w \in Workers : Commit(w)
    BY OnlyCommitWrites
  <2> QED BY <2>1, CommitRowOK
<1> QED BY <1>1, Invariance, PTL DEF Spec, VersionAdvances

-----------------------------------------------------------------------------
(* The refinement of StockLedger.                                          *)

\* The quantities of a row, as StockLedger keeps them.
Plain(r) == [available |-> r.available, reserved |-> r.reserved]

\* A committed reservation takes all of its item list at once.
LEMMA ReserveRefines ==
    ASSUME IndInv, NEW w \in Workers, Commit(w), op[w] \in ReserveOps, w \notin failed
    PROVE  cart[w] \in Carts /\ Ledger!Reserve(cart[w])
<1>1. cart[w] \in Carts /\ op[w] # "restock"
  BY DEF IndInv, SessionsSound, WorkerOK, CartOK, ReserveOps
<1>2. ASSUME NEW p \in Products
      PROVE  /\ Ledger!Enough(stock[p], cart[w][p])
             /\ stock'[p] = Ledger!Deducted(stock[p], cart[w][p])
  <2>1. /\ inventory[p] \in Row /\ cart[w][p] \in Nat /\ inventory[p].available >= 0
        /\ stock[p] = Plain(inventory[p]) /\ stock'[p] = Plain(inventory'[p])
    BY DEF IndInv, TypeOK, StockSound, stock, Plain
  <2>2. CASE cart[w][p] > 0
    <3>1. /\ Enough(inventory[p], cart[w][p])
          /\ inventory'[p] = Deducted(inventory[p], cart[w][p])
      BY <2>2, CommittedRow
    <3> QED BY <2>1, <3>1 DEF Plain, Deducted, Enough, Ledger!Deducted, Ledger!Enough
  <2>3. CASE cart[w][p] = 0
    <3>1. inventory'[p] = inventory[p]
      BY <2>3, CommittedRow
    <3> QED BY <2>1, <2>3, <3>1 DEF Plain, Row, Ledger!Deducted, Ledger!Enough
  <2> QED BY <2>1, <2>2, <2>3
<1>3. stock' = [p \in Products |-> Ledger!Deducted(stock[p], cart[w][p])]
  BY <1>2 DEF stock
<1>4. UNCHANGED supplied
  BY <1>1 DEF Commit, IndInv, TypeOK
<1> QED BY <1>1, <1>2, <1>3, <1>4 DEF Ledger!Reserve

\* A reservation that ran out of stock commits its own undo: no stock moves.
LEMMA FailedRefines ==
    ASSUME IndInv, NEW w \in Workers, Commit(w), w \in failed
    PROVE  UNCHANGED <<stock, supplied>>
<1>1. op[w] # "restock"
  BY DEF IndInv, SessionsSound, WorkerOK, StageOK
<1>2. \A p \in Products : SameStock(inventory'[p], inventory[p])
  BY CommittedRow
<1>3. UNCHANGED stock
  BY <1>2 DEF stock, SameStock
<1>4. UNCHANGED supplied
  BY <1>1 DEF Commit, IndInv, TypeOK
<1> QED BY <1>3, <1>4

\* A committed release gives back the lines it reached.
LEMMA ReleaseRefines ==
    ASSUME IndInv, NEW w \in Workers, Commit(w), op[w] = "release"
    PROVE  cart[w] \in Carts /\ Ledger!Release(cart[w], Dirty(w)) /\ Dirty(w) \subseteq Products
<1>1. cart[w] \in Carts /\ Dirty(w) \subseteq Products
  BY DEF IndInv, SessionsSound, WorkerOK, CartOK, Dirty, TypeOK
<1>2. ASSUME NEW p \in Products
      PROVE  stock'[p] = IF p \in Dirty(w) THEN Ledger!Released(stock[p], cart[w][p])
                                           ELSE stock[p]
  <2>1. /\ inventory[p] \in Row /\ cart[w][p] \in Nat
        /\ stock[p] = Plain(inventory[p]) /\ stock'[p] = Plain(inventory'[p])
        /\ inventory'[p] = IF p \in Dirty(w) THEN Released(inventory[p], cart[w][p])
                                             ELSE inventory[p]
        /\ inventory[p].reserved >= 0 /\ RowOK(inventory[p])
    BY CommittedRow DEF IndInv, TypeOK, StockSound, stock, Plain
  <2>2. CASE Present(inventory[p])
    BY <2>1, <2>2 DEF Plain, Released, ReleaseQty, Ledger!Released, Ledger!ReleaseQty
  <2>3. CASE inventory[p] = NoRow
    <3>1. inventory'[p] = inventory[p]
      BY <2>1, <2>3 DEF Released, Present, NoRow
    <3>2. ~(inventory[p].reserved < 0) /\ inventory[p].reserved = 0
      BY <2>3 DEF NoRow
    <3>3. Ledger!ReleaseQty(stock[p], cart[w][p]) = 0
      BY <2>1, <3>2 DEF Plain, Ledger!ReleaseQty
    <3>4. Ledger!Released(stock[p], cart[w][p]) = stock[p]
      BY <2>1, <2>3, <3>3 DEF Plain, NoRow, Ledger!Released
    <3> QED BY <2>1, <3>1, <3>4
  <2> QED BY <2>1, <2>2, <2>3 DEF RowOK
<1>3. stock' = [p \in Products |-> IF p \in Dirty(w)
                                   THEN Ledger!Released(stock[p], cart[w][p])
                                   ELSE stock[p]]
  BY <1>2 DEF stock
<1>4. UNCHANGED supplied
  BY DEF Commit, IndInv, TypeOK
<1> QED BY <1>1, <1>3, <1>4 DEF Ledger!Release

\* A committed restock adds its quantity to one product.
LEMMA RestockRefines ==
    ASSUME IndInv, NEW w \in Workers, Commit(w), op[w] = "restock"
    PROVE  \E p \in Products, q \in RestockQuantities : Ledger!Restock(p, q)
<1>1. PICK p \in Products, q \in RestockQuantities : cart[w] = [NoItems EXCEPT ![p] = q]
  BY DEF IndInv, SessionsSound, WorkerOK, CartOK
<1>2. /\ q \in Nat /\ q > 0 /\ cart[w][p] = q
      /\ \A x \in Products \ {p} : cart[w][x] = 0
  BY <1>1, QuantityAssumption DEF NoItems
<1>3. /\ inventory[p] \in Row
      /\ inventory'[p] = Restocked(inventory[p], q)
      /\ \A x \in Products \ {p} : inventory'[x] = inventory[x]
  <2>1. inventory[p] \in Row
    BY DEF IndInv, TypeOK
  <2>2. \A x \in Products : inventory'[x] = IF cart[w][x] > 0
                                            THEN Restocked(inventory[x], cart[w][x])
                                            ELSE inventory[x]
    BY CommittedRow
  <2> QED BY <1>2, <2>1, <2>2
<1>4. stock'[p] = [available |-> stock[p].available + q, reserved |-> stock[p].reserved]
  BY <1>3 DEF stock, Restocked
<1>5. \A x \in Products \ {p} : stock'[x] = stock[x]
  BY <1>3 DEF stock
<1>6. stock' = [x \in Products |-> IF x = p
                                   THEN [available |-> stock[p].available + q,
                                         reserved |-> stock[p].reserved]
                                   ELSE stock[x]]
  BY <1>4, <1>5 DEF stock
<1>7. supplied' = [supplied EXCEPT ![p] = @ + q]
  <2>1. supplied \in [Products -> Nat]
    BY DEF IndInv, TypeOK
  <2>2. supplied' = [x \in Products |-> supplied[x] + cart[w][x]]
    BY DEF Commit
  <2>3. \A x \in Products \ {p} : supplied[x] + cart[w][x] = supplied[x]
    BY <1>2, <2>1
  <2> QED BY <1>2, <2>1, <2>2, <2>3
<1> QED BY <1>6, <1>7 DEF Ledger!Restock

\* The sessions implement StockLedger: every committed operation is one of its
\* atomic steps on the whole item list, and nothing else shows.
THEOREM Refinement == Spec => AtomicStock
<1>1. Init => Ledger!LedgerInit
  BY DEF Init, Ledger!LedgerInit, stock, NoRows, NoRow, NoItems
<1>2. IndInv /\ [Next]_vars => [Ledger!LedgerNext]_(Ledger!ledgerVars)
  <2> SUFFICES ASSUME IndInv, [Next]_vars
               PROVE  Ledger!LedgerNext \/ UNCHANGED <<stock, supplied>>
    BY DEF Ledger!ledgerVars
  <2>1. CASE ~\E w \in Workers : Commit(w)
    BY <2>1, OnlyCommitWrites DEF stock
  <2>2. ASSUME NEW w \in Workers, Commit(w)
        PROVE  Ledger!LedgerNext \/ UNCHANGED <<stock, supplied>>
    <3>1. CASE w \in failed
      BY <2>2, <3>1, FailedRefines
    <3>2. CASE op[w] \in ReserveOps /\ w \notin failed
      BY <2>2, <3>2, ReserveRefines DEF Ledger!LedgerNext
    <3>3. CASE op[w] = "release"
      BY <2>2, <3>3, ReleaseRefines DEF Ledger!LedgerNext
    <3>4. CASE op[w] = "restock"
      BY <2>2, <3>4, RestockRefines DEF Ledger!LedgerNext
    <3> QED BY <2>2, <3>1, <3>2, <3>3, <3>4
            DEF Commit, IndInv, TypeOK, Ops, LockedOps, ReserveOps
  <2> QED BY <2>1, <2>2
<1> QED BY <1>1, <1>2, Invariance, PTL DEF Spec, AtomicStock, Ledger!LedgerSpec

=============================================================================
