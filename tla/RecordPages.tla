----------------------------- MODULE RecordPages -----------------------------
(***************************************************************************)
(* The orders, users and inventory pages around the table: each fetches its *)
(* rows when it is opened, orders and inventory again on demand, and the    *)
(* inventory page restocks items.  One of them is on the screen at a time,  *)
(* or another parent that uses what these pages do not: selection, bulk     *)
(* actions and, possibly, the default ids.                                  *)
(*                                                                         *)
(* Notifications are left to LiveFeed.                                      *)
(***************************************************************************)
EXTENDS DataTable, PageFetch

CONSTANTS
    Lists,          \* rows an answer may hold
    Fallback,       \* the users page's own rows
    None            \* no row

ASSUME NoneAssumption == None \notin Rows

\* A row is an object of its own, whatever it holds.
ASSUME ListsAssumption ==
    \A rows \in Lists \union {Fallback} : rows \in Seq(Rows) /\ IsInjective(rows)

VARIABLES
    kind,           \* the page on the screen
    error,          \* its error is shown
    selectedItem,   \* row of the restock dialog
    post,           \* the restock request
    updating,       \* the dialog's flag
    announced       \* history: version of the last restock announced

pageVars == <<kind, error, fetchVars>>
restock == <<selectedItem, post, updating>>
vars == <<data, byId, table, pageVars, restock, version, announced>>

Kinds == {"orders", "users", "inventory", "other"}

TypeOK ==
    /\ TableTypeOK
    /\ kind \in Kinds
    /\ kind # "other" => byId /\ selected = {}
    /\ error \in BOOLEAN
    /\ kind \in {"users", "other"} => ~error
    /\ FetchTypeOK({"page", "restock"})
    /\ flight = <<>> => ~loading
    /\ selectedItem \in Rows \union {None}
    /\ post \in {"idle", "sent", "done", "failed"}
    /\ updating = (post # "idle" \/ \E f \in DOMAIN flight : flight[f].tag = "restock")
    /\ announced \in 0..version

Init ==
    /\ TableInit
    /\ data = <<>>
    /\ byId = TRUE
    /\ kind \in Kinds \ {"other"}
    /\ FetchInit(<<NewFetch("page")>>)
    /\ error = FALSE
    /\ selectedItem = None
    /\ post = "idle"
    /\ updating = FALSE
    /\ announced = 0

-----------------------------------------------------------------------------
(* Fetches.                                                                *)

\* One of the pages is opened; what the old one has under way no longer
\* concerns the screen.  Its restock, if it arrives, is a change elsewhere.
OpenPage(k) ==
    /\ kind' = k
    /\ IF k = "other"
       THEN /\ OpenFetch(<<>>)
            /\ data' \in Lists
            /\ byId' \in BOOLEAN
       ELSE /\ OpenFetch(<<NewFetch("page")>>)
            /\ data' = <<>>
            /\ byId' = TRUE
    /\ error' = FALSE
    /\ FreshTable
    /\ selectedItem' = None
    /\ post' = "idle"
    /\ updating' = FALSE
    /\ announced' = 0
    /\ UNCHANGED version

\* Another parent hands down other rows.
NewData(rows) ==
    /\ kind = "other"
    /\ data' = rows
    /\ UNCHANGED <<byId, table, pageVars, restock, version, announced>>

\* fetchOrders and fetchInventory up to their request.
FetchRecords(tag) ==
    /\ StartFetch(tag)
    /\ error' = FALSE

\* The Refresh button, and Retry beside an error; neither waits for a fetch
\* that is under way.
Refresh ==
    /\ kind \in {"orders", "inventory"} /\ selectedItem = None
    /\ FetchRecords("page")
    /\ UNCHANGED <<data, byId, table, kind, shown, stale, restock, version, announced>>

FetchAnswered(f) ==
    /\ ServerAnswers(f)
    /\ UNCHANGED <<data, byId, table, kind, error, loading, shown, stale,
                   restock, version, announced>>

\* handleRestock ends with the fetch that it awaits.
EndRestock(f) == updating' = (updating /\ flight[f].tag # "restock")

\* The rows of an answer go to the table.
FetchDone(f, rows) ==
    /\ TakeAnswer(f)
    /\ data' = rows
    /\ EndRestock(f)
    /\ UNCHANGED <<byId, table, kind, error, selectedItem, post, version, announced>>

\* Mutant: loading is reset after a good answer only.
FetchFailsLoading(f) ==
    /\ flight' = RemoveAt(flight, f)
    /\ EndRestock(f)
    /\ IF kind = "users" THEN /\ data' = Fallback
                              /\ UNCHANGED <<error, table>>
       ELSE /\ error' = TRUE
            /\ FreshTable
            /\ UNCHANGED data
    /\ UNCHANGED <<byId, kind, loading, shown, stale, selectedItem, post, version, announced>>

\* An error takes the table's place, and the table's state is gone; the users
\* page shows rows of its own instead.
FetchFails(f) ==
    /\ LoseAnswer(f)
    /\ EndRestock(f)
    /\ IF kind = "users" THEN /\ data' = Fallback
                              /\ UNCHANGED <<error, table>>
       ELSE /\ error' = TRUE
            /\ FreshTable
            /\ UNCHANGED data
    /\ UNCHANGED <<byId, kind, selectedItem, post, version, announced>>

\* The user works with the table while it is on the screen, no dialog over it.
UseTable ==
    /\ ~loading /\ ~error /\ selectedItem = None
    /\ TableStep \/ (kind = "other" /\ SelectionStep)
    /\ UNCHANGED <<pageVars, restock, version, announced>>

-----------------------------------------------------------------------------
(* Restocking.                                                             *)

SelectItem(i) ==
    /\ kind = "inventory"
    /\ ~loading /\ ~error /\ selectedItem = None
    /\ i \in DOMAIN Paged
    /\ selectedItem' = Paged[i]
    /\ UNCHANGED <<data, byId, table, pageVars, post, updating, version, announced>>

\* Cancel, Escape or the backdrop, also while a restock is under way.
CloseDialog ==
    /\ selectedItem # None
    /\ selectedItem' = None
    /\ UNCHANGED <<data, byId, table, pageVars, post, updating, version, announced>>

\* handleRestock; the button is disabled while it is updating.
Confirm ==
    /\ selectedItem # None /\ ~updating
    /\ post' = "sent"
    /\ updating' = TRUE
    /\ UNCHANGED <<data, byId, table, pageVars, selectedItem, version, announced>>

\* The inventory service restocks, or refuses; either answer may be lost.
RestockAnswered ==
    /\ post = "sent"
    /\ \/ /\ version < MaxVersion
          /\ version' = version + 1
          /\ post' \in {"done", "failed"}
       \/ /\ post' = "failed"
          /\ UNCHANGED version
    /\ UNCHANGED <<data, byId, table, pageVars, selectedItem, updating, announced>>

\* Mutant: the rows are not fetched again.
RestockDoneOnly ==
    /\ post = "done"
    /\ post' = "idle"
    /\ updating' = FALSE
    /\ selectedItem' = None
    /\ announced' = version
    /\ UNCHANGED <<data, byId, table, pageVars, version>>

\* The restock is announced, whatever dialog is open is closed, and the rows
\* are fetched again.
RestockDone ==
    /\ post = "done"
    /\ post' = "idle"
    /\ selectedItem' = None
    /\ announced' = version
    /\ FetchRecords("restock")
    /\ UNCHANGED <<data, byId, table, kind, updating, version, shown, stale>>

RestockFails ==
    /\ post = "failed"
    /\ post' = "idle"
    /\ updating' = FALSE
    /\ UNCHANGED <<data, byId, table, pageVars, selectedItem, version, announced>>

\* The records change without this page.
ChangeElsewhere ==
    /\ version < MaxVersion
    /\ version' = version + 1
    /\ UNCHANGED <<data, byId, table, pageVars, restock, announced>>

FetchEnds(f) == (\E rows \in Lists : FetchDone(f, rows)) \/ FetchFails(f)

RestockEnds == RestockAnswered \/ RestockDone \/ RestockFails

Next ==
    \/ \E k \in Kinds : OpenPage(k)
    \/ \E rows \in Lists : NewData(rows)
    \/ Refresh \/ UseTable \/ ChangeElsewhere
    \/ \E f \in DOMAIN flight : FetchAnswered(f) \/ FetchEnds(f)
    \/ \E i \in DOMAIN Paged : SelectItem(i)
    \/ CloseDialog \/ Confirm \/ RestockEnds

Spec == Init /\ [][Next]_vars

-----------------------------------------------------------------------------
(* Properties.                                                             *)

\* Once a restock has been announced and nothing is under way, the table shows
\* it, or an error stands in the table's place.  The exception is an answer
\* that a later fetch had overtaken: nothing keeps it from replacing newer rows
\* (Inventory, handleRestock and fetchInventory).
AnnouncedIsShown ==
    flight = <<>> /\ ~error /\ ~stale => shown >= announced

-----------------------------------------------------------------------------
(* Why they hold.                                                          *)

\* The table's parent hands down no row twice.
RowsOnce == IsInjective(data)

\* Restocks are the inventory page's, one at a time up to the end of their
\* fetch, and other parents fetch nothing.
RestocksSound ==
    /\ kind # "inventory" => selectedItem = None /\ post = "idle" /\ announced = 0
    /\ kind = "other" => flight = <<>>
    /\ \A f, g \in DOMAIN flight :
          flight[f].tag = "restock" /\ flight[g].tag = "restock" => f = g /\ post = "idle"

\* Without an error, the announced restock is in the table or coming.
RestockComing == ~error => Covered(flight, shown, stale, announced)

RecordsInv == TypeOK /\ RowsOnce /\ RestocksSound /\ RestockComing

=============================================================================
