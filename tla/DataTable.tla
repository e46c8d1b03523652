------------------------------ MODULE DataTable ------------------------------
(***************************************************************************)
(* The table component the record pages share: search, sort, pages,         *)
(* selection and visible columns over the rows its parent hands it.         *)
(*                                                                         *)
(* A row's text is left out but for the terms that find it, Found, and its  *)
(* place in a sort by a column, Rank.  A row's id is its own, as on the     *)
(* pages, or the component's default, its index; indices count from 0.      *)
(***************************************************************************)
EXTENDS Integers, FiniteSets, SequencesExt, Listing

CONSTANTS
    Rows,
    Columns,
    Terms,          \* search terms but the empty one
    NoTerm,         \* the empty search
    NoColumn,       \* no sort
    Found,          \* term -> rows whose rendered cells contain it
    Rank,           \* column -> row -> sort key
    PageSizes,
    DefaultSize

ASSUME SizesAssumption ==
    /\ DefaultSize \in PageSizes
    /\ PageSizes \subseteq Nat \ {0}
ASSUME TermsAssumption == NoTerm \notin Terms /\ NoColumn \notin Columns
ASSUME RowsAssumption == IsFiniteSet(Rows) /\ Rank \in [Columns -> [Rows -> Int]]

VARIABLES
    data,           \* rows the parent hands down
    byId,           \* whether the parent passes getRowId
    search, sortCol, sortDir, page, pageSize, selected, hiddenCols

table == <<search, sortCol, sortDir, page, pageSize, selected, hiddenCols>>

Ids == Rows \union 0..Cardinality(Rows) - 1

TableTypeOK ==
    /\ data \in Seq(Rows)
    /\ byId \in BOOLEAN
    /\ search \in Terms \union {NoTerm}
    /\ sortCol \in Columns \union {NoColumn}
    /\ sortDir \in IF sortCol = NoColumn THEN {"none"} ELSE {"asc", "desc"}
    /\ page \in Nat \ {0}
    /\ pageSize \in PageSizes
    /\ selected \subseteq Ids
    /\ hiddenCols \subseteq Columns

\* A table that has just been mounted.
FreshTable ==
    /\ search' = NoTerm /\ sortCol' = NoColumn /\ sortDir' = "none"
    /\ page' = 1 /\ pageSize' = DefaultSize
    /\ selected' = {} /\ hiddenCols' = {}

TableInit ==
    /\ search = NoTerm /\ sortCol = NoColumn /\ sortDir = "none"
    /\ page = 1 /\ pageSize = DefaultSize
    /\ selected = {} /\ hiddenCols = {}

-----------------------------------------------------------------------------
(* What a render derives from the state.                                   *)

\* The places in data of the rows that the search finds.
Filtered == {i \in DOMAIN data : search # NoTerm => data[i] \in Found[search]}

SortKey ==
    [i \in Filtered |-> IF sortCol = NoColumn THEN 0
                        ELSE IF sortDir = "asc" THEN Rank[sortCol][data[i]]
                        ELSE -Rank[sortCol][data[i]]]

Sorted == Arranged(data, Filtered, SortKey)

TotalPages ==
    LET n == (Len(Sorted) + pageSize - 1) \div pageSize
    IN  IF n > 1 THEN n ELSE 1

\* Mutant: a page beyond the last one is shown as it is.
UnsafePage == page

\* The page on the screen: `page`, or the last one if there are fewer.
SafePage == IF page < TotalPages THEN page ELSE TotalPages

\* The rows of page n.
Slice(n) ==
    LET last == n * pageSize
    IN  SubSeq(Sorted, (n - 1) * pageSize + 1,
               IF last < Len(Sorted) THEN last ELSE Len(Sorted))

Paged == Slice(SafePage)

RowId(r, i) == IF byId THEN r ELSE i

\* Mutant: the index counts from the start of the page.
IdOnPage(i) == RowId(Paged[i], i - 1)

\* Ids of the rows on the screen, by their place in the whole result.
IdAt(i) == RowId(Paged[i], i - 1 + (SafePage - 1) * pageSize)
PagedIds == {IdAt(i) : i \in DOMAIN Paged}

AllSelected == Paged # <<>> /\ PagedIds \subseteq selected

\* Rows a bulk action is given.
BulkRows == {data[i] : i \in {i \in DOMAIN data : RowId(data[i], i - 1) \in selected}}

-----------------------------------------------------------------------------
(* The handlers.                                                           *)

\* The table's search box hands on every key at once.
Search(q) ==
    /\ search # q
    /\ search' = q
    /\ UNCHANGED <<data, byId, sortCol, sortDir, page, pageSize, selected, hiddenCols>>

\* A column's header: ascending, descending, unsorted.
HandleSort(c) ==
    /\ c \notin hiddenCols
    /\ \/ sortCol # c /\ sortCol' = c /\ sortDir' = "asc"
       \/ sortCol = c /\ sortDir = "asc" /\ sortCol' = c /\ sortDir' = "desc"
       \/ sortCol = c /\ sortDir = "desc" /\ sortCol' = NoColumn /\ sortDir' = "none"
    /\ UNCHANGED <<data, byId, search, page, pageSize, selected, hiddenCols>>

PreviousPage ==
    /\ SafePage # 1
    /\ page' = IF page > 1 THEN page - 1 ELSE 1
    /\ UNCHANGED <<data, byId, search, sortCol, sortDir, pageSize, selected, hiddenCols>>

NextPage ==
    /\ SafePage # TotalPages
    /\ page' = IF page + 1 < TotalPages THEN page + 1 ELSE TotalPages
    /\ UNCHANGED <<data, byId, search, sortCol, sortDir, pageSize, selected, hiddenCols>>

SetPageSize(n) ==
    /\ pageSize # n
    /\ pageSize' = n
    /\ page' = 1
    /\ UNCHANGED <<data, byId, search, sortCol, sortDir, selected, hiddenCols>>

ToggleAll ==
    /\ selected' = IF AllSelected THEN selected \ PagedIds ELSE selected \union PagedIds
    /\ UNCHANGED <<data, byId, search, sortCol, sortDir, page, pageSize, hiddenCols>>

ToggleRow(i) ==
    /\ i \in DOMAIN Paged
    /\ selected' = IF IdAt(i) \in selected THEN selected \ {IdAt(i)}
                                           ELSE selected \union {IdAt(i)}
    /\ UNCHANGED <<data, byId, search, sortCol, sortDir, page, pageSize, hiddenCols>>

\* The columns menu.
ToggleColumn(c) ==
    /\ hiddenCols' = IF c \in hiddenCols THEN hiddenCols \ {c} ELSE hiddenCols \union {c}
    /\ UNCHANGED <<data, byId, search, sortCol, sortDir, page, pageSize, selected>>

TableStep ==
    \/ \E q \in Terms \union {NoTerm} : Search(q)
    \/ \E c \in Columns : HandleSort(c) \/ ToggleColumn(c)
    \/ PreviousPage \/ NextPage \/ \E n \in PageSizes : SetPageSize(n)

\* With `selectable`.
SelectionStep == ToggleAll \/ \E i \in DOMAIN Paged : ToggleRow(i)

-----------------------------------------------------------------------------
(* Properties.                                                             *)

\* The pages hold every row of the result once, in the order of the export,
\* and the page on the screen is never blank while there are rows: although
\* searches and new data shrink the result under `page` (DataTable, safePage).
PagesCoverResult ==
    /\ FlattenSeq([n \in 1..TotalPages |-> Slice(n)]) = Sorted
    /\ Sorted # <<>> => Paged # <<>>

\* A bulk action is given the rows of the page whose boxes are ticked, in any
\* search and sort.  The default ids are places in the result on the screen but
\* places in `data` for the action: there it holds only while the two agree
\* (DataTable, getRowId and bulkActions).
BulkActsOnTicked ==
    byId \/ Sorted = data =>
        \A i \in DOMAIN Paged : IdAt(i) \in selected <=> Paged[i] \in BulkRows

=============================================================================
