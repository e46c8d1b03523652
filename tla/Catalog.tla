------------------------------- MODULE Catalog -------------------------------
(***************************************************************************)
(* The product catalog page: the fetched list, the filters with the         *)
(* debounced search box, the quick view drawer, the wishlist and the bulk   *)
(* import.  The cart is left to Checkout, the toasts to LiveFeed.           *)
(*                                                                         *)
(* A search term is the sequence of the keys that were typed.  The server's *)
(* list is a function of its version; an import inserts products anywhere   *)
(* in it, for the list is ordered by name.                                  *)
(***************************************************************************)
EXTENDS PageFetch, Listing

CONSTANTS
    Ids,            \* products
    ListAt,         \* the server's list of ids, by version
    PageMax,        \* products a fetch asks for
    Categories,     \* sequence of the names the page hands out
    Price,          \* of each product
    Limits,         \* positions of the price slider
    TopLimit,       \* the slider's initial one
    Orders,         \* values of the sort select, "default" among them
    Rank,           \* place of each product in each other order
    Keys,           \* keys of the search box
    MaxTyped,       \* bound on the length of a term
    Matches,        \* products that a term finds
    Images,         \* number of images of a product
    All, None       \* the category chip "All"; no product, no term

ASSUME CatalogAssumption ==
    /\ TopLimit \in Limits /\ "default" \in Orders
    /\ PageMax \in Nat \ {0} /\ MaxTyped \in Nat /\ Images \in Nat \ {0}
    /\ DOMAIN ListAt = 0..MaxVersion
    /\ \A v \in 0..MaxVersion : ListAt[v] \in Seq(Ids)
    /\ Categories \in Seq(Range(Categories)) /\ Categories # <<>>
    /\ Price \in [Ids -> Int] /\ Rank \in [Orders \ {"default"} -> [Ids -> Int]]
    /\ None \notin BoundedSeq(Keys, MaxTyped)

VARIABLES
    products,           \* what the last answer held, with categories
    error,
    search, pending,    \* the term in force; the one whose timer runs
    asked,              \* history: what was typed
    hasty,              \* history: a key came while the box did not show that
    leftRunning,        \* history: the term whose timer a reset left running
    selectedCategory, maxPrice, sortBy,
    selectedProduct,    \* the drawer's product, as it was when it was clicked
    activeImageIndex,
    isBulkOpen, bulkSubmitting,
    post,               \* the import request
    announced,          \* history: version of the last import announced
    itemIds             \* the wishlist

box == <<search, pending, asked, hasty, leftRunning>>
filters == <<selectedCategory, maxPrice, sortBy>>
drawer == <<selectedProduct, activeImageIndex>>
import == <<isBulkOpen, bulkSubmitting, post, announced>>
list == <<products, error, fetchVars>>
vars == <<list, version, box, filters, drawer, import, itemIds>>

Terms == BoundedSeq(Keys, MaxTyped)

Product == [id : Ids, category : {Categories[i] : i \in DOMAIN Categories}]

TypeOK ==
    /\ FetchTypeOK({"page"})
    /\ flight = <<>> => ~loading
    /\ products \in Seq(Product) /\ Len(products) <= PageMax
    /\ error \in BOOLEAN
    /\ search \in Terms /\ pending \in Terms \union {None} /\ asked \in Terms
    /\ hasty \in BOOLEAN /\ leftRunning \in Terms \union {None}
    /\ selectedCategory \in Range(Categories) \union {All}
    /\ maxPrice \in Limits /\ sortBy \in Orders
    /\ selectedProduct \in Product \union {None}
    /\ activeImageIndex \in 1..Images
    /\ isBulkOpen => selectedProduct = None
    /\ post \in {"idle", "sent", "done", "failed"}
    /\ bulkSubmitting = (post # "idle")
    /\ announced \in 0..version
    /\ itemIds \subseteq Ids

FreshPage ==
    /\ products' = <<>> /\ error' = FALSE
    /\ search' = <<>> /\ pending' = None
    /\ asked' = <<>> /\ hasty' = FALSE /\ leftRunning' = None
    /\ selectedCategory' = All /\ maxPrice' = TopLimit /\ sortBy' = "default"
    /\ selectedProduct' = None /\ activeImageIndex' = 1
    /\ isBulkOpen' = FALSE /\ bulkSubmitting' = FALSE
    /\ post' = "idle" /\ announced' = 0

Init ==
    /\ products = <<>> /\ error = FALSE
    /\ search = <<>> /\ pending = None
    /\ asked = <<>> /\ hasty = FALSE /\ leftRunning = None
    /\ selectedCategory = All /\ maxPrice = TopLimit /\ sortBy = "default"
    /\ selectedProduct = None /\ activeImageIndex = 1
    /\ isBulkOpen = FALSE /\ bulkSubmitting = FALSE
    /\ post = "idle" /\ announced = 0
    /\ itemIds = {}
    /\ FetchInit(<<NewFetch("page")>>)

-----------------------------------------------------------------------------
(* The list.                                                               *)

\* The page gives each product a category by its place in the answer, the
\* server having none.
Categorised(ids) ==
    [i \in 1..(IF Len(ids) < PageMax THEN Len(ids) ELSE PageMax) |->
        [id |-> ids[i], category |-> Categories[((i - 1) % Len(Categories)) + 1]]]

CategoryList == {products[i].category : i \in DOMAIN products}

\* The places in products of those that pass the filters.
Filtered ==
    {i \in DOMAIN products :
        /\ search # <<>> => products[i].id \in Matches[search]
        /\ selectedCategory # All => products[i].category = selectedCategory
        /\ Price[products[i].id] <= maxPrice}

ProcessedProducts ==
    Arranged(products, Filtered,
             [i \in Filtered |-> IF sortBy = "default" THEN 0
                                 ELSE Rank[sortBy][products[i].id]])

\* The page is left and opened again; the wishlist is persisted.
OpenPage ==
    /\ OpenFetch(<<NewFetch("page")>>)
    /\ FreshPage
    /\ UNCHANGED <<version, itemIds>>

FetchAnswered(f) ==
    /\ ServerAnswers(f)
    /\ UNCHANGED <<products, error, loading, shown, stale, version, box, filters,
                   drawer, import, itemIds>>

\* The answer does not take back an earlier error.
FetchDone(f) ==
    /\ TakeAnswer(f)
    /\ products' = Categorised(ListAt[flight[f].at])
    /\ UNCHANGED <<error, version, box, filters, drawer, import, itemIds>>

FetchFails(f) ==
    /\ LoseAnswer(f)
    /\ error' = TRUE
    /\ UNCHANGED <<products, version, box, filters, drawer, import, itemIds>>

-----------------------------------------------------------------------------
(* The filters, while neither the drawer nor the dialog covers them.       *)

Uncovered == selectedProduct = None /\ ~isBulkOpen

\* Mutant: the running timer is not cleared, and goes off with its term.
ChangeKeepsTimer(typed, val) ==
    /\ asked' = typed
    /\ hasty' = (hasty \/ search # asked)
    /\ leftRunning' = None
    /\ pending' = IF pending = None THEN val ELSE pending

\* handleChange.  The input shows `search`, not what was typed: a key pressed
\* while the timer runs is added to the term in force, and its timer replaces
\* the one that runs.
Change(typed, val) ==
    /\ asked' = typed
    /\ hasty' = (hasty \/ search # asked)
    /\ leftRunning' = None
    /\ pending' = val

TypeKey(k) ==
    /\ Uncovered
    /\ Len(search) < MaxTyped /\ Len(asked) < MaxTyped
    /\ Change(Append(asked, k), Append(search, k))
    /\ UNCHANGED <<search, list, version, filters, drawer, import, itemIds>>

EraseKey ==
    /\ Uncovered
    /\ search # <<>>
    /\ Change(IF asked = <<>> THEN <<>> ELSE Front(asked), Front(search))
    /\ UNCHANGED <<search, list, version, filters, drawer, import, itemIds>>

\* clear: the button is there while the input shows a term.
ClearSearch ==
    /\ Uncovered
    /\ search # <<>>
    /\ search' = <<>> /\ pending' = <<>>
    /\ asked' = <<>> /\ hasty' = FALSE /\ leftRunning' = None
    /\ UNCHANGED <<list, version, filters, drawer, import, itemIds>>

\* The timer goes off, whatever covers the page by then.
SearchTimer ==
    /\ pending # None
    /\ search' = pending
    /\ pending' = None
    /\ UNCHANGED <<asked, hasty, leftRunning, list, version, filters, drawer, import,
                   itemIds>>

ChooseCategory(c) ==
    /\ Uncovered
    /\ c \in CategoryList \union {All}
    /\ selectedCategory' = c
    /\ UNCHANGED <<maxPrice, sortBy, list, version, box, drawer, import, itemIds>>

MoveSlider(limit) ==
    /\ Uncovered
    /\ maxPrice' = limit
    /\ UNCHANGED <<selectedCategory, sortBy, list, version, box, drawer, import, itemIds>>

SortBy(o) ==
    /\ Uncovered
    /\ sortBy' = o
    /\ UNCHANGED <<selectedCategory, maxPrice, list, version, box, drawer, import, itemIds>>

\* Reset Filters leaves the order, and the timer of the search box, which puts
\* its term in force again when it goes off.
ResetFilters ==
    /\ Uncovered
    /\ selectedCategory' = All
    /\ maxPrice' = TopLimit
    /\ search' = <<>>
    /\ asked' = <<>> /\ hasty' = FALSE /\ leftRunning' = pending
    /\ UNCHANGED <<pending, sortBy, list, version, drawer, import, itemIds>>

-----------------------------------------------------------------------------
(* The drawer and the wishlist.                                            *)

GridShown == ~loading /\ ~error

\* A product of the grid is clicked.
QuickView(i) ==
    /\ Uncovered /\ GridShown
    /\ i \in DOMAIN ProcessedProducts
    /\ selectedProduct' = ProcessedProducts[i]
    /\ activeImageIndex' = 1
    /\ UNCHANGED <<list, version, box, filters, import, itemIds>>

\* Of the same category, as the list has it now.
Recommendations ==
    LET alike == InPlace(products,
                    {i \in DOMAIN products :
                        /\ products[i].category = selectedProduct.category
                        /\ products[i].id # selectedProduct.id})
    IN  SubSeq(alike, 1, IF Len(alike) < 3 THEN Len(alike) ELSE 3)

ViewRecommended ==
    /\ selectedProduct # None
    /\ selectedProduct' \in Range(Recommendations)
    /\ activeImageIndex' = 1
    /\ UNCHANGED <<list, version, box, filters, import, itemIds>>

ChooseImage(idx) ==
    /\ selectedProduct # None
    /\ activeImageIndex' = idx
    /\ UNCHANGED <<selectedProduct, list, version, box, filters, import, itemIds>>

\* The image index stays; the next product resets it.
CloseDrawer ==
    /\ selectedProduct # None
    /\ selectedProduct' = None
    /\ UNCHANGED <<activeImageIndex, list, version, box, filters, import, itemIds>>

\* toggleWishlist, from the grid or from the drawer.
ToggleWishlist(id) ==
    /\ \/ Uncovered /\ GridShown /\ \E i \in DOMAIN ProcessedProducts : ProcessedProducts[i].id = id
       \/ selectedProduct # None /\ selectedProduct.id = id
    /\ itemIds' = IF id \in itemIds THEN itemIds \ {id} ELSE itemIds \union {id}
    /\ UNCHANGED <<list, version, box, filters, drawer, import>>

-----------------------------------------------------------------------------
(* Bulk import.                                                            *)

OpenBulk ==
    /\ Uncovered
    /\ isBulkOpen' = TRUE
    /\ UNCHANGED <<bulkSubmitting, post, announced, list, version, box, filters, drawer, itemIds>>

\* Also while the import is under way.
CloseBulk ==
    /\ isBulkOpen
    /\ isBulkOpen' = FALSE
    /\ UNCHANGED <<bulkSubmitting, post, announced, list, version, box, filters, drawer, itemIds>>

\* handleBulkImport with a JSON array; any other text ends where it began.  The
\* button is disabled while an import is under way.
Submit ==
    /\ isBulkOpen /\ ~bulkSubmitting
    /\ bulkSubmitting' = TRUE
    /\ post' = "sent"
    /\ UNCHANGED <<isBulkOpen, announced, list, version, box, filters, drawer, itemIds>>

\* The catalog service takes the products, or refuses; the answer may be lost.
ImportAnswered ==
    /\ post = "sent"
    /\ \/ /\ version < MaxVersion
          /\ version' = version + 1
          /\ post' \in {"done", "failed"}
       \/ /\ post' = "failed"
          /\ UNCHANGED version
    /\ UNCHANGED <<isBulkOpen, bulkSubmitting, announced, list, box, filters, drawer, itemIds>>

\* Mutant: the list is not fetched again.
ImportDoneOnly ==
    /\ post = "done"
    /\ post' = "idle" /\ bulkSubmitting' = FALSE
    /\ isBulkOpen' = FALSE
    /\ announced' = version
    /\ UNCHANGED <<list, version, box, filters, drawer, itemIds>>

\* The import is announced, the dialog closed, the list fetched again; the
\* import does not wait for that.
ImportDone ==
    /\ post = "done"
    /\ post' = "idle" /\ bulkSubmitting' = FALSE
    /\ isBulkOpen' = FALSE
    /\ announced' = version
    /\ StartFetch("page")
    /\ UNCHANGED <<products, error, shown, stale, version, box, filters, drawer, itemIds>>

\* Mutant: the button is released after a good answer only.
ImportFailsBusy ==
    /\ post = "failed"
    /\ post' = "idle"
    /\ UNCHANGED <<isBulkOpen, bulkSubmitting, announced, list, version, box, filters, drawer, itemIds>>

ImportFails ==
    /\ post = "failed"
    /\ post' = "idle" /\ bulkSubmitting' = FALSE
    /\ UNCHANGED <<isBulkOpen, announced, list, version, box, filters, drawer, itemIds>>

\* Products are added without this page.
ChangeElsewhere ==
    /\ version < MaxVersion
    /\ version' = version + 1
    /\ UNCHANGED <<list, box, filters, drawer, import, itemIds>>

-----------------------------------------------------------------------------

FetchEnds(f) == FetchDone(f) \/ FetchFails(f)

ImportEnds == ImportAnswered \/ ImportDone \/ ImportFails

Next ==
    \/ OpenPage \/ ChangeElsewhere
    \/ \E f \in DOMAIN flight : FetchAnswered(f) \/ FetchEnds(f)
    \/ \E k \in Keys : TypeKey(k)
    \/ EraseKey \/ ClearSearch \/ SearchTimer \/ ResetFilters
    \/ \E c \in Range(Categories) \union {All} : ChooseCategory(c)
    \/ \E limit \in Limits : MoveSlider(limit)
    \/ \E o \in Orders : SortBy(o)
    \/ \E i \in DOMAIN ProcessedProducts : QuickView(i)
    \/ ViewRecommended \/ CloseDrawer
    \/ \E idx \in 1..Images : ChooseImage(idx)
    \/ \E id \in Ids : ToggleWishlist(id)
    \/ OpenBulk \/ CloseBulk \/ Submit \/ ImportEnds

Spec == Init /\ [][Next]_vars

-----------------------------------------------------------------------------
(* Properties.                                                             *)

\* A timer that a reset left running has gone off and undone the reset.
ResetUndone == leftRunning # None /\ search = leftRunning

\* When no timer runs, the search in force is what was typed: no timer that was
\* running undoes a later key, Backspace or clear (SearchBox, handleChange and
\* clear).  A reset it does undo, for Reset Filters does not stop it: then the
\* search in force is the very term that the reset took away, and stays so only
\* until the box is used or reset again.  Not covered is a key pressed while the
\* box shows something else than what was typed: the controlled input drops what
\* it does not show.
SearchAsTyped == pending = None /\ ~hasty => search = asked \/ ResetUndone

\* Once an import has been announced and no fetch is under way, the list is one
\* that has it, unless an error or an overtaken answer stands in its place
\* (Catalog, handleBulkImport and fetchProducts).
ImportShown == flight = <<>> /\ ~error /\ ~stale => shown >= announced

-----------------------------------------------------------------------------
(* Why they hold.                                                          *)

\* The timer that runs has the term that was typed, or one that was reset; before
\* that one goes off, the box is empty.
TimerAsTyped ==
    pending # None /\ ~hasty =>
        \/ pending = asked
        \/ leftRunning = pending /\ search = asked

\* Without an error, the announced import is in the list or coming.
ImportComing == ~error => Covered(flight, shown, stale, announced)

CatalogInv == TypeOK /\ SearchAsTyped /\ TimerAsTyped /\ ImportComing

=============================================================================
