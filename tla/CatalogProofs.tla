---------------------------- MODULE CatalogProofs ----------------------------
(***************************************************************************)
(* The safety properties of the catalog page, for any products, lists,      *)
(* filters, terms and bounds.  CatalogInv is inductive.  The search in      *)
(* force is what was typed because the timer that runs has that term        *)
(* (TimerAsTyped); an announced import is shown because its own fetch       *)
(* starts after every other that is under way (ImportComing).               *)
(***************************************************************************)
EXTENDS Catalog, PageFetchProofs

\* What can be typed: sequences of keys no longer than the bound.
LEMMA TermsAre == \A s : s \in Terms <=> s \in Seq(Keys) /\ Len(s) <= MaxTyped
BY Bounded, CatalogAssumption DEF Terms

\* The empty box is a term, and "no term" is not.
LEMMA EmptyTerm == <<>> \in Terms /\ None \notin Terms
<1>1. <<>> \in Seq(Keys) /\ Len(<<>>) <= MaxTyped
  BY CatalogAssumption
<1> QED
  BY <1>1, TermsAre, CatalogAssumption DEF Terms

\* The page makes products of the ids in an answer, and no more than it asked for.
LEMMA CategorisedType ==
  ASSUME NEW ids \in Seq(Ids)
  PROVE  Categorised(ids) \in Seq(Product) /\ Len(Categorised(ids)) <= PageMax
<1> DEFINE n == IF Len(ids) < PageMax THEN Len(ids) ELSE PageMax
           made(i) == [id |-> ids[i], category |-> Categories[((i - 1) % Len(Categories)) + 1]]
<1>1. n \in Nat /\ n <= PageMax /\ n <= Len(ids)
  BY CatalogAssumption
<1>2. Len(Categories) \in Nat \ {0} /\ DOMAIN Categories = 1..Len(Categories)
  BY CatalogAssumption, EmptySeq, LenProperties
<1>3. ASSUME NEW i \in 1..n PROVE made(i) \in Product
  <2>1. ids[i] \in Ids
    BY <1>1, ElementOfSeq
  <2>2. ((i - 1) % Len(Categories)) + 1 \in DOMAIN Categories
    <3>1. i - 1 \in Nat
      BY <1>1
    <3>2. (i - 1) % Len(Categories) \in 0..Len(Categories) - 1
      BY <1>2, <3>1
    <3> QED
      BY <1>2, <3>2
  <2> QED
    BY <2>1, <2>2 DEF Product
<1>4. Categorised(ids) = [i \in 1..n |-> made(i)]
  BY DEF Categorised
<1> HIDE DEF made, n
<1>5. Categorised(ids) \in [1..n -> Product]
  BY <1>3, <1>4
<1> QED
  BY <1>1, <1>5

\* The grid has products of the list.
LEMMA ProcessedType ==
  ASSUME TypeOK
  PROVE  ProcessedProducts \in Seq(Product)
<1> DEFINE key == [i \in Filtered |-> IF sortBy = "default" THEN 0
                                      ELSE Rank[sortBy][products[i].id]]
<1>1. Filtered \in SUBSET DOMAIN products
  BY DEF Filtered
<1>2. \A i \in DOMAIN products : products[i] \in Product
  BY Listed DEF TypeOK
<1>3. key \in [Filtered -> Int]
  <2> SUFFICES ASSUME NEW i \in Filtered, sortBy # "default"
               PROVE  Rank[sortBy][products[i].id] \in Int
    OBVIOUS
  <2>1. products[i].id \in Ids
    BY <1>1, <1>2 DEF Product
  <2>2. sortBy \in Orders \ {"default"}
    BY DEF TypeOK
  <2> QED
    BY <2>1, <2>2, CatalogAssumption
<1>4. ProcessedProducts = Arranged(products, Filtered, key)
  BY DEF ProcessedProducts
<1> HIDE DEF key
<1> QED
  BY <1>1, <1>3, <1>4, ArrangedElements DEF TypeOK

\* So have the recommendations.
LEMMA RecommendationsType ==
  ASSUME TypeOK
  PROVE  Range(Recommendations) \subseteq Product
<1> DEFINE I == {i \in DOMAIN products : /\ products[i].category = selectedProduct.category
                                         /\ products[i].id # selectedProduct.id}
           alike == InPlace(products, I)
           n == IF Len(alike) < 3 THEN Len(alike) ELSE 3
<1>1. [i \in I |-> 0] \in [I -> Int] /\ I \in SUBSET DOMAIN products
  OBVIOUS
<1>2. alike \in Seq(Product)
  <2> HIDE DEF I
  <2> QED
    BY <1>1, ArrangedElements DEF TypeOK, InPlace
<1>3. Recommendations = SubSeq(alike, 1, n)
  BY DEF Recommendations
<1> HIDE DEF alike
<1>4. n \in Nat /\ n <= Len(alike)
  BY <1>2
<1>5. Recommendations \in Seq(Product)
  BY <1>2, <1>3, <1>4
<1>6. Range(Recommendations) = {Recommendations[i] : i \in DOMAIN Recommendations}
  BY DEF Range
<1> QED
  BY <1>5, <1>6, Listed

-----------------------------------------------------------------------------

\* When the page is first opened CatalogInv holds.
LEMMA InitCatalogInv == Init => CatalogInv
<1> SUFFICES ASSUME Init PROVE CatalogInv
  OBVIOUS
<1>1. /\ loading = TRUE /\ flight = <<NewFetch("page")>> /\ version = 0 /\ shown = 0
      /\ stale = FALSE
  BY DEF Init, FetchInit
<1>2. NewFetch("page") \in [tag : {"page"}, answered : BOOLEAN, at : 0..version, late : BOOLEAN]
      /\ ~NewFetch("page").answered
  BY <1>1 DEF NewFetch
<1>3. FetchTypeOK({"page"}) /\ flight # <<>>
  <2>1. loading \in BOOLEAN /\ stale \in BOOLEAN
    BY <1>1
  <2>2. version \in 0..MaxVersion /\ shown \in 0..version /\ flight # <<>>
    BY <1>1, BoundsAssumption
  <2>3. flight \in Seq([tag : {"page"}, answered : BOOLEAN, at : 0..version, late : BOOLEAN])
    BY <1>1, <1>2
  <2> QED
    BY <2>1, <2>2, <2>3 DEF FetchTypeOK
<1>4. ImportComing
  BY <1>1, <1>2 DEF Init, ImportComing, Covered, Brings
<1>5. products \in Seq(Product) /\ Len(products) <= PageMax
  BY CatalogAssumption DEF Init
<1>6. TypeOK
  <2>1. /\ error \in BOOLEAN /\ hasty \in BOOLEAN
        /\ isBulkOpen => selectedProduct = None
        /\ bulkSubmitting = (post # "idle")
    BY DEF Init
  <2>2. /\ search \in Terms /\ pending \in Terms \union {None} /\ asked \in Terms
        /\ selectedCategory \in Range(Categories) \union {All}
        /\ leftRunning \in Terms \union {None}
        /\ maxPrice \in Limits /\ sortBy \in Orders
        /\ selectedProduct \in Product \union {None} /\ activeImageIndex \in 1..Images
        /\ post \in {"idle", "sent", "done", "failed"} /\ announced \in 0..version
        /\ itemIds \subseteq Ids
    BY <1>1, EmptyTerm, CatalogAssumption DEF Init
  <2> QED
    BY <1>3, <1>5, <2>1, <2>2 DEF TypeOK
<1>7. SearchAsTyped /\ TimerAsTyped
  BY DEF Init, SearchAsTyped, TimerAsTyped
<1> QED
  BY <1>4, <1>6, <1>7 DEF CatalogInv

\* A step that leaves the list and the search box alone.
LEMMA IdleStep ==
  ASSUME CatalogInv, TypeOK', UNCHANGED <<search, pending, asked, hasty, leftRunning, error>>,
         UNCHANGED <<flight, shown, stale, announced>>
  PROVE  CatalogInv'
BY DEF CatalogInv, SearchAsTyped, ResetUndone, TimerAsTyped, ImportComing

\* A step of the fetches.
LEMMA FetchStep ==
  ASSUME CatalogInv, FetchTypeOK({"page"})', flight' = <<>> => ~loading',
         products' \in Seq(Product), Len(products') <= PageMax, error' \in BOOLEAN,
         ~error' => Covered(flight', shown', stale', announced),
         UNCHANGED <<version, box, filters, drawer, import, itemIds>>
  PROVE  CatalogInv'
<1>1. TypeOK'
  BY DEF CatalogInv, TypeOK, box, filters, drawer, import
<1>2. ImportComing'
  BY DEF ImportComing, import
<1>3. SearchAsTyped' /\ TimerAsTyped'
  BY DEF CatalogInv, SearchAsTyped, ResetUndone, TimerAsTyped, box
<1> QED
  BY <1>1, <1>2, <1>3 DEF CatalogInv

\* A step of the search box.
LEMMA BoxStep ==
  ASSUME CatalogInv, search' \in Terms, pending' \in Terms \union {None}, asked' \in Terms,
         hasty' \in BOOLEAN, leftRunning' \in Terms \union {None}, SearchAsTyped', TimerAsTyped',
         selectedCategory' \in Range(Categories) \union {All}, maxPrice' \in Limits,
         UNCHANGED <<sortBy, list, version, drawer, import, itemIds>>
  PROVE  CatalogInv'
<1>1. UNCHANGED <<products, error, loading, flight, shown, stale, announced>>
  BY DEF list, fetchVars, import
<1>2. FetchTypeOK({"page"})'
  BY <1>1 DEF CatalogInv, TypeOK, FetchTypeOK
<1>3. TypeOK'
  BY <1>1, <1>2 DEF CatalogInv, TypeOK, drawer, import
<1>4. ImportComing'
  BY <1>1 DEF CatalogInv, ImportComing
<1> QED
  BY <1>3, <1>4 DEF CatalogInv

\* handleChange keeps the box sound, if what it adds to the term in force is
\* what was typed.
LEMMA ChangeStep ==
  ASSUME CatalogInv, NEW typed \in Terms, NEW val \in Terms, Change(typed, val),
         search = asked => val = typed,
         UNCHANGED <<search, list, version, filters, drawer, import, itemIds>>
  PROVE  CatalogInv'
<1> USE DEF CatalogInv
<1>1. /\ asked' = typed /\ pending' = val /\ search' = search
      /\ hasty' = (hasty \/ search # asked) /\ leftRunning' = None
  BY DEF Change
<1>2. hasty' \in BOOLEAN
  <2>1. (hasty \/ search # asked) \in BOOLEAN
    OBVIOUS
  <2> QED
    BY <1>1, <2>1
<1>3. ~hasty' => search = asked
  BY <1>1
<1>4. SearchAsTyped'
  BY <1>1, EmptyTerm DEF SearchAsTyped
<1>5. TimerAsTyped'
  BY <1>1, <1>3 DEF TimerAsTyped
<1>6. /\ search \in Terms /\ selectedCategory' \in Range(Categories) \union {All}
      /\ maxPrice' \in Limits /\ sortBy' = sortBy
  BY DEF TypeOK, filters
<1> QED
  BY <1>1, <1>2, <1>4, <1>5, <1>6, BoxStep

\* A step of the drawer, the dialog, the order or the wishlist.
LEMMA PanelStep ==
  ASSUME CatalogInv,
         UNCHANGED <<list, version, box, selectedCategory, announced>>,
         maxPrice' \in Limits, sortBy' \in Orders, selectedProduct' \in Product \union {None},
         activeImageIndex' \in 1..Images, isBulkOpen' => selectedProduct' = None,
         post' \in {"idle", "sent", "done", "failed"}, bulkSubmitting' = (post' # "idle"),
         itemIds' \subseteq Ids
  PROVE  CatalogInv'
<1>1. UNCHANGED <<products, error, loading, flight, shown, stale, search, pending, asked, hasty,
                  leftRunning>>
  BY DEF list, fetchVars, box
<1>2. FetchTypeOK({"page"})'
  BY <1>1 DEF CatalogInv, TypeOK, FetchTypeOK
<1>3. TypeOK'
  BY <1>1, <1>2 DEF CatalogInv, TypeOK
<1> QED
  BY <1>1, <1>3, IdleStep

\* The records change, by an import or elsewhere.
LEMMA ChangedStep ==
  ASSUME CatalogInv, version < MaxVersion, version' = version + 1,
         UNCHANGED <<list, box, filters, drawer, isBulkOpen, announced, itemIds>>,
         post' \in {"idle", "sent", "done", "failed"}, bulkSubmitting' = (post' # "idle")
  PROVE  CatalogInv'
<1>1. UNCHANGED <<products, error, loading, flight, shown, stale, search, pending, asked,
                  hasty, leftRunning, selectedCategory, maxPrice, sortBy, selectedProduct, activeImageIndex>>
  BY DEF list, fetchVars, box, filters, drawer
<1>2. version' \in version..MaxVersion /\ announced \in 0..version'
  BY BoundsAssumption DEF CatalogInv, TypeOK, FetchTypeOK
<1>3. FetchTypeOK({"page"})'
  BY <1>1, <1>2, Changed DEF CatalogInv, TypeOK
<1>4. TypeOK'
  BY <1>1, <1>2, <1>3 DEF CatalogInv, TypeOK
<1> QED
  BY <1>1, <1>4, IdleStep

-----------------------------------------------------------------------------

\* Every step of the page preserves CatalogInv.
LEMMA StepCatalogInv == CatalogInv /\ [Next]_vars => CatalogInv'
<1> SUFFICES ASSUME CatalogInv, [Next]_vars PROVE CatalogInv'
  OBVIOUS
<1>a. /\ TypeOK /\ SearchAsTyped /\ TimerAsTyped /\ ImportComing
      /\ FetchTypeOK({"page"}) /\ version \in Nat /\ announced \in 0..version
  BY BoundsAssumption DEF CatalogInv, TypeOK, FetchTypeOK
<1>b. /\ products \in Seq(Product) /\ Len(products) <= PageMax /\ error \in BOOLEAN
      /\ maxPrice \in Limits /\ sortBy \in Orders /\ selectedProduct \in Product \union {None}
      /\ activeImageIndex \in 1..Images /\ (isBulkOpen => selectedProduct = None)
      /\ post \in {"idle", "sent", "done", "failed"} /\ bulkSubmitting = (post # "idle")
      /\ itemIds \subseteq Ids /\ selectedCategory \in Range(Categories) \union {All}
  BY <1>a DEF TypeOK
<1>c. search \in Terms /\ pending \in Terms \union {None} /\ asked \in Terms
      /\ hasty \in BOOLEAN /\ leftRunning \in Terms \union {None}
  BY <1>a DEF TypeOK
<1>1. CASE OpenPage
  <2>1. /\ OpenFetch(<<NewFetch("page")>>) /\ FreshPage
        /\ UNCHANGED <<version, itemIds>>
    BY <1>1 DEF OpenPage
  <2>2. FetchTypeOK({"page"})' /\ (flight' = <<>> => ~loading')
        /\ Covered(flight', shown', stale', 0)
    <3>1. version \in 0..MaxVersion
      BY <1>a DEF FetchTypeOK
    <3> QED
      BY <2>1, <3>1, Opened
  <2>3. products' \in Seq(Product) /\ Len(products') <= PageMax
    BY <2>1, CatalogAssumption DEF FreshPage
  <2>4. version' = version /\ 0 \in 0..version /\ itemIds' \subseteq Ids
    BY <1>a, <1>b, <2>1
  <2>5. /\ error' \in BOOLEAN /\ hasty' \in BOOLEAN
        /\ isBulkOpen' => selectedProduct' = None
        /\ bulkSubmitting' = (post' # "idle")
    BY <2>1 DEF FreshPage
  <2>6. /\ search' \in Terms /\ pending' \in Terms \union {None} /\ asked' \in Terms
        /\ leftRunning' \in Terms \union {None}
        /\ selectedCategory' \in Range(Categories) \union {All}
        /\ maxPrice' \in Limits /\ sortBy' \in Orders
        /\ selectedProduct' \in Product \union {None} /\ activeImageIndex' \in 1..Images
        /\ post' \in {"idle", "sent", "done", "failed"} /\ announced' \in 0..version'
    BY <2>1, <2>4, EmptyTerm, CatalogAssumption DEF FreshPage
  <2>7. TypeOK'
    BY <2>2, <2>3, <2>4, <2>5, <2>6 DEF TypeOK
  <2>8. SearchAsTyped' /\ TimerAsTyped' /\ ImportComing'
    BY <2>1, <2>2 DEF FreshPage, SearchAsTyped, TimerAsTyped, ImportComing
  <2> QED
    BY <2>7, <2>8 DEF CatalogInv
<1>2. CASE ChangeElsewhere
  BY <1>2, <1>b, ChangedStep DEF ChangeElsewhere, import
<1>3. ASSUME NEW f \in DOMAIN flight, FetchAnswered(f) PROVE CatalogInv'
  <2>1. /\ ServerAnswers(f)
        /\ UNCHANGED <<products, error, loading, shown, stale, version, box, filters,
                       drawer, import, itemIds>>
    BY <1>3 DEF FetchAnswered
  <2>2. /\ FetchTypeOK({"page"})' /\ DOMAIN flight' = DOMAIN flight
        /\ Covered(flight, shown, stale, announced) => Covered(flight', shown', stale', announced)
    BY <1>a, <2>1, Answered
  <2>3. flight' # <<>>
    BY <2>2
  <2> QED
    BY <1>a, <1>b, <2>1, <2>2, <2>3, FetchStep DEF ImportComing
<1>4. ASSUME NEW f \in DOMAIN flight, FetchDone(f) PROVE CatalogInv'
  <2>1. /\ TakeAnswer(f) /\ products' = Categorised(ListAt[flight[f].at])
        /\ UNCHANGED <<error, version, box, filters, drawer, import, itemIds>>
    BY <1>4 DEF FetchDone
  <2>2. /\ FetchTypeOK({"page"})' /\ ~loading' /\ flight[f].at \in 0..version
        /\ Covered(flight, shown, stale, announced) => Covered(flight', shown', stale', announced)
    BY <1>a, <2>1, Taken
  <2>3. flight[f].at \in 0..MaxVersion
    BY <1>a, <2>2, BoundsAssumption DEF FetchTypeOK
  <2>4. products' \in Seq(Product) /\ Len(products') <= PageMax
    BY <2>1, <2>3, CatalogAssumption, CategorisedType
  <2> QED
    BY <1>a, <1>b, <2>1, <2>2, <2>4, FetchStep DEF ImportComing
<1>5. ASSUME NEW f \in DOMAIN flight, FetchFails(f) PROVE CatalogInv'
  <2>1. /\ LoseAnswer(f) /\ error' = TRUE
        /\ UNCHANGED <<products, version, box, filters, drawer, import, itemIds>>
    BY <1>5 DEF FetchFails
  <2>2. FetchTypeOK({"page"})' /\ ~loading'
    BY <1>a, <2>1, Lost
  <2> QED
    BY <1>b, <2>1, <2>2, FetchStep
<1>6. ASSUME NEW k \in Keys, TypeKey(k) PROVE CatalogInv'
  <2>1. /\ Len(search) < MaxTyped /\ Len(asked) < MaxTyped
        /\ Change(Append(asked, k), Append(search, k))
        /\ UNCHANGED <<search, list, version, filters, drawer, import, itemIds>>
    BY <1>6 DEF TypeKey
  <2>2. /\ search \in Seq(Keys) /\ asked \in Seq(Keys) /\ MaxTyped \in Nat
    BY <1>c, TermsAre, CatalogAssumption
  <2>3. Append(asked, k) \in Terms /\ Append(search, k) \in Terms
    <3>1. /\ Append(asked, k) \in Seq(Keys) /\ Len(Append(asked, k)) <= MaxTyped
          /\ Append(search, k) \in Seq(Keys) /\ Len(Append(search, k)) <= MaxTyped
      BY <2>1, <2>2
    <3> QED
      BY <3>1, TermsAre
  <2> QED
    BY <2>1, <2>3, ChangeStep
<1>7. CASE EraseKey
  <2> DEFINE typed == IF asked = <<>> THEN <<>> ELSE Front(asked)
  <2>1. /\ search # <<>> /\ Change(typed, Front(search))
        /\ UNCHANGED <<search, list, version, filters, drawer, import, itemIds>>
    BY <1>7 DEF EraseKey
  <2>2. ASSUME NEW s \in Terms, s # <<>> PROVE Front(s) \in Terms
    <3>1. s \in Seq(Keys) /\ Len(s) <= MaxTyped /\ MaxTyped \in Nat /\ Len(s) \in Nat \ {0}
      BY <2>2, TermsAre, CatalogAssumption, EmptySeq
    <3>2. Front(s) \in Seq(Keys) /\ Len(Front(s)) = Len(s) - 1
      <4>1. 1 \in Int /\ Len(s) - 1 \in Int /\ \A i \in 1..(Len(s) - 1) : s[i] \in Keys
        BY <3>1
      <4>2. /\ SubSeq(s, 1, Len(s) - 1) \in Seq(Keys)
            /\ Len(SubSeq(s, 1, Len(s) - 1)) =
                  IF 1 <= Len(s) - 1 THEN (Len(s) - 1) - 1 + 1 ELSE 0
        BY <4>1, SubSeqProperties
      <4>3. Front(s) = SubSeq(s, 1, Len(s) - 1)
        BY DEF Front
      <4>4. (IF 1 <= Len(s) - 1 THEN (Len(s) - 1) - 1 + 1 ELSE 0) = Len(s) - 1
        <5>1. \A n \in Nat \ {0} : (IF 1 <= n - 1 THEN (n - 1) - 1 + 1 ELSE 0) = n - 1
          OBVIOUS
        <5> QED
          BY <3>1, <5>1, Zenon
      <4> QED
        BY <4>2, <4>3, <4>4, Zenon
    <3> QED
      BY <3>1, <3>2, TermsAre
  <2>3. typed \in Terms /\ Front(search) \in Terms
    BY <1>c, <2>1, <2>2, EmptyTerm
  <2>4. search = asked => Front(search) = typed
    BY <2>1
  <2>5. ASSUME NEW t \in Terms, Change(t, Front(search)), search = asked => Front(search) = t
        PROVE  CatalogInv'
    BY <2>1, <2>3, <2>5, ChangeStep
  <2> HIDE DEF typed
  <2> QED
    BY <2>1, <2>3, <2>4, <2>5
<1>8. CASE ClearSearch
  BY <1>8, <1>b, EmptyTerm, BoxStep DEF ClearSearch, SearchAsTyped, TimerAsTyped, filters
<1>9. CASE SearchTimer
  <2>1. SearchAsTyped' /\ TimerAsTyped'
    BY <1>9, <1>a DEF SearchTimer, SearchAsTyped, ResetUndone, TimerAsTyped
  <2> QED
    BY <1>9, <1>b, <1>c, <2>1, BoxStep DEF SearchTimer, filters
<1>10. CASE ResetFilters
  <2>1. /\ search' = <<>> /\ asked' = <<>> /\ pending' = pending
        /\ hasty' = FALSE /\ leftRunning' = pending
        /\ selectedCategory' = All /\ maxPrice' = TopLimit
        /\ UNCHANGED <<sortBy, list, version, drawer, import, itemIds>>
    BY <1>10 DEF ResetFilters
  <2>2. hasty' \in BOOLEAN /\ leftRunning' \in Terms \union {None}
    BY <1>c, <2>1
  <2>3. SearchAsTyped' /\ TimerAsTyped'
    BY <2>1 DEF SearchAsTyped, TimerAsTyped
  <2> QED
    BY <1>c, <2>1, <2>2, <2>3, EmptyTerm, CatalogAssumption, BoxStep
<1>11. ASSUME NEW c \in Range(Categories) \union {All}, ChooseCategory(c) PROVE CatalogInv'
  <2>1. SearchAsTyped' /\ TimerAsTyped'
    BY <1>11, <1>a DEF ChooseCategory, SearchAsTyped, ResetUndone, TimerAsTyped, box
  <2> QED
    BY <1>11, <1>b, <1>c, <2>1, BoxStep DEF ChooseCategory, box
<1>12. ASSUME NEW limit \in Limits, MoveSlider(limit) PROVE CatalogInv'
  BY <1>12, <1>b, PanelStep DEF MoveSlider, drawer, import
<1>13. ASSUME NEW o \in Orders, SortBy(o) PROVE CatalogInv'
  BY <1>13, <1>b, PanelStep DEF SortBy, drawer, import
<1>14. ASSUME NEW i \in DOMAIN ProcessedProducts, QuickView(i) PROVE CatalogInv'
  <2>1. ProcessedProducts[i] \in Product
    BY <1>a, ProcessedType, Listed
  <2>2. ~isBulkOpen /\ selectedProduct' = ProcessedProducts[i] /\ activeImageIndex' = 1
        /\ UNCHANGED <<list, version, box, filters, import, itemIds>>
    BY <1>14 DEF QuickView, Uncovered
  <2>3. 1 \in 1..Images
    BY CatalogAssumption
  <2> QED
    BY <1>b, <2>1, <2>2, <2>3, PanelStep DEF filters, import
<1>15. CASE ViewRecommended
  <2>1. /\ selectedProduct # None /\ selectedProduct' \in Product /\ activeImageIndex' = 1
        /\ UNCHANGED <<list, version, box, filters, import, itemIds>>
    BY <1>15, <1>a, RecommendationsType DEF ViewRecommended
  <2>2. 1 \in 1..Images
    BY CatalogAssumption
  <2> QED
    BY <1>b, <2>1, <2>2, PanelStep DEF filters, import
<1>16. CASE CloseDrawer
  BY <1>16, <1>b, PanelStep DEF CloseDrawer, filters, import
<1>17. ASSUME NEW idx \in 1..Images, ChooseImage(idx) PROVE CatalogInv'
  BY <1>17, <1>b, PanelStep DEF ChooseImage, filters, import
<1>18. ASSUME NEW id \in Ids, ToggleWishlist(id) PROVE CatalogInv'
  <2>1. itemIds' \subseteq Ids /\ UNCHANGED <<list, version, box, filters, drawer, import>>
    <3>1. itemIds \ {id} \subseteq Ids /\ itemIds \union {id} \subseteq Ids
      BY <1>b
    <3>2. /\ itemIds' = IF id \in itemIds THEN itemIds \ {id} ELSE itemIds \union {id}
          /\ UNCHANGED <<list, version, box, filters, drawer, import>>
      BY <1>18, Zenon DEF ToggleWishlist
    <3> QED
      BY <3>1, <3>2
  <2> QED
    BY <1>b, <2>1, PanelStep DEF filters, drawer, import
<1>19. CASE OpenBulk
  BY <1>19, <1>b, PanelStep DEF OpenBulk, Uncovered, filters, drawer
<1>20. CASE CloseBulk
  BY <1>20, <1>b, PanelStep DEF CloseBulk, filters, drawer
<1>21. CASE Submit
  BY <1>21, <1>b, PanelStep DEF Submit, filters, drawer
<1>22. CASE ImportAnswered
  <2>1. /\ bulkSubmitting /\ post' \in {"done", "failed"} /\ bulkSubmitting'
        /\ UNCHANGED <<isBulkOpen, announced, list, box, filters, drawer, itemIds>>
    BY <1>22, <1>b DEF ImportAnswered
  <2>2. CASE version < MaxVersion /\ version' = version + 1
    BY <1>22, <1>b, <2>1, <2>2, ChangedStep DEF ImportAnswered
  <2>3. CASE version' = version
    BY <1>22, <1>b, <2>1, <2>3, PanelStep DEF ImportAnswered, filters, drawer
  <2> QED
    BY <1>22, <2>2, <2>3 DEF ImportAnswered
<1>23. CASE ImportDone
  <2>1. /\ post' = "idle" /\ bulkSubmitting' = FALSE /\ isBulkOpen' = FALSE
        /\ announced' = version /\ StartFetch("page")
        /\ UNCHANGED <<products, error, shown, stale, version, box, filters, drawer, itemIds>>
    BY <1>23 DEF ImportDone
  <2>2. /\ FetchTypeOK({"page"})' /\ flight' # <<>>
        /\ Covered(flight', shown', stale', announced')
    BY <1>a, <2>1, Started
  <2>3. announced' \in 0..version'
    BY <1>a, <2>1
  <2>4. TypeOK'
    BY <1>a, <2>1, <2>2, <2>3 DEF TypeOK, box, filters, drawer
  <2>5. SearchAsTyped' /\ TimerAsTyped' /\ ImportComing'
    BY <1>a, <2>1, <2>2 DEF SearchAsTyped, ResetUndone, TimerAsTyped, ImportComing, box
  <2> QED
    BY <2>4, <2>5 DEF CatalogInv
<1>24. CASE ImportFails
  BY <1>24, <1>b, PanelStep DEF ImportFails, filters, drawer
<1>25. CASE UNCHANGED vars
  BY <1>25, <1>b, PanelStep DEF vars, filters, drawer, import
<1>26. ASSUME Next PROVE CatalogInv'
  BY <1>26, <1>1, <1>2, <1>3, <1>4, <1>5, <1>6, <1>7, <1>8, <1>9, <1>10, <1>11, <1>12,
     <1>13, <1>14, <1>15, <1>16, <1>17, <1>18, <1>19, <1>20, <1>21, <1>22, <1>23, <1>24
  DEF Next, FetchEnds, ImportEnds
<1> QED
  BY <1>25, <1>26

\* The inductive invariant of the catalog page holds throughout.
LEMMA CatalogInvariant == Spec => []CatalogInv
<1>1. Init => CatalogInv
  BY InitCatalogInv
<1>2. CatalogInv /\ [Next]_vars => CatalogInv'
  BY StepCatalogInv
<1> QED
  BY <1>1, <1>2, PTL DEF Spec

-----------------------------------------------------------------------------

\* The page's state keeps its types, with no more products than were asked for,
\* never the drawer under the dialog, and the import's button busy exactly while
\* an import is under way (Catalog).
THEOREM CatalogTypeCorrect == Spec => []TypeOK
<1>1. CatalogInv => TypeOK
  BY DEF CatalogInv
<1> QED
  BY <1>1, CatalogInvariant, PTL

\* When no timer runs, the search in force is what was typed, whatever was
\* cleared in between; or it is the term that Reset Filters took away and the
\* timer it left running brought back.  Nothing is said once a key was pressed
\* while the box showed something else than what had been typed (SearchBox,
\* handleChange and clear; Catalog, Reset Filters).
THEOREM SearchIsAsTyped == Spec => []SearchAsTyped
<1>1. CatalogInv => SearchAsTyped
  BY DEF CatalogInv
<1> QED
  BY <1>1, CatalogInvariant, PTL

\* An announced import is in the list once no fetch is under way, unless an
\* error or an overtaken answer stands there (Catalog, handleBulkImport).
THEOREM ImportIsShown == Spec => []ImportShown
<1>1. CatalogInv => ImportShown
  <2> SUFFICES ASSUME CatalogInv, flight = <<>>, ~error, ~stale PROVE shown >= announced
    BY DEF ImportShown
  <2>1. Covered(flight, shown, stale, announced) /\ DOMAIN flight = {}
    BY DEF CatalogInv, ImportComing
  <2> QED
    BY <2>1 DEF Covered
<1> QED
  BY <1>1, CatalogInvariant, PTL

=============================================================================
