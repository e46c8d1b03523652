-------------------------- MODULE RecordPagesProofs --------------------------
(***************************************************************************)
(* The safety properties of the record pages and their table, for any rows, *)
(* columns, terms, sizes of pages and bounds.  RecordsInv is inductive.     *)
(* The pages cover the result because every result is a stable sort of some *)
(* of the rows, cut at multiples of the page's size; an announced restock   *)
(* is shown because its own fetch starts after every other under way.       *)
(***************************************************************************)
EXTENDS RecordPages, PageFetchProofs

-----------------------------------------------------------------------------
(* What a render derives.                                                  *)

\* Every row that the search finds has a key.
LEMMA SortKeyType ==
  ASSUME TableTypeOK
  PROVE  SortKey \in [Filtered -> Int]
<1> SUFFICES ASSUME NEW i \in Filtered, sortCol # NoColumn
             PROVE  /\ Rank[sortCol][data[i]] \in Int
                    /\ -Rank[sortCol][data[i]] \in Int
  BY DEF SortKey
<1>1. data[i] \in Rows
  BY Listed DEF TableTypeOK, Filtered
<1>2. sortCol \in Columns
  BY DEF TableTypeOK
<1>3. Rank[sortCol][data[i]] \in Int
  BY <1>1, <1>2, RowsAssumption
<1> QED
  BY <1>3

\* The result has rows of the data, and no more of them.
LEMMA SortedIs ==
  ASSUME TableTypeOK
  PROVE  /\ Sorted \in Seq(Rows) /\ Len(Sorted) \in Nat /\ Len(data) \in Nat
         /\ Len(Sorted) <= Len(data)
<1>1. /\ Filtered \in SUBSET DOMAIN data /\ data \in Seq(Rows)
      /\ DOMAIN data = 1..Len(data) /\ Len(data) \in Nat
  BY DEF Filtered, TableTypeOK
<1>2. SortKey \in [Filtered -> Int]
  BY SortKeyType
<1>3. Sorted \in Seq(Rows) /\ Len(Sorted) = Cardinality(Filtered)
  BY <1>1, <1>2, ArrangedElements DEF Sorted
<1>4. IsFiniteSet(1..Len(data)) /\ Cardinality(1..Len(data)) = Len(data)
  BY <1>1, UpTo
<1>5. Cardinality(Filtered) <= Len(data)
  BY <1>1, <1>4, FS_Subset
<1> QED
  BY <1>1, <1>3, <1>5

\* What stands in the result stands in the data.
LEMMA SortedHolds ==
  ASSUME TableTypeOK, NEW k \in 1..Len(Sorted)
  PROVE  \E j \in DOMAIN data : data[j] = Sorted[k]
<1>1. Filtered \in SUBSET DOMAIN data /\ data \in Seq(Rows)
  BY DEF Filtered, TableTypeOK
<1>2. /\ Len(Sorted) = Cardinality(Filtered)
      /\ \E order \in [1..Cardinality(Filtered) -> Filtered] :
            \A n \in 1..Cardinality(Filtered) : Sorted[n] = data[order[n]]
  BY <1>1, SortKeyType, ArrangedElements DEF Sorted
<1> QED
  BY <1>1, <1>2

\* There are as many pages as the result needs, and one at least.
LEMMA PagesAre ==
  ASSUME TableTypeOK
  PROVE  /\ TotalPages \in Nat \ {0} /\ pageSize \in Nat \ {0}
         /\ Len(Sorted) <= TotalPages * pageSize
         /\ TotalPages = 1 \/ (TotalPages - 1) * pageSize < Len(Sorted)
         /\ SafePage \in 1..TotalPages
<1> DEFINE l == Len(Sorted)
           n == (l + pageSize - 1) \div pageSize
<1>1. l \in Nat /\ pageSize \in Nat \ {0} /\ page \in Nat \ {0}
  BY SortedIs, SizesAssumption DEF TableTypeOK
<1>2. TotalPages = IF n > 1 THEN n ELSE 1
  BY DEF TotalPages
<1> HIDE DEF l
<1>3. l + pageSize - 1 \in Nat
  BY <1>1
<1>4. /\ n \in Nat /\ n * pageSize <= l + pageSize - 1
      /\ l + pageSize - 1 < n * pageSize + pageSize
  BY <1>1, <1>3
<1> HIDE DEF n
<1>5. (n - 1) * pageSize = n * pageSize - pageSize /\ n * pageSize \in Nat
  BY <1>1, <1>4
<1>6. l <= n * pageSize /\ (n - 1) * pageSize < l
  BY <1>1, <1>4, <1>5
<1>7. n <= 1 => l <= pageSize
  <2> SUFFICES ASSUME n = 0 \/ n = 1 PROVE l <= pageSize
    BY <1>4
  <2>1. n * pageSize = 0 \/ n * pageSize = pageSize
    BY <1>1
  <2> QED
    BY <1>1, <1>6, <2>1
<1>8. /\ TotalPages \in Nat \ {0} /\ l <= TotalPages * pageSize
      /\ TotalPages = 1 \/ (TotalPages - 1) * pageSize < l
  <2>1. CASE n > 1
    BY <1>2, <1>4, <1>6, <2>1
  <2>2. CASE ~(n > 1)
    <3>1. TotalPages = 1 /\ n <= 1 /\ TotalPages * pageSize = pageSize
      BY <1>1, <1>2, <1>4, <2>2
    <3> QED
      BY <1>7, <3>1
  <2> QED
    BY <2>1, <2>2
<1>9. SafePage \in 1..TotalPages
  BY <1>1, <1>8 DEF SafePage
<1> QED
  BY <1>1, <1>8, <1>9 DEF l

\* The page on the screen is a stretch of the result, empty only with it.
LEMMA PagedIs ==
  ASSUME TableTypeOK
  PROVE  /\ Paged \in Seq(Rows) /\ (SafePage - 1) * pageSize \in Nat
         /\ \A i \in DOMAIN Paged :
               /\ i \in Nat \ {0}
               /\ i + (SafePage - 1) * pageSize \in 1..Len(Sorted)
               /\ Paged[i] = Sorted[i + (SafePage - 1) * pageSize]
         /\ Sorted # <<>> => Paged # <<>>
<1> DEFINE l == Len(Sorted)
           from == (SafePage - 1) * pageSize
           upto == IF SafePage * pageSize < l THEN SafePage * pageSize ELSE l
<1>1. l \in Nat /\ Sorted \in Seq(Rows)
  BY SortedIs
<1>2. /\ TotalPages \in Nat \ {0} /\ pageSize \in Nat \ {0}
      /\ l <= TotalPages * pageSize
      /\ TotalPages = 1 \/ (TotalPages - 1) * pageSize < l
      /\ SafePage \in 1..TotalPages
  BY PagesAre
<1>3. \A a, b \in Nat : a <= b => a * pageSize <= b * pageSize /\ a * pageSize \in Nat
  BY <1>2
<1>4. from \in Nat /\ SafePage * pageSize = from + pageSize
  BY <1>2
<1>5. from <= l /\ (l > 0 => from < l)
  <2>1. CASE TotalPages = 1
    <3>1. SafePage = 1 /\ from = 0
      BY <1>2, <2>1
    <3> QED
      BY <1>1, <3>1
  <2>2. CASE (TotalPages - 1) * pageSize < l
    <3>1. from <= (TotalPages - 1) * pageSize /\ (TotalPages - 1) * pageSize \in Nat
      BY <1>2, <1>3
    <3> QED
      BY <1>1, <1>4, <2>2, <3>1
  <2> QED
    BY <1>2, <2>1, <2>2
<1>6. Paged = SubSeq(Sorted, from + 1, upto)
  BY DEF Paged, Slice
<1> HIDE DEF from, l
<1>7. upto \in from..l /\ (l > 0 => from < upto)
  BY <1>1, <1>2, <1>4, <1>5
<1> HIDE DEF upto
<1>8. \A k \in from + 1..upto : k \in 1..l /\ Sorted[k] \in Rows
  <2> SUFFICES ASSUME NEW k \in from + 1..upto PROVE k \in 1..l /\ Sorted[k] \in Rows
    OBVIOUS
  <2>1. k \in 1..l
    BY <1>1, <1>4, <1>7
  <2> QED
    BY <1>1, <2>1, ElementOfSeq DEF l
<1>9. /\ Paged \in Seq(Rows) /\ Len(Paged) = upto - from
      /\ \A i \in 1..(upto - from) : Paged[i] = Sorted[i + from]
  <2>1. from + 1 \in Int /\ upto \in Int
    BY <1>1, <1>4, <1>7
  <2>2. /\ SubSeq(Sorted, from + 1, upto) \in Seq(Rows)
        /\ Len(SubSeq(Sorted, from + 1, upto)) =
              IF from + 1 <= upto THEN upto - (from + 1) + 1 ELSE 0
        /\ \A i \in 1..(upto - (from + 1) + 1) :
              SubSeq(Sorted, from + 1, upto)[i] = Sorted[(from + 1) + i - 1]
    BY <1>8, <2>1, SubSeqProperties
  <2>3. /\ (IF from + 1 <= upto THEN upto - (from + 1) + 1 ELSE 0) = upto - from
        /\ upto - (from + 1) + 1 = upto - from
        /\ \A i \in Nat : (from + 1) + i - 1 = i + from
    BY <1>1, <1>4, <1>7
  <2> HIDE DEF from
  <2> QED
    BY <1>6, <2>2, <2>3
<1>10. DOMAIN Paged = 1..(upto - from) /\ upto - from \in Nat
  <2>1. DOMAIN Paged = 1..Len(Paged)
    BY <1>9, LenProperties
  <2> QED
    BY <1>4, <1>7, <1>9, <2>1
<1>11. \A i \in DOMAIN Paged :
          i \in Nat \ {0} /\ i + from \in 1..l /\ Paged[i] = Sorted[i + from]
  BY <1>1, <1>4, <1>7, <1>9, <1>10
<1>12. Sorted # <<>> => Paged # <<>>
  <2> SUFFICES ASSUME Sorted # <<>> PROVE Paged # <<>>
    OBVIOUS
  <2>1. l > 0
    BY <1>1, EmptySeq DEF l
  <2>2. Len(Paged) # 0
    BY <1>4, <1>7, <1>9, <2>1
  <2> QED
    BY <2>2
<1> QED
  BY <1>4, <1>9, <1>11, <1>12 DEF from, l

\* The ids on the screen.
LEMMA IdsAre ==
  ASSUME TableTypeOK, RowsOnce, NEW i \in DOMAIN Paged
  PROVE  IdAt(i) \in Ids
<1>1. /\ i \in Nat \ {0} /\ (SafePage - 1) * pageSize \in Nat
      /\ i + (SafePage - 1) * pageSize \in 1..Len(Sorted)
      /\ Paged[i] \in Rows
  BY PagedIs, Listed
<1>2. Len(Sorted) <= Len(data) /\ Len(data) \in Nat /\ Len(Sorted) \in Nat
  BY SortedIs
<1>3. Len(data) <= Cardinality(Rows) /\ Cardinality(Rows) \in Nat
  <2>1. data \in Injection(1..Len(data), Rows)
    <3>1. data \in [1..Len(data) -> Rows]
      BY DEF TableTypeOK
    <3> QED
      BY <3>1 DEF RowsOnce, Injection
  <2>2. Cardinality(1..Len(data)) <= Cardinality(Rows)
    <3>1. IsFiniteSet(Rows)
      BY RowsAssumption
    <3> QED
      BY <2>1, <3>1, FS_Injection, Zenon
  <2>3. Cardinality(1..Len(data)) = Len(data)
    BY <1>2, UpTo
  <2>5. Cardinality(Rows) \in Nat
    BY RowsAssumption, FS_CardinalityType
  <2> QED
    BY <2>2, <2>3, <2>5
<1>4. i - 1 + (SafePage - 1) * pageSize \in 0..Cardinality(Rows) - 1
  <2> DEFINE from == (SafePage - 1) * pageSize
  <2>1. from \in Nat /\ i + from <= Len(Sorted)
    BY <1>1, <1>2
  <2> HIDE DEF from
  <2>2. i - 1 + from \in 0..Cardinality(Rows) - 1
    BY <1>1, <1>2, <1>3, <2>1
  <2> QED
    BY <2>2 DEF from
<1> QED
  BY <1>1, <1>4 DEF IdAt, RowId, Ids

\* The user's steps in the table keep its types and its rows.
LEMMA TableStepType ==
  ASSUME TableTypeOK, RowsOnce, TableStep \/ SelectionStep
  PROVE  /\ TableTypeOK' /\ UNCHANGED <<data, byId>>
         /\ TableStep => selected' = selected
<1> USE DEF TableTypeOK
<1>a. TotalPages \in Nat \ {0}
  BY PagesAre
<1>1. ASSUME NEW q \in Terms \union {NoTerm}, Search(q)
      PROVE  TableTypeOK' /\ UNCHANGED <<data, byId, selected>>
  BY <1>1 DEF Search
<1>2. ASSUME NEW c \in Columns, HandleSort(c)
      PROVE  TableTypeOK' /\ UNCHANGED <<data, byId, selected>>
  BY <1>2, TermsAssumption DEF HandleSort
<1>3. ASSUME NEW c \in Columns, ToggleColumn(c)
      PROVE  TableTypeOK' /\ UNCHANGED <<data, byId, selected>>
  BY <1>3 DEF ToggleColumn
<1>4. CASE PreviousPage
  BY <1>4 DEF PreviousPage
<1>5. CASE NextPage
  BY <1>5, <1>a DEF NextPage
<1>6. ASSUME NEW n \in PageSizes, SetPageSize(n)
      PROVE  TableTypeOK' /\ UNCHANGED <<data, byId, selected>>
  BY <1>6 DEF SetPageSize
<1>b. PagedIds \subseteq Ids
  BY IdsAre DEF PagedIds
<1>7. ASSUME ToggleAll PROVE TableTypeOK' /\ UNCHANGED <<data, byId>>
  <2>1. selected' \subseteq Ids
    BY <1>7, <1>b DEF ToggleAll
  <2> QED
    BY <1>7, <2>1 DEF ToggleAll
<1>8. ASSUME NEW i \in DOMAIN Paged, ToggleRow(i) PROVE TableTypeOK' /\ UNCHANGED <<data, byId>>
  <2>1. IdAt(i) \in Ids
    BY IdsAre
  <2>2. selected' \subseteq Ids
    BY <1>8, <2>1 DEF ToggleRow
  <2> QED
    BY <1>8, <2>2 DEF ToggleRow
<1>9. ASSUME TableStep PROVE TableTypeOK' /\ UNCHANGED <<data, byId, selected>>
  <2>1. PreviousPage => UNCHANGED <<data, byId, selected>>
    BY DEF PreviousPage
  <2>2. NextPage => UNCHANGED <<data, byId, selected>>
    BY DEF NextPage
  <2> QED
    BY <1>1, <1>2, <1>3, <1>4, <1>5, <1>6, <1>9, <2>1, <2>2 DEF TableStep
<1>10. ASSUME SelectionStep PROVE TableTypeOK' /\ UNCHANGED <<data, byId>>
  BY <1>7, <1>8, <1>10 DEF SelectionStep
<1> QED
  BY <1>9, <1>10

-----------------------------------------------------------------------------

\* When the first page is opened RecordsInv holds.
LEMMA InitRecordsInv == Init => RecordsInv
<1> SUFFICES ASSUME Init PROVE RecordsInv
  OBVIOUS
<1>1. /\ loading = TRUE /\ flight = <<NewFetch("page")>> /\ version = 0 /\ shown = 0
      /\ stale = FALSE
  BY DEF Init, FetchInit
<1>2. /\ NewFetch("page") \in [tag : {"page", "restock"}, answered : BOOLEAN,
                               at : 0..version, late : BOOLEAN]
      /\ ~NewFetch("page").answered /\ NewFetch("page").tag = "page"
  BY <1>1 DEF NewFetch
<1>3. FetchTypeOK({"page", "restock"}) /\ flight # <<>>
  <2>1. loading \in BOOLEAN /\ stale \in BOOLEAN
    BY <1>1
  <2>2. version \in 0..MaxVersion /\ shown \in 0..version /\ flight # <<>>
    BY <1>1, BoundsAssumption
  <2>3. flight \in Seq([tag : {"page", "restock"}, answered : BOOLEAN, at : 0..version,
                        late : BOOLEAN])
    BY <1>1, <1>2
  <2> QED
    BY <2>1, <2>2, <2>3 DEF FetchTypeOK
<1>4. \A f \in DOMAIN flight : flight[f].tag = "page" /\ ~flight[f].answered
  BY <1>1, <1>2
<1>5. TableTypeOK
  BY SizesAssumption DEF Init, TableInit, TableTypeOK
<1>6. TypeOK
  <2>1. updating = (post # "idle" \/ \E f \in DOMAIN flight : flight[f].tag = "restock")
    BY <1>4 DEF Init
  <2>2. kind \in Kinds /\ kind # "other" /\ byId /\ selected = {} /\ ~error
        /\ error \in BOOLEAN
    BY DEF Init, TableInit, Kinds
  <2>3. selectedItem = None /\ post = "idle" /\ announced \in 0..version
    BY <1>1 DEF Init
  <2> QED
    BY <1>3, <1>5, <2>1, <2>2, <2>3 DEF TypeOK
<1>7. RowsOnce /\ RestocksSound
  BY <1>4 DEF Init, Kinds, RowsOnce, RestocksSound, IsInjective
<1>8. RestockComing
  BY <1>1, <1>4 DEF Init, RestockComing, Covered, Brings
<1> QED
  BY <1>6, <1>7, <1>8 DEF RecordsInv

\* Whatever is under way, what no change has been announced of is shown.
LEMMA NothingMissed ==
  ASSUME NEW Tags, FetchTypeOK(Tags)'
  PROVE  Covered(flight', shown', stale', 0)
<1>1. /\ flight' \in Seq([tag : Tags, answered : BOOLEAN, at : 0..version', late : BOOLEAN])
      /\ version' \in Nat /\ shown' >= 0
  BY BoundsAssumption DEF FetchTypeOK
<1>2. \A f \in DOMAIN flight' : flight'[f].at \in 0..version'
  <2>1. \A f \in DOMAIN flight' :
          flight'[f] \in [tag : Tags, answered : BOOLEAN, at : 0..version', late : BOOLEAN]
    BY <1>1, Listed
  <2> QED
    BY <2>1
<1>3. \A f \in DOMAIN flight' : Brings(flight'[f], 0)
  BY <1>1, <1>2 DEF Brings
<1> QED
  BY <1>1, <1>3 DEF Covered

\* A fetch that ends leaves at most one restock behind, and the flag with it.
LEMMA RestockLeft ==
  ASSUME RecordsInv, NEW f \in DOMAIN flight, EndRestock(f),
         DOMAIN flight' = 1..(Len(flight) - 1),
         \A g \in DOMAIN flight' : /\ PlaceBefore(f, g) \in DOMAIN flight
                                   /\ flight'[g].tag = flight[PlaceBefore(f, g)].tag
  PROVE  /\ updating' = (post # "idle" \/ \E g \in DOMAIN flight' : flight'[g].tag = "restock")
         /\ \A g, h \in DOMAIN flight' :
               flight'[g].tag = "restock" /\ flight'[h].tag = "restock" => g = h /\ post = "idle"
<1> USE DEF RecordsInv
<1>1. /\ updating' = (updating /\ flight[f].tag # "restock")
      /\ updating = (post # "idle" \/ \E g \in DOMAIN flight : flight[g].tag = "restock")
  BY DEF EndRestock, TypeOK
<1>2. \A g, h \in DOMAIN flight :
         flight[g].tag = "restock" /\ flight[h].tag = "restock" => g = h /\ post = "idle"
  BY DEF RestocksSound
<1>3. DOMAIN flight = 1..Len(flight) /\ Len(flight) \in Nat
  BY DEF TypeOK, FetchTypeOK
<1>4. \A g, h \in DOMAIN flight' :
         PlaceBefore(f, g) # f /\ (PlaceBefore(f, g) = PlaceBefore(f, h) => g = h)
  BY <1>3 DEF PlaceBefore
<1>5. \A h \in DOMAIN flight : h # f => \E g \in DOMAIN flight' : PlaceBefore(f, g) = h
  <2> SUFFICES ASSUME NEW h \in DOMAIN flight, h # f
               PROVE  \E g \in DOMAIN flight' : PlaceBefore(f, g) = h
    OBVIOUS
  <2>1. CASE h < f
    <3>1. h \in DOMAIN flight' /\ PlaceBefore(f, h) = h
      BY <1>3, <2>1 DEF PlaceBefore
    <3> QED
      BY <3>1
  <2>2. CASE h > f
    <3>1. h - 1 \in DOMAIN flight' /\ PlaceBefore(f, h - 1) = h
      BY <1>3, <2>2 DEF PlaceBefore
    <3> QED
      BY <3>1
  <2> QED
    BY <1>3, <2>1, <2>2
<1>6. \A g, h \in DOMAIN flight' :
         flight'[g].tag = "restock" /\ flight'[h].tag = "restock" => g = h /\ post = "idle"
  BY <1>2, <1>4
<1>7. CASE flight[f].tag = "restock"
  <2>1. post = "idle" /\ \A g \in DOMAIN flight' : flight'[g].tag # "restock"
    BY <1>2, <1>4, <1>7
  <2>2. ~updating'
    BY <1>1, <1>7
  <2> QED
    BY <1>1, <1>6, <1>7, <2>1, <2>2
<1>8. CASE flight[f].tag # "restock"
  <2>1. (\E g \in DOMAIN flight : flight[g].tag = "restock")
          <=> \E g \in DOMAIN flight' : flight'[g].tag = "restock"
    BY <1>5, <1>8
  <2> QED
    BY <1>1, <1>6, <1>8, <2>1
<1> QED
  BY <1>7, <1>8

\* A step that leaves the fetches alone.
LEMMA PageStep ==
  ASSUME RecordsInv, TableTypeOK', RowsOnce', UNCHANGED <<pageVars, announced, byId>>,
         version' \in version..MaxVersion, kind # "other" => selected' = selected,
         selectedItem' \in Rows \union {None}, post' \in {"idle", "sent", "done", "failed"},
         kind # "inventory" => selectedItem' = None /\ post' = "idle",
         updating' = (post' # "idle" \/ \E f \in DOMAIN flight : flight[f].tag = "restock"),
         \A f \in DOMAIN flight : flight[f].tag = "restock" => post' = "idle"
  PROVE  RecordsInv'
<1> USE DEF RecordsInv
<1>1. UNCHANGED <<kind, error, loading, flight, shown, stale>>
  BY DEF pageVars, fetchVars
<1>2. FetchTypeOK({"page", "restock"})'
  BY <1>1, Changed DEF TypeOK
<1>3. announced' \in 0..version'
  BY BoundsAssumption DEF TypeOK, FetchTypeOK
<1>4. TypeOK'
  BY <1>1, <1>2, <1>3 DEF TypeOK
<1>5. RestocksSound'
  BY <1>1 DEF RestocksSound
<1>6. RestockComing'
  BY <1>1 DEF RestockComing
<1> QED
  BY <1>4, <1>5, <1>6

\* A step of the fetches.
LEMMA FetchStep ==
  ASSUME RecordsInv, kind # "other", TableTypeOK', RowsOnce', FetchTypeOK({"page", "restock"})',
         selected' = selected \/ selected' = {}, UNCHANGED <<byId, kind, version>>,
         flight' = <<>> => ~loading', error' \in BOOLEAN, kind = "users" => ~error',
         selectedItem' \in Rows \union {None}, post' \in {"idle", post},
         selectedItem' # None => selectedItem' = selectedItem,
         updating' = (post' # "idle" \/ \E f \in DOMAIN flight' : flight'[f].tag = "restock"),
         announced' \in 0..version, kind # "inventory" => announced' = announced,
         \A f, g \in DOMAIN flight' :
            flight'[f].tag = "restock" /\ flight'[g].tag = "restock" => f = g /\ post' = "idle",
         ~error' => Covered(flight', shown', stale', announced')
  PROVE  RecordsInv'
<1> USE DEF RecordsInv
<1>1. TypeOK'
  BY DEF TypeOK
<1>2. RestocksSound'
  BY DEF RestocksSound
<1>3. RestockComing'
  BY DEF RestockComing
<1> QED
  BY <1>1, <1>2, <1>3

-----------------------------------------------------------------------------

\* Every step of the pages preserves RecordsInv.
LEMMA StepRecordsInv == RecordsInv /\ [Next]_vars => RecordsInv'
<1> SUFFICES ASSUME RecordsInv, [Next]_vars PROVE RecordsInv'
  OBVIOUS
<1> DEFINE Tags == {"page", "restock"}
<1>a. /\ TypeOK /\ RowsOnce /\ RestocksSound /\ RestockComing
      /\ TableTypeOK /\ FetchTypeOK(Tags) /\ version \in Nat /\ version \in 0..MaxVersion
  BY BoundsAssumption DEF RecordsInv, TypeOK, FetchTypeOK
<1>b. /\ kind \in Kinds /\ (kind # "other" => byId /\ selected = {}) /\ error \in BOOLEAN
      /\ (kind \in {"users", "other"} => ~error) /\ (flight = <<>> => ~loading)
      /\ selectedItem \in Rows \union {None} /\ post \in {"idle", "sent", "done", "failed"}
      /\ updating = (post # "idle" \/ \E f \in DOMAIN flight : flight[f].tag = "restock")
      /\ announced \in 0..version
  BY <1>a DEF TypeOK
<1>c. /\ (kind # "inventory" => selectedItem = None /\ post = "idle" /\ announced = 0)
      /\ (kind = "other" => flight = <<>>)
      /\ \A f, g \in DOMAIN flight :
            flight[f].tag = "restock" /\ flight[g].tag = "restock" => f = g /\ post = "idle"
  BY <1>a DEF RestocksSound
<1>d. version \in version..MaxVersion
  BY <1>a, BoundsAssumption
<1>e. UNCHANGED <<data, byId, table>> => TableTypeOK' /\ RowsOnce' /\ selected' = selected
  BY <1>a DEF table, TableTypeOK, RowsOnce
<1>f. ASSUME NEW f \in DOMAIN flight PROVE kind # "other"
  BY <1>c
<1>1. ASSUME NEW k \in Kinds, OpenPage(k) PROVE RecordsInv'
  <2>1. /\ kind' = k /\ error' = FALSE /\ FreshTable /\ selectedItem' = None
        /\ post' = "idle" /\ updating' = FALSE /\ announced' = 0 /\ version' = version
    BY <1>1 DEF OpenPage
  <2>2. data' \in Seq(Rows) /\ IsInjective(data') /\ byId' \in BOOLEAN /\ (k # "other" => byId')
    <3>1. <<>> \in Seq(Rows) /\ IsInjective(<<>>)
      BY DEF IsInjective
    <3> QED
      BY <1>1, <3>1, ListsAssumption DEF OpenPage
  <2>3. /\ FetchTypeOK(Tags)' /\ (flight' = <<>> => ~loading')
        /\ Covered(flight', shown', stale', 0)
        /\ (k = "other" => flight' = <<>>)
        /\ \A f \in DOMAIN flight' : flight'[f].tag = "page"
    <3>1. CASE k = "other"
      <4>1. OpenFetch(<<>>) /\ flight' = <<>>
        BY <1>1, <3>1 DEF OpenPage, OpenFetch
      <4> QED
        BY <1>a, <2>1, <4>1, Opened
    <3>2. CASE k # "other"
      <4>1. OpenFetch(<<NewFetch("page")>>) /\ flight' = <<NewFetch("page")>>
        BY <1>1, <3>2 DEF OpenPage, OpenFetch
      <4>2. /\ FetchTypeOK(Tags)' /\ (flight' = <<>> => ~loading')
            /\ Covered(flight', shown', stale', 0)
        BY <1>a, <2>1, <4>1, Opened
      <4>3. \A f \in DOMAIN flight' : flight'[f].tag = "page"
        BY <4>1 DEF NewFetch
      <4> QED
        BY <3>2, <4>2, <4>3
    <3> QED
      BY <3>1, <3>2
  <2>4. TableTypeOK' /\ selected' = {}
    BY <2>1, <2>2, SizesAssumption DEF FreshTable, TableTypeOK
  <2>5. updating' = (post' # "idle" \/ \E f \in DOMAIN flight' : flight'[f].tag = "restock")
    BY <2>1, <2>3
  <2>6. announced' \in 0..version' /\ version' \in Nat
    BY <1>a, <2>1
  <2>7. TypeOK'
    BY <2>1, <2>2, <2>3, <2>4, <2>5, <2>6 DEF TypeOK
  <2>8. RowsOnce' /\ RestocksSound' /\ RestockComing'
    BY <2>1, <2>2, <2>3 DEF RowsOnce, RestocksSound, RestockComing
  <2> QED
    BY <2>7, <2>8 DEF RecordsInv
<1>2. ASSUME NEW rows \in Lists, NewData(rows) PROVE RecordsInv'
  <2>1. /\ kind = "other" /\ data' = rows
        /\ UNCHANGED <<byId, table, pageVars, restock, version, announced>>
    BY <1>2 DEF NewData
  <2>2. TableTypeOK' /\ RowsOnce'
    BY <1>a, <2>1, ListsAssumption DEF table, TableTypeOK, RowsOnce
  <2> QED
    BY <1>b, <1>c, <1>d, <2>1, <2>2, PageStep DEF restock
<1>3. CASE Refresh
  <2>1. /\ kind \in {"orders", "inventory"} /\ StartFetch("page") /\ error' = FALSE
        /\ UNCHANGED <<data, byId, table, kind, shown, stale, restock, version, announced>>
    BY <1>3 DEF Refresh, FetchRecords
  <2>2. /\ FetchTypeOK(Tags)' /\ flight' # <<>>
        /\ DOMAIN flight' = 1..(Len(flight) + 1)
        /\ flight'[Len(flight) + 1].tag = "page"
        /\ \A g \in DOMAIN flight : flight'[g] = flight[g]
        /\ Covered(flight', shown', stale', announced)
    BY <1>a, <2>1, Started
  <2>3. DOMAIN flight = 1..Len(flight) /\ Len(flight) \in Nat
    BY <1>a DEF FetchTypeOK
  <2>4. \A g \in DOMAIN flight' : g = Len(flight) + 1 \/ g \in DOMAIN flight
    BY <2>2, <2>3
  <2>5. DOMAIN flight \subseteq DOMAIN flight'
    BY <2>2, <2>3
  <2>6. (\E f \in DOMAIN flight : flight[f].tag = "restock")
          <=> \E f \in DOMAIN flight' : flight'[f].tag = "restock"
    BY <2>2, <2>4, <2>5
  <2>7. \A f, g \in DOMAIN flight' :
           flight'[f].tag = "restock" /\ flight'[g].tag = "restock" => f = g /\ post = "idle"
    BY <1>c, <2>2, <2>4
  <2> QED
    BY <1>b, <1>e, <2>1, <2>2, <2>6, <2>7, FetchStep DEF restock
<1>4. ASSUME UseTable PROVE RecordsInv'
  <2>1. TableStep \/ (kind = "other" /\ SelectionStep)
    BY <1>4 DEF UseTable
  <2>2. /\ TableTypeOK' /\ UNCHANGED <<data, byId>>
        /\ (TableStep => selected' = selected)
    BY <1>a, <2>1, TableStepType
  <2>3. RowsOnce'
    BY <1>a, <2>2 DEF RowsOnce
  <2>4. UNCHANGED <<pageVars, restock, version, announced>>
    BY <1>4 DEF UseTable
  <2> QED
    BY <1>b, <1>c, <1>d, <2>1, <2>2, <2>3, <2>4, PageStep DEF restock
<1>5. CASE ChangeElsewhere
  <2>1. version' \in version..MaxVersion
    BY <1>5, <1>a, BoundsAssumption DEF ChangeElsewhere
  <2> QED
    BY <1>5, <1>b, <1>c, <1>e, <2>1, PageStep DEF ChangeElsewhere, restock
<1>6. ASSUME NEW f \in DOMAIN flight, FetchAnswered(f) PROVE RecordsInv'
  <2>1. /\ ServerAnswers(f)
        /\ UNCHANGED <<data, byId, table, kind, error, loading, shown, stale,
                       restock, version, announced>>
    BY <1>6 DEF FetchAnswered
  <2>2. /\ FetchTypeOK(Tags)' /\ DOMAIN flight' = DOMAIN flight
        /\ \A g \in DOMAIN flight : flight'[g].tag = flight[g].tag
        /\ Covered(flight, shown, stale, announced) => Covered(flight', shown', stale', announced)
    BY <1>a, <1>b, <2>1, Answered
  <2>3. flight' # <<>>
    BY <2>2
  <2>4. updating' = (post' # "idle" \/ \E g \in DOMAIN flight' : flight'[g].tag = "restock")
    BY <1>b, <2>1, <2>2 DEF restock
  <2> QED
    BY <1>a, <1>b, <1>c, <1>e, <1>f, <2>1, <2>2, <2>3, <2>4, FetchStep DEF RestockComing, restock
<1>7. ASSUME NEW f \in DOMAIN flight, NEW rows \in Lists, FetchDone(f, rows) PROVE RecordsInv'
  <2>1. /\ TakeAnswer(f) /\ data' = rows /\ EndRestock(f)
        /\ UNCHANGED <<byId, table, kind, error, selectedItem, post, version, announced>>
    BY <1>7 DEF FetchDone
  <2>2. /\ FetchTypeOK(Tags)' /\ ~loading' /\ DOMAIN flight' = 1..(Len(flight) - 1)
        /\ \A g \in DOMAIN flight' : /\ PlaceBefore(f, g) \in DOMAIN flight
                                     /\ flight'[g].tag = flight[PlaceBefore(f, g)].tag
        /\ Covered(flight, shown, stale, announced) => Covered(flight', shown', stale', announced)
    BY <1>a, <2>1, Taken
  <2>3. /\ updating' = (post # "idle" \/ \E g \in DOMAIN flight' : flight'[g].tag = "restock")
        /\ \A g, h \in DOMAIN flight' :
              flight'[g].tag = "restock" /\ flight'[h].tag = "restock" => g = h /\ post = "idle"
    BY <2>1, <2>2, RestockLeft
  <2>4. TableTypeOK' /\ RowsOnce' /\ selected' = selected
    BY <1>a, <2>1, ListsAssumption DEF table, TableTypeOK, RowsOnce
  <2> QED
    BY <1>a, <1>b, <1>f, <2>1, <2>2, <2>3, <2>4, FetchStep DEF RestockComing
<1>8. ASSUME NEW f \in DOMAIN flight, FetchFails(f) PROVE RecordsInv'
  <2>1. /\ LoseAnswer(f) /\ EndRestock(f)
        /\ UNCHANGED <<byId, kind, selectedItem, post, version, announced>>
    BY <1>8 DEF FetchFails
  <2>2. /\ FetchTypeOK(Tags)' /\ ~loading' /\ DOMAIN flight' = 1..(Len(flight) - 1)
        /\ \A g \in DOMAIN flight' : /\ PlaceBefore(f, g) \in DOMAIN flight
                                     /\ flight'[g].tag = flight[PlaceBefore(f, g)].tag
    BY <1>a, <2>1, Lost
  <2>3. /\ updating' = (post # "idle" \/ \E g \in DOMAIN flight' : flight'[g].tag = "restock")
        /\ \A g, h \in DOMAIN flight' :
              flight'[g].tag = "restock" /\ flight'[h].tag = "restock" => g = h /\ post = "idle"
    BY <2>1, <2>2, RestockLeft
  <2>4. Covered(flight', shown', stale', 0)
    BY <2>2, NothingMissed
  <2>5. CASE kind = "users"
    <3>1. data' = Fallback /\ UNCHANGED <<error, table>>
      BY <1>8, <2>5 DEF FetchFails
    <3>2. TableTypeOK' /\ RowsOnce' /\ selected' = selected
      BY <1>a, <2>1, <3>1, ListsAssumption DEF table, TableTypeOK, RowsOnce
    <3> QED
      BY <1>b, <1>c, <1>f, <2>1, <2>2, <2>3, <2>4, <2>5, <3>1, <3>2, FetchStep
  <2>6. CASE kind # "users"
    <3>1. error' = TRUE /\ FreshTable /\ data' = data
      BY <1>8, <2>6 DEF FetchFails
    <3>2. TableTypeOK' /\ RowsOnce' /\ selected' = {}
      BY <1>a, <2>1, <3>1, SizesAssumption DEF FreshTable, TableTypeOK, RowsOnce
    <3> QED
      BY <1>b, <1>c, <1>f, <2>1, <2>2, <2>3, <2>6, <3>1, <3>2, FetchStep
  <2> QED
    BY <2>5, <2>6
<1>9. ASSUME NEW i \in DOMAIN Paged, SelectItem(i) PROVE RecordsInv'
  <2>1. Paged[i] \in Rows
    BY <1>a, PagedIs, Listed
  <2>2. /\ kind = "inventory" /\ selectedItem' = Paged[i]
        /\ UNCHANGED <<data, byId, table, pageVars, post, updating, version, announced>>
    BY <1>9 DEF SelectItem
  <2> QED
    BY <1>b, <1>c, <1>d, <1>e, <2>1, <2>2, PageStep
<1>10. CASE CloseDialog
  BY <1>10, <1>b, <1>c, <1>d, <1>e, PageStep DEF CloseDialog
<1>11. CASE Confirm
  <2>1. /\ kind = "inventory" /\ post' = "sent" /\ updating' = TRUE
        /\ \A f \in DOMAIN flight : flight[f].tag # "restock"
        /\ UNCHANGED <<data, byId, table, pageVars, selectedItem, version, announced>>
    BY <1>11, <1>b, <1>c DEF Confirm
  <2> QED
    BY <1>b, <1>d, <1>e, <2>1, PageStep
<1>12. CASE RestockAnswered
  <2>1. /\ post = "sent" /\ post' \in {"done", "failed"} /\ version' \in version..MaxVersion
        /\ UNCHANGED <<data, byId, table, pageVars, selectedItem, updating, announced>>
    BY <1>12, <1>a, <1>d, BoundsAssumption DEF RestockAnswered
  <2>2. updating' = (post' # "idle" \/ \E f \in DOMAIN flight : flight[f].tag = "restock")
    BY <1>b, <2>1
  <2>3. kind = "inventory" /\ \A f \in DOMAIN flight : flight[f].tag # "restock"
    BY <1>c, <2>1
  <2> QED
    BY <1>b, <1>e, <2>1, <2>2, <2>3, PageStep
<1>13. CASE RestockDone
  <2>1. /\ post = "done" /\ post' = "idle" /\ selectedItem' = None /\ announced' = version
        /\ StartFetch("restock") /\ error' = FALSE
        /\ UNCHANGED <<data, byId, table, kind, updating, version, shown, stale>>
    BY <1>13 DEF RestockDone, FetchRecords
  <2>2. /\ FetchTypeOK(Tags)' /\ flight' # <<>>
        /\ DOMAIN flight' = 1..(Len(flight) + 1)
        /\ flight'[Len(flight) + 1].tag = "restock"
        /\ \A g \in DOMAIN flight : flight'[g] = flight[g]
        /\ Covered(flight', shown', stale', announced')
    BY <1>a, <2>1, Started
  <2>3. DOMAIN flight = 1..Len(flight) /\ Len(flight) \in Nat
    BY <1>a DEF FetchTypeOK
  <2>4. \A g \in DOMAIN flight' : g = Len(flight) + 1 \/ g \in DOMAIN flight
    BY <2>2, <2>3
  <2>5. \A g \in DOMAIN flight : flight[g].tag # "restock"
    BY <1>c, <2>1
  <2>6. updating' = (post' # "idle" \/ \E f \in DOMAIN flight' : flight'[f].tag = "restock")
    <3>1. Len(flight) + 1 \in DOMAIN flight'
      BY <2>2, <2>3
    <3> QED
      BY <1>b, <2>1, <2>2, <3>1
  <2>7. \A f, g \in DOMAIN flight' :
           flight'[f].tag = "restock" /\ flight'[g].tag = "restock" => f = g /\ post' = "idle"
    BY <2>1, <2>2, <2>4, <2>5
  <2>8. kind = "inventory" /\ announced' \in 0..version
    BY <1>a, <1>c, <2>1
  <2> QED
    BY <1>b, <1>e, <2>1, <2>2, <2>6, <2>7, <2>8, FetchStep
<1>14. CASE RestockFails
  <2>1. /\ post = "failed" /\ post' = "idle" /\ updating' = FALSE
        /\ UNCHANGED <<data, byId, table, pageVars, selectedItem, version, announced>>
        /\ \A f \in DOMAIN flight : flight[f].tag # "restock"
    BY <1>14, <1>c DEF RestockFails
  <2> QED
    BY <1>b, <1>c, <1>d, <1>e, <2>1, PageStep
<1>15. CASE UNCHANGED vars
  BY <1>15, <1>b, <1>c, <1>d, <1>e, PageStep DEF vars, restock
<1>16. ASSUME Next PROVE RecordsInv'
  BY <1>16, <1>1, <1>2, <1>3, <1>4, <1>5, <1>6, <1>7, <1>8, <1>9, <1>10, <1>11, <1>12,
     <1>13, <1>14
  DEF Next, FetchEnds, RestockEnds
<1> QED
  BY <1>15, <1>16

\* The inductive invariant of the record pages holds throughout.
LEMMA RecordsInvariant == Spec => []RecordsInv
<1>1. Init => RecordsInv
  BY InitRecordsInv
<1>2. RecordsInv /\ [Next]_vars => RecordsInv'
  BY StepRecordsInv
<1> QED
  BY <1>1, <1>2, PTL DEF Spec

-----------------------------------------------------------------------------

\* The pages and their table keep their types: no row is selected where no bulk
\* action is, nothing loads without a fetch, and the dialog's flag is up exactly
\* while a restock or its fetch is under way (Inventory, handleRestock).
THEOREM RecordsTypeCorrect == Spec => []TypeOK
<1>1. RecordsInv => TypeOK
  BY DEF RecordsInv
<1> QED
  BY <1>1, RecordsInvariant, PTL

\* The pages hold every row of the result once, in its order, and the page on
\* the screen is not blank while there are rows (DataTable, safePage).
THEOREM PagesAreTheResult == Spec => []PagesCoverResult
<1>1. RecordsInv => PagesCoverResult
  <2> SUFFICES ASSUME TableTypeOK PROVE PagesCoverResult
    BY DEF RecordsInv, TypeOK
  <2> DEFINE pages == [n \in 1..TotalPages |-> Slice(n)]
  <2>1. pages = [i \in 1..TotalPages |->
                    SubSeq(Sorted, (i - 1) * pageSize + 1,
                           IF i * pageSize < Len(Sorted) THEN i * pageSize ELSE Len(Sorted))]
    BY DEF Slice
  <2>2. /\ Sorted \in Seq(Rows) /\ TotalPages \in Nat \ {0} /\ pageSize \in Nat \ {0}
        /\ Len(Sorted) <= TotalPages * pageSize
        /\ TotalPages = 1 \/ (TotalPages - 1) * pageSize < Len(Sorted)
    BY SortedIs, PagesAre
  <2>3. FlattenSeq(pages) = Sorted
    <3> HIDE DEF pages
    <3> QED
      BY <2>1, <2>2, PagesFlatten
  <2>4. Sorted # <<>> => Paged # <<>>
    BY PagedIs
  <2> QED
    BY <2>3, <2>4 DEF PagesCoverResult
<1> QED
  BY <1>1, RecordsInvariant, PTL

\* A bulk action is given the rows of the page whose boxes are ticked, where
\* ids are the rows' own or the result is all of the data in its order
\* (DataTable, getRowId and bulkActions).
THEOREM TickedRowsAreGiven == Spec => []BulkActsOnTicked
<1>1. RecordsInv => BulkActsOnTicked
  <2> SUFFICES ASSUME TableTypeOK, RowsOnce, byId \/ Sorted = data,
                      NEW i \in DOMAIN Paged
               PROVE  IdAt(i) \in selected <=> Paged[i] \in BulkRows
    BY DEF RecordsInv, TypeOK, BulkActsOnTicked
  <2> DEFINE from == (SafePage - 1) * pageSize
  <2>1. /\ from \in Nat /\ i \in Nat /\ i + from \in 1..Len(Sorted)
        /\ Paged[i] = Sorted[i + from] /\ Paged[i] \in Rows
    BY PagedIs, Listed
  <2>2. IdAt(i) = IF byId THEN Paged[i] ELSE i - 1 + from
    BY DEF IdAt, RowId
  <2>3. Paged[i] \in BulkRows <=>
          \E j \in DOMAIN data : /\ data[j] = Paged[i]
                                 /\ (IF byId THEN data[j] ELSE j - 1) \in selected
    BY DEF BulkRows, RowId
  <2> HIDE DEF from
  <2>4. \E j \in DOMAIN data : data[j] = Paged[i]
    BY <2>1, SortedHolds
  <2>5. CASE byId
    BY <2>2, <2>3, <2>4, <2>5
  <2>6. CASE ~byId
    <3>1. Sorted = data /\ i + from \in DOMAIN data /\ data[i + from] = Paged[i]
      BY <2>1, <2>6 DEF TableTypeOK
    <3>2. (i + from) - 1 = i - 1 + from
      BY <2>1
    <3>3. \A j \in DOMAIN data : data[j] = Paged[i] => j = i + from
      BY <3>1 DEF RowsOnce, IsInjective
    <3> QED
      BY <2>2, <2>3, <2>6, <3>1, <3>2, <3>3
  <2> QED
    BY <2>5, <2>6
<1> QED
  BY <1>1, RecordsInvariant, PTL

\* An announced restock is in the table once no fetch is under way, unless an
\* error or an overtaken answer stands there (Inventory, handleRestock).
THEOREM RestockIsShown == Spec => []AnnouncedIsShown
<1>1. RecordsInv => AnnouncedIsShown
  <2> SUFFICES ASSUME RecordsInv, flight = <<>>, ~error, ~stale PROVE shown >= announced
    BY DEF AnnouncedIsShown
  <2>1. Covered(flight, shown, stale, announced) /\ DOMAIN flight = {}
    BY DEF RecordsInv, RestockComing
  <2> QED
    BY <2>1 DEF Covered
<1> QED
  BY <1>1, RecordsInvariant, PTL

=============================================================================
