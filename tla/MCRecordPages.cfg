\* Two fetches that overlap, one restock and changes by others.
SPECIFICATION Spec
CONSTANTS
    r1 = r1
    r2 = r2
    q1 = q1
    c1 = c1
    Rows = {r1, r2}
    Columns = {c1}
    Terms = {q1}
    NoTerm = noterm
    NoColumn = nocolumn
    Found <- MCFound
    Rank <- MCRank
    PageSizes = {1, 2}
    DefaultSize = 1
    Lists <- MCLists
    Fallback <- MCFallback
    None = none
    MaxFetches = 2
    MaxVersion = 2
INVARIANTS
    TypeOK
    PagesCoverResult
    BulkActsOnTicked
    AnnouncedIsShown
CHECK_DEADLOCK FALSE
