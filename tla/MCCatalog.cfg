\* Two overlapping fetches, imports, terms of up to two keys.
SPECIFICATION Spec
CONSTANTS
    p1 = p1
    p2 = p2
    k1 = k1
    ca = ca
    cb = cb
    Ids = {p1, p2}
    ListAt <- MCListAt
    PageMax = 2
    Categories <- MCCategories
    Price <- MCPrice
    Limits = {1, 2}
    TopLimit = 2
    Orders = {"default", "price-desc"}
    Rank <- MCRank
    Keys = {k1}
    MaxTyped = 2
    Matches <- MCMatches
    Images = 2
    All = all
    None = none
    MaxFetches = 2
    MaxVersion = 1
INVARIANTS
    TypeOK
    SearchAsTyped
    ImportShown
CHECK_DEADLOCK FALSE
