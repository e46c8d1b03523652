\* Two submissions, a few changes of the cart, lost answers and reloads.
\* Two tenants, two upgrades and two fetches that overlap; three commands,
\* queries of up to two of three letters, two recent searches; the shell's own
\* numbers of retries and steps.
SPECIFICATION MCSpec
CONSTANTS
    Products = {p1}
    MaxQuantity = 2
    MaxChanges = 2
    Data = {d1, d2}
    NoData = nodata
    Submissions = {s1, s2}
    None = none
    t1 = t1
    t2 = t2
    m1 = m1
    la = la
    lb = lb
    lc = lc
    Tenants = {t1, t2}
    DefaultTenant = t1
    DemoTenant = t2
    Ranges = {"7d", "30d"}
    DefaultRange = "30d"
    Metrics = {m1}
    MaxUpgrades = 2
    Nothing = none
    MaxFetches = 2
    MaxVersion = 0
    Letters = {la, lb, lc}
    MaxQuery = 2
    Commands <- MCCommands
    Paths = {"orders", "products"}
    Shortcuts = {"outside", "orders"}
    Outside = "outside"
    MaxRecent = 2
    Scale = 1200
    MaxRetries = 3
    MaxErrors = 3
    Steps = 3
    MaxHides = 2
INVARIANTS
    DraftFollowsForm
    OneOrderPerCart
    PlanAsChosen
    FiguresOfTenant
    ResultsRanked
    HighlightListed
    BannerTruthful
    TourEndsForGood
CHECK_DEADLOCK FALSE
