------------------------------ MODULE Workspace ------------------------------
(***************************************************************************)
(* The active tenant and its plan (tenantStore), and who changes or reads   *)
(* them: the workspace administration page, the showcase panel that floats  *)
(* over every page, and the dashboard, whose analytics are fetched with the *)
(* tenant of the moment in the request's header.                            *)
(*                                                                         *)
(* The store keeps one plan for all tenants, with its limits.  Personas,    *)
(* the charts, the audit log and the tour are left out.                     *)
(***************************************************************************)
EXTENDS PageFetch

CONSTANTS
    Tenants,
    DefaultTenant,
    DemoTenant,     \* the one that seeding switches to
    Ranges, DefaultRange,
    Metrics,        \* the dashboard's cards
    MaxUpgrades,    \* bound on the upgrades under way
    Nothing

ASSUME WorkspaceAssumption ==
    /\ {DefaultTenant, DemoTenant} \subseteq Tenants /\ Nothing \notin Tenants
    /\ DefaultRange \in Ranges /\ Nothing \notin Metrics
    /\ MaxUpgrades \in Nat \ {0}

VARIABLES
    page,
    activeTenantId, planTier,   \* the store, persisted
    selectedTab, isUpgrading,   \* the administration page
    upgrades,                   \* handlePlanUpgrades that wait, oldest first
    isOpen, seedingData,        \* the showcase panel
    analyticsData,              \* tenant of the figures the dashboard holds
    timeRange, drillDownMetric,
    chosen,                     \* history: the plan chosen last
    overlapped,                 \* history: by seeding, while an upgrade waited
    switched                    \* history: tenant changed under this dashboard

store == <<activeTenantId, planTier>>
admin == <<selectedTab, isUpgrading, upgrades>>
panel == <<isOpen, seedingData>>
dashboard == <<analyticsData, timeRange, drillDownMetric>>
history == <<chosen, overlapped, switched>>
workVars == <<page, store, admin, panel, dashboard, fetchVars, version, history>>

Pages == {"dashboard", "workspace", "other"}
Tiers == {"free", "growth", "enterprise"}
Tabs == {"overview", "billing", "audit"}

WorkspaceTypeOK ==
    /\ FetchTypeOK(Tenants)
    /\ page \in Pages
    /\ activeTenantId \in Tenants /\ planTier \in Tiers
    /\ selectedTab \in Tabs
    /\ upgrades \in Seq([tier : Tiers, here : BOOLEAN])
    /\ isUpgrading = \E i \in DOMAIN upgrades : upgrades[i].here
    /\ isOpen \in BOOLEAN /\ seedingData \in BOOLEAN
    /\ analyticsData \in Tenants \union {Nothing}
    /\ timeRange \in Ranges /\ drillDownMetric \in Metrics \union {Nothing}
    /\ chosen \in Tiers /\ overlapped \in BOOLEAN /\ switched \in BOOLEAN
    /\ page # "dashboard" => analyticsData = Nothing /\ flight = <<>>

WorkspaceInit ==
    /\ page = "other"
    /\ activeTenantId = DefaultTenant /\ planTier = "free"
    /\ selectedTab = "overview" /\ isUpgrading = FALSE /\ upgrades = <<>>
    /\ isOpen = FALSE /\ seedingData = FALSE
    /\ analyticsData = Nothing /\ timeRange = DefaultRange /\ drillDownMetric = Nothing
    /\ FetchInit(<<>>)
    /\ chosen = "free" /\ overlapped = FALSE /\ switched = FALSE

-----------------------------------------------------------------------------
(* Pages.                                                                  *)

\* Mutant: the figures outlive the page.
MountKeepsFigures(p) ==
    /\ page' = p
    /\ OpenFetch(IF p = "dashboard" THEN <<NewFetch(activeTenantId)>> ELSE <<>>)
    /\ timeRange' = DefaultRange /\ drillDownMetric' = Nothing
    /\ selectedTab' = "overview" /\ isUpgrading' = FALSE
    /\ switched' = FALSE
    /\ UNCHANGED analyticsData

\* A page starts with the initial state of its hooks; the dashboard fetches its
\* analytics once it is there.
Mount(p) ==
    /\ page' = p
    /\ OpenFetch(IF p = "dashboard" THEN <<NewFetch(activeTenantId)>> ELSE <<>>)
    /\ analyticsData' = Nothing /\ timeRange' = DefaultRange /\ drillDownMetric' = Nothing
    /\ selectedTab' = "overview" /\ isUpgrading' = FALSE
    /\ switched' = FALSE

\* By a link or a keyboard shortcut.  An upgrade waits on without its page.
Navigate(p) ==
    /\ p # page
    /\ Mount(p)
    /\ upgrades' = [i \in DOMAIN upgrades |-> [upgrades[i] EXCEPT !.here = FALSE]]
    /\ UNCHANGED <<store, panel, version, chosen, overlapped>>

\* A reload drops the timers; the store is persisted.
ReloadPage ==
    /\ Mount(page)
    /\ upgrades' = <<>>
    /\ isOpen' = FALSE /\ seedingData' = FALSE
    /\ chosen' = planTier /\ overlapped' = FALSE
    /\ UNCHANGED <<store, version>>

-----------------------------------------------------------------------------
(* The dashboard.                                                          *)

OnDashboard == page = "dashboard" /\ drillDownMetric = Nothing /\ ~isOpen

\* Sync; the button works while a fetch is under way.
HandleRefresh ==
    /\ OnDashboard
    /\ StartFetch(activeTenantId)
    /\ UNCHANGED <<page, store, admin, panel, dashboard, shown, stale, version, history>>

AnalyticsAnswered(f) ==
    /\ ServerAnswers(f)
    /\ UNCHANGED <<page, store, admin, panel, dashboard, loading, shown, stale,
                   version, history>>

AnalyticsDone(f) ==
    /\ TakeAnswer(f)
    /\ analyticsData' = flight[f].tag
    /\ UNCHANGED <<page, store, admin, panel, timeRange, drillDownMetric, version, history>>

\* The figures stay what they were.
AnalyticsFails(f) ==
    /\ LoseAnswer(f)
    /\ UNCHANGED <<page, store, admin, panel, dashboard, version, history>>

SetTimeRange(r) ==
    /\ OnDashboard
    /\ timeRange' = r
    /\ UNCHANGED <<analyticsData, drillDownMetric, page, store, admin, panel,
                   fetchVars, version, history>>

DrillDown(m) ==
    /\ OnDashboard
    /\ drillDownMetric' = m
    /\ UNCHANGED <<analyticsData, timeRange, page, store, admin, panel,
                   fetchVars, version, history>>

\* The Escape key closes the dialog, and leaves the panel over it.
CloseDrillDown ==
    /\ drillDownMetric # Nothing
    /\ drillDownMetric' = Nothing
    /\ UNCHANGED <<analyticsData, timeRange, page, store, admin, panel,
                   fetchVars, version, history>>

-----------------------------------------------------------------------------
(* The administration page.                                                *)

OnWorkspace(tab) == page = "workspace" /\ selectedTab = tab /\ ~isOpen

SelectTab(tab) ==
    /\ page = "workspace" /\ ~isOpen
    /\ selectedTab' = tab
    /\ UNCHANGED <<isUpgrading, upgrades, page, store, panel, dashboard, fetchVars,
                   version, history>>

\* The plan stays, whatever the tenant.
SwitchTenant(t) ==
    /\ OnWorkspace("overview")
    /\ activeTenantId' = t
    /\ UNCHANGED <<planTier, page, admin, panel, dashboard, fetchVars, version, history>>

\* handlePlanUpgrade up to its wait; the buttons are disabled during an upgrade
\* that this page started.
SelectPlan(tier) ==
    /\ OnWorkspace("billing")
    /\ ~isUpgrading /\ tier # planTier
    /\ Len(upgrades) < MaxUpgrades
    /\ isUpgrading' = TRUE
    /\ upgrades' = Append(upgrades, [tier |-> tier, here |-> TRUE])
    /\ chosen' = tier /\ overlapped' = FALSE
    /\ UNCHANGED <<selectedTab, switched, page, store, panel, dashboard, fetchVars, version>>

\* Mutant: the newest upgrade ends first.
UpgradedNewest ==
    /\ upgrades # <<>>
    /\ planTier' = Last(upgrades).tier
    /\ upgrades' = Front(upgrades)
    /\ isUpgrading' = (isUpgrading /\ ~Last(upgrades).here)
    /\ UNCHANGED <<activeTenantId, selectedTab, page, panel, dashboard, fetchVars,
                   version, history>>

\* Every upgrade waits equally long, so the oldest ends first.
Upgraded ==
    /\ upgrades # <<>>
    /\ planTier' = Head(upgrades).tier
    /\ upgrades' = Tail(upgrades)
    /\ isUpgrading' = (isUpgrading /\ ~Head(upgrades).here)
    /\ UNCHANGED <<activeTenantId, selectedTab, page, panel, dashboard, fetchVars,
                   version, history>>

-----------------------------------------------------------------------------
(* The showcase panel.                                                     *)

OpenPanel ==
    /\ ~isOpen
    /\ isOpen' = TRUE
    /\ UNCHANGED <<seedingData, page, store, admin, dashboard, fetchVars, version, history>>

ClosePanel ==
    /\ isOpen
    /\ isOpen' = FALSE
    /\ UNCHANGED <<seedingData, page, store, admin, dashboard, fetchVars, version, history>>

\* handleSeedData: tenant and plan change at once, under any page.
SeedData ==
    /\ isOpen /\ ~seedingData
    /\ seedingData' = TRUE
    /\ activeTenantId' = DemoTenant
    /\ planTier' = "growth"
    /\ chosen' = "growth" /\ overlapped' = (upgrades # <<>>)
    /\ switched' = (switched \/ (page = "dashboard" /\ activeTenantId # DemoTenant))
    /\ UNCHANGED <<isOpen, page, admin, dashboard, fetchVars, version>>

Seeded ==
    /\ seedingData
    /\ seedingData' = FALSE
    /\ UNCHANGED <<isOpen, page, store, admin, dashboard, fetchVars, version, history>>

-----------------------------------------------------------------------------

AnalyticsEnds == \E f \in DOMAIN flight : AnalyticsDone(f) \/ AnalyticsFails(f)

WorkspaceNext ==
    \/ \E p \in Pages : Navigate(p)
    \/ ReloadPage \/ HandleRefresh \/ AnalyticsEnds
    \/ \E f \in DOMAIN flight : AnalyticsAnswered(f)
    \/ \E r \in Ranges : SetTimeRange(r)
    \/ \E m \in Metrics : DrillDown(m)
    \/ CloseDrillDown
    \/ \E tab \in Tabs : SelectTab(tab)
    \/ \E t \in Tenants : SwitchTenant(t)
    \/ \E tier \in Tiers : SelectPlan(tier)
    \/ Upgraded \/ OpenPanel \/ ClosePanel \/ SeedData \/ Seeded

WorkspaceSpec == WorkspaceInit /\ [][WorkspaceNext]_workVars

-----------------------------------------------------------------------------
(* Properties.                                                             *)

\* When no upgrade waits, the plan is the one that was chosen last, though an
\* upgrade may have been started, its page left, another started there and the
\* demo data seeded (handlePlanUpgrade, handleSeedData).  The exception is
\* seeding while an upgrade waits: the older choice then has the last word.
PlanAsChosen == upgrades = <<>> /\ ~overlapped => planTier = chosen

\* The figures of a dashboard under which the tenant has not been switched are
\* the active tenant's: none of an earlier visit, of another tenant's page or of
\* a request that was under way are left (fetchAnalytics).  After a switch by the
\* panel they stay until Sync.
FiguresOfTenant ==
    page = "dashboard" /\ ~switched /\ analyticsData # Nothing =>
        analyticsData = activeTenantId

\* One page has at most one upgrade of its own under way, so that the end of one
\* cannot release the buttons under another (isUpgrading, disabled).
OneUpgradeHere ==
    \A i, j \in DOMAIN upgrades : upgrades[i].here /\ upgrades[j].here => i = j

-----------------------------------------------------------------------------
(* The inductive invariant behind the safety properties.                   *)

\* The newest upgrade under way is the plan chosen last.
NewestIsChosen ==
    upgrades # <<>> /\ ~overlapped => upgrades[Len(upgrades)].tier = chosen

\* The dashboard's requests went out for the active tenant.
RequestsOfTenant ==
    page = "dashboard" /\ ~switched =>
        \A f \in DOMAIN flight : flight[f].tag = activeTenantId

WorkspaceInv ==
    /\ WorkspaceTypeOK
    /\ OneUpgradeHere
    /\ PlanAsChosen
    /\ FiguresOfTenant
    /\ NewestIsChosen
    /\ RequestsOfTenant

=============================================================================
