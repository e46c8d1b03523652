--------------------------------- MODULE Shell ---------------------------------
(***************************************************************************)
(* What surrounds the pages: the two error boundaries, the offline banner,  *)
(* the onboarding tour, and the feature flags that decide which of the two  *)
(* overlays App draws.                                                     *)
(*                                                                         *)
(* React runs the effects of the first render some time after it, those of  *)
(* a render that a click caused before anything else happens.               *)
(***************************************************************************)
EXTENDS Naturals

CONSTANTS
    MaxRetries,     \* of RetryBoundary
    MaxErrors,      \* from which ErrorBoundary offers no retry
    Steps,          \* of the tour
    MaxHides        \* bound on the timers that run at once

ASSUME ShellAssumption ==
    /\ MaxRetries \in Nat /\ MaxErrors \in Nat \ {0}
    /\ Steps \in Nat \ {0} /\ MaxHides \in Nat

VARIABLES
    hasError, errorCount,       \* ErrorBoundary, around everything
    pageError, retryCount,      \* RetryBoundary, around the pages
    ready,                      \* the effects of the first render have run
    flagsAsked, enabled,        \* a request for flags; the flags of now
    drawn,                      \* overlays in App's last render
    online,                     \* the browser's connection
    isOnline, showStatus,       \* the banner's idea of it
    hides,                      \* timers that will hide the banner
    missed,                     \* history: the banner did not hear a change
    step, visible, tourTimer,
    tourDone,                   \* in localStorage
    completed                   \* history: the user has ended the tour

boundaries == <<hasError, errorCount, pageError, retryCount>>
flags == <<flagsAsked, enabled>>
banner == <<isOnline, showStatus, hides, missed>>
tour == <<step, visible, tourTimer>>
shellVars == <<boundaries, ready, flags, drawn, online, banner, tour, tourDone, completed>>

Overlays == {"banner", "tour"}
Mounted(overlay) == overlay \in drawn /\ ~hasError

ShellTypeOK ==
    /\ hasError \in BOOLEAN /\ errorCount \in 0..MaxErrors
    /\ pageError \in BOOLEAN /\ retryCount \in 0..MaxRetries
    /\ hasError => errorCount > 0 /\ ~pageError
    /\ ready \in BOOLEAN /\ flagsAsked \in BOOLEAN
    /\ enabled \subseteq Overlays /\ drawn \subseteq Overlays
    /\ online \in BOOLEAN
    /\ isOnline \in BOOLEAN /\ showStatus \in BOOLEAN /\ hides \in 0..MaxHides
    /\ missed \in BOOLEAN
    /\ step \in 0..Steps - 1 /\ visible \in BOOLEAN /\ tourTimer \in BOOLEAN
    /\ tourDone \in BOOLEAN /\ completed \in BOOLEAN
    /\ visible => Mounted("tour") /\ ~tourTimer
    /\ ~Mounted("banner") => ~showStatus /\ hides = 0

ShellInit ==
    /\ hasError = FALSE /\ errorCount = 0 /\ pageError = FALSE /\ retryCount = 0
    /\ ready = FALSE
    /\ flagsAsked = FALSE /\ enabled = Overlays /\ drawn = Overlays
    /\ online = TRUE
    /\ isOnline = TRUE /\ showStatus = FALSE /\ hides = 0 /\ missed = FALSE
    /\ step = 0 /\ visible = FALSE /\ tourTimer = FALSE
    /\ tourDone = FALSE /\ completed = FALSE

-----------------------------------------------------------------------------
(* Mounting the overlays.                                                  *)

\* Mutant: a new banner supposes that there is a connection.
BannerMountsOnline ==
    /\ isOnline' = TRUE
    /\ showStatus' = FALSE /\ hides' = 0 /\ missed' = FALSE

\* A banner that is mounted, or none: a timer of an older one has no effect.
BannerMounts ==
    /\ isOnline' = online
    /\ showStatus' = FALSE /\ hides' = 0 /\ missed' = FALSE

\* The tour, without its effect.
TourMounts == step' = 0 /\ visible' = FALSE

\* Its effect: a timer, unless the tour has been completed.
StartsTour == tourTimer' = ~tourDone

-----------------------------------------------------------------------------
(* App.                                                                    *)

\* The tab is loaded again, by the user or by ErrorBoundary; App draws with the
\* default flags, and no effect has run.
HandleFullReload ==
    /\ hasError' = FALSE /\ errorCount' = 0 /\ pageError' = FALSE /\ retryCount' = 0
    /\ ready' = FALSE
    /\ flagsAsked' = FALSE /\ enabled' = Overlays /\ drawn' = Overlays
    /\ BannerMounts
    /\ TourMounts /\ tourTimer' = FALSE
    /\ UNCHANGED <<online, tourDone, completed>>

\* The effects of the first render: listeners, the tour's timer, and the
\* request for the flags.
RunEffects ==
    /\ ~ready
    /\ ready' = TRUE
    /\ flagsAsked' = TRUE
    /\ StartsTour
    /\ UNCHANGED <<boundaries, enabled, drawn, online, banner, step, visible,
                   tourDone, completed>>

\* loadFeatureFlags ends, with the defaults if the request failed.  App is not
\* drawn again for it.
LoadFeatureFlags ==
    /\ flagsAsked
    /\ flagsAsked' = FALSE
    /\ enabled' \in SUBSET Overlays
    /\ UNCHANGED <<boundaries, ready, drawn, online, banner, tour, tourDone, completed>>

\* Another theme, which the layout's button sets, draws App again, with the
\* flags of now: they can only have taken overlays away.
ToggleTheme ==
    /\ ready /\ ~hasError /\ ~pageError
    /\ drawn' = enabled
    /\ IF "banner" \in enabled THEN UNCHANGED banner ELSE BannerMounts
    /\ IF "tour" \in enabled THEN UNCHANGED tour ELSE TourMounts /\ tourTimer' = FALSE
    /\ UNCHANGED <<boundaries, ready, flags, online, tourDone, completed>>

-----------------------------------------------------------------------------
(* The boundaries.                                                         *)

\* A page throws while it renders.
PageThrows ==
    /\ ready /\ ~hasError /\ ~pageError
    /\ pageError' = TRUE
    /\ UNCHANGED <<hasError, errorCount, retryCount, ready, flags, drawn, online,
                   banner, tour, tourDone, completed>>

HandleRetry ==
    /\ pageError /\ retryCount < MaxRetries
    /\ pageError' = FALSE
    /\ retryCount' = retryCount + 1
    /\ UNCHANGED <<hasError, errorCount, ready, flags, drawn, online, banner, tour,
                   tourDone, completed>>

\* Something outside RetryBoundary throws: all that ErrorBoundary holds is
\* unmounted, RetryBoundary with its count.
OverlayThrows ==
    /\ ready /\ ~hasError
    /\ hasError' = TRUE
    /\ errorCount' = errorCount + 1
    /\ pageError' = FALSE /\ retryCount' = 0
    /\ BannerMounts
    /\ TourMounts /\ tourTimer' = FALSE
    /\ UNCHANGED <<ready, flags, drawn, online, tourDone, completed>>

\* Everything is mounted anew, as App last drew it.
HandleRetryInPlace ==
    /\ hasError /\ errorCount < MaxErrors
    /\ hasError' = FALSE
    /\ BannerMounts
    /\ TourMounts
    /\ IF "tour" \in drawn THEN StartsTour ELSE tourTimer' = FALSE
    /\ UNCHANGED <<errorCount, pageError, retryCount, ready, flags, drawn, online,
                   tourDone, completed>>

-----------------------------------------------------------------------------
(* The banner.                                                             *)

Listens == Mounted("banner") /\ ready

HandleOffline ==
    /\ online
    /\ online' = FALSE
    /\ IF Listens THEN isOnline' = FALSE /\ showStatus' = TRUE /\ missed' = FALSE
       ELSE missed' = Mounted("banner") /\ UNCHANGED <<isOnline, showStatus>>
    /\ UNCHANGED <<boundaries, ready, flags, drawn, hides, tour, tourDone, completed>>

\* The timer of an earlier connection goes on running.
HandleOnline ==
    /\ ~online /\ hides < MaxHides
    /\ online' = TRUE
    /\ IF Listens THEN /\ isOnline' = TRUE /\ showStatus' = TRUE /\ missed' = FALSE
                       /\ hides' = hides + 1
       ELSE missed' = Mounted("banner") /\ UNCHANGED <<isOnline, showStatus, hides>>
    /\ UNCHANGED <<boundaries, ready, flags, drawn, tour, tourDone, completed>>

HideTimer ==
    /\ hides > 0
    /\ hides' = hides - 1
    /\ showStatus' = FALSE
    /\ UNCHANGED <<boundaries, ready, flags, drawn, online, isOnline, missed, tour,
                   tourDone, completed>>

-----------------------------------------------------------------------------
(* The tour.                                                               *)

TourTimer ==
    /\ tourTimer
    /\ tourTimer' = FALSE
    /\ visible' = TRUE
    /\ UNCHANGED <<boundaries, ready, flags, drawn, online, banner, step, tourDone,
                   completed>>

\* Mutant: only the last step is remembered, not that the tour was skipped.
HandleCompleteAtLast ==
    /\ visible' = FALSE
    /\ tourDone' = (step = Steps - 1)
    /\ completed' = TRUE
    /\ UNCHANGED step

HandleComplete ==
    /\ visible' = FALSE
    /\ tourDone' = TRUE
    /\ completed' = TRUE
    /\ UNCHANGED step

HandleNext ==
    /\ visible
    /\ IF step < Steps - 1 THEN step' = step + 1 /\ UNCHANGED <<visible, tourDone, completed>>
       ELSE HandleComplete
    /\ UNCHANGED <<boundaries, ready, flags, drawn, online, banner, tourTimer>>

SkipTour ==
    /\ visible
    /\ HandleComplete
    /\ UNCHANGED <<boundaries, ready, flags, drawn, online, banner, tourTimer>>

-----------------------------------------------------------------------------

ShellNext ==
    \/ HandleFullReload \/ RunEffects \/ LoadFeatureFlags \/ ToggleTheme
    \/ PageThrows \/ HandleRetry \/ OverlayThrows \/ HandleRetryInPlace
    \/ HandleOffline \/ HandleOnline \/ HideTimer
    \/ TourTimer \/ HandleNext \/ SkipTour

ShellSpec == ShellInit /\ [][ShellNext]_shellVars

-----------------------------------------------------------------------------
(* Properties.                                                             *)

\* A banner on the screen says what the browser says of the connection, however
\* often an error, a reload or a flag has replaced it, and whatever changed
\* while there was none (OfflineBanner, its initial state and its listeners).
\* The exception is a change between the first render and its effects.
BannerTruthful ==
    Mounted("banner") /\ ~missed => isOnline = online

\* Who has ended the tour, at any step, is not shown it again by any later
\* mount (OnboardingTour, handleComplete and the effect).
TourEndsForGood == completed => ~visible

-----------------------------------------------------------------------------
(* Why they hold.                                                          *)

\* Flags take overlays away and never bring one back, for they are asked for
\* once, when all are drawn.
FlagsOnlyHide ==
    /\ enabled \subseteq drawn
    /\ flagsAsked \/ ~ready => enabled = Overlays
    /\ flagsAsked => ready

\* Before the first effects nothing has failed and no tour is about to start.
NothingBeforeEffects == ~ready => ~hasError /\ ~visible /\ ~tourTimer

\* Only the error that is on the screen may be the last one that is counted.
ErrorsCounted == ~hasError => errorCount < MaxErrors

\* A timer of the tour runs with the tour mounted, and not after it was ended.
TimerOfTour ==
    /\ tourTimer => Mounted("tour") /\ ~completed
    /\ completed => tourDone

ShellInv ==
    /\ ShellTypeOK /\ BannerTruthful /\ TourEndsForGood
    /\ FlagsOnlyHide /\ NothingBeforeEffects /\ ErrorsCounted /\ TimerOfTour

=============================================================================
