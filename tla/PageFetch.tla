------------------------------ MODULE PageFetch ------------------------------
(***************************************************************************)
(* What the pages that list server records have in common: an async         *)
(* function that sets `loading`, awaits a GET, puts its answer in the       *)
(* page's state and resets `loading` in `finally`.  Nothing stops it from   *)
(* running again before it has ended, nor an answer from arriving after the *)
(* answer to a later request.                                               *)
(*                                                                         *)
(* The server's records have a version that every change raises; a fetch    *)
(* carries the version it was answered at.                                  *)
(***************************************************************************)
EXTENDS Integers, FiniteSets, SequencesExt

CONSTANTS
    MaxFetches,     \* bound on the fetches under way
    MaxVersion      \* bound on the changes of the records

ASSUME BoundsAssumption == MaxFetches \in Nat \ {0} /\ MaxVersion \in Nat

VARIABLES
    loading,        \* the page's flag
    flight,         \* its fetches under way, in the order they were started
    version,        \* version of the server's records
    shown,          \* history: version of the answer in the page's state
    stale           \* history: a later answer had come before that one

fetchVars == <<loading, flight, shown, stale>>

FetchTypeOK(Tags) ==
    /\ loading \in BOOLEAN
    /\ flight \in Seq([tag : Tags, answered : BOOLEAN, at : 0..version, late : BOOLEAN])
    /\ version \in 0..MaxVersion
    /\ shown \in 0..version
    /\ stale \in BOOLEAN

\* The request of a fetch; `tag` tells who waits for it.
NewFetch(tag) == [tag |-> tag, answered |-> FALSE, at |-> 0, late |-> FALSE]

FetchInit(fetches) ==
    /\ loading = (fetches # <<>>)
    /\ flight = fetches
    /\ version = 0
    /\ shown = 0
    /\ stale = FALSE

\* A page is opened, and no longer cares for the fetches of the one before.
OpenFetch(fetches) ==
    /\ loading' = (fetches # <<>>)
    /\ flight' = fetches
    /\ shown' = 0
    /\ stale' = FALSE

StartFetch(tag) ==
    /\ Len(flight) < MaxFetches
    /\ flight' = Append(flight, NewFetch(tag))
    /\ loading' = TRUE

ServerAnswers(f) ==
    /\ ~flight[f].answered
    /\ flight' = [flight EXCEPT ![f].answered = TRUE, ![f].at = version]

\* Fetch f leaves; if it brings an answer, those started before it are late.
Leave(f, answers) ==
    /\ loading' = FALSE
    /\ flight' = RemoveAt([g \in DOMAIN flight |->
                    IF answers /\ g < f THEN [flight[g] EXCEPT !.late = TRUE]
                    ELSE flight[g]], f)

\* An answer, whichever request it belongs to, is put in the page's state.
TakeAnswer(f) ==
    /\ flight[f].answered
    /\ shown' = flight[f].at
    /\ stale' = flight[f].late
    /\ Leave(f, TRUE)

\* A fetch fails, at the server or on the way there or back.
LoseAnswer(f) ==
    /\ Leave(f, FALSE)
    /\ UNCHANGED <<shown, stale>>

-----------------------------------------------------------------------------
(* Why a change that was announced gets to the screen.                     *)

\* The answer of this fetch has change v, or will have it.
Brings(fetch, v) == fetch.answered => fetch.at >= v

\* With these fetches under way, an answer of version `last` in the page's
\* state and `overtaken` if a later one had come before: change v is on the
\* screen or is coming, and no answer without it will be the last but one that
\* was overtaken.
Covered(fetches, last, overtaken, v) ==
    /\ \A f \in DOMAIN fetches :
        \/ fetches[f].late \/ Brings(fetches[f], v)
        \/ \E g \in DOMAIN fetches : f < g /\ Brings(fetches[g], v)
    /\ overtaken \/ last >= v \/ \E g \in DOMAIN fetches : Brings(fetches[g], v)

=============================================================================
