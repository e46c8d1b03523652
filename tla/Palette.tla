------------------------------- MODULE Palette -------------------------------
(***************************************************************************)
(* The command palette of the application's layout, the fuzzy search behind *)
(* it, the recent searches and the keyboard shortcuts.                      *)
(*                                                                         *)
(* Terms are sequences of letters, taken trimmed and in lower case.  Scores *)
(* are integers: the code's, times Scale.                                   *)
(***************************************************************************)
EXTENDS Integers, SequencesExt, Listing

CONSTANTS
    Letters,
    MaxQuery,       \* bound on the length of a query
    Commands,       \* sequence of [name, category, path]
    Paths,          \* pages of the layout
    Shortcuts,      \* those with a shortcut
    Outside,        \* the pages without the layout
    MaxRecent,      \* recent searches kept
    Scale           \* a multiple of 100 and of ten times the terms' lengths

ASSUME PaletteAssumption ==
    /\ MaxQuery \in Nat /\ MaxRecent \in Nat \ {0} /\ Scale \in Nat \ {0}
    /\ Scale % 100 = 0
    /\ Commands \in Seq(Range(Commands)) /\ Commands # <<>>
    /\ \A c \in DOMAIN Commands :
        /\ Commands[c].path \in Paths
        /\ \A t \in {Commands[c].name, Commands[c].category} :
            t \in Seq(Letters) /\ t # <<>> /\ Scale % (10 * Len(t)) = 0
    /\ Shortcuts \subseteq Paths \union {Outside} /\ Outside \notin Paths

VARIABLES
    path,               \* page on the screen
    paletteOpen, query,
    activeIndex,        \* of the highlighted command, from one
    recentSearches,
    recalled            \* history: a recent search became the query

highlight == <<query, activeIndex, recalled>>
paletteVars == <<path, paletteOpen, highlight, recentSearches>>

Queries == BoundedSeq(Letters, MaxQuery)
Names == {Commands[c].name : c \in DOMAIN Commands}

PaletteTypeOK ==
    /\ path \in Paths \union {Outside}
    /\ paletteOpen \in BOOLEAN /\ query \in Queries \union Names
    /\ activeIndex \in DOMAIN Commands
    /\ recentSearches \in Seq(Queries \union Names)
    /\ Len(recentSearches) <= MaxRecent /\ IsInjective(recentSearches)
    /\ recalled \in BOOLEAN
    /\ path = Outside => ~paletteOpen

PaletteInit ==
    /\ path = Outside
    /\ paletteOpen = FALSE /\ query = <<>> /\ activeIndex = 1 /\ recalled = FALSE
    /\ recentSearches = <<>>

-----------------------------------------------------------------------------
(* fuzzySearch.                                                            *)

Includes(t, q) ==
    \E i \in 0..(Len(t) - Len(q)) : SubSeq(t, i + 1, i + Len(q)) = q

\* The loop over the target: letters of the query found in their order, and
\* letters passed over until the last of them.
Scan(q, t) ==
    FoldLeft(LAMBDA acc, l :
                IF acc.matches = Len(q) THEN acc
                ELSE IF q[acc.matches + 1] = l THEN [acc EXCEPT !.matches = @ + 1]
                ELSE [acc EXCEPT !.gaps = @ + 1],
             [matches |-> 0, gaps |-> 0], t)

Clamp(score) ==
    IF score > (9 * Scale) \div 10 THEN (9 * Scale) \div 10
    ELSE IF score < Scale \div 10 THEN Scale \div 10
    ELSE score

\* Mutant: no boost for a target that contains the query.
FuzzyMatchScoreFlat(q, t) ==
    IF q = t THEN Scale
    ELSE IF Scan(q, t).matches # Len(q) THEN 0
    ELSE Clamp(Scale \div 2 + (3 * Scale * Len(q)) \div (10 * Len(t))
                - Scan(q, t).gaps * (Scale \div 100))

FuzzyMatchScore(q, t) ==
    IF q = t THEN Scale
    ELSE IF Includes(t, q) THEN (8 * Scale) \div 10 + (2 * Scale * Len(q)) \div (10 * Len(t))
    ELSE IF Scan(q, t).matches # Len(q) THEN 0
    ELSE Clamp(Scale \div 2 + (3 * Scale * Len(q)) \div (10 * Len(t))
                - Scan(q, t).gaps * (Scale \div 100))

\* A command's best score, over its name and its category.
Score(c, q) ==
    LET byName == FuzzyMatchScore(q, Commands[c].name)
        byCategory == FuzzyMatchScore(q, Commands[c].category)
    IN  IF byName > byCategory THEN byName ELSE byCategory

\* Places in Commands, the best first, equals in their order; all of them for
\* an empty query.
FilteredCommands ==
    LET score == [c \in DOMAIN Commands |-> IF query = <<>> THEN 1 ELSE Score(c, query)]
        found == {c \in DOMAIN Commands : score[c] > 0}
    IN  Arranged([c \in DOMAIN Commands |-> c], found, [c \in found |-> -score[c]])

-----------------------------------------------------------------------------
(* The palette.                                                            *)

\* addSearch: to the front, once.
AddSearch(term) ==
    recentSearches' =
        LET kept == <<term>> \o InPlace(recentSearches,
                                      {i \in DOMAIN recentSearches : recentSearches[i] # term})
        IN  SubSeq(kept, 1, IF Len(kept) < MaxRecent THEN Len(kept) ELSE MaxRecent)

\* What a closed palette holds means nothing: it opens with an empty query.
Blank == query' = <<>> /\ activeIndex' = 1 /\ recalled' = FALSE

\* Ctrl K.
TogglePalette ==
    /\ path # Outside
    /\ paletteOpen' = ~paletteOpen
    /\ Blank
    /\ UNCHANGED <<path, recentSearches>>

\* Escape, or the cross.
ClosePalette ==
    /\ paletteOpen
    /\ paletteOpen' = FALSE
    /\ Blank
    /\ UNCHANGED <<path, recentSearches>>

\* Mutant: the highlight stays where it was.
TypeQueryBelow(q) ==
    /\ paletteOpen
    /\ query' = q
    /\ UNCHANGED <<activeIndex, recalled, path, paletteOpen, recentSearches>>

\* The input's onChange.
TypeQuery(q) ==
    /\ paletteOpen
    /\ query' = q
    /\ activeIndex' = 1 /\ recalled' = FALSE
    /\ UNCHANGED <<path, paletteOpen, recentSearches>>

\* handleSelectRecent, which leaves the highlight; the recent searches are on
\* the screen while the query is empty.
SelectRecent(i) ==
    /\ paletteOpen /\ query = <<>>
    /\ query' = recentSearches[i]
    /\ recalled' = TRUE
    /\ UNCHANGED <<activeIndex, path, paletteOpen, recentSearches>>

ClearHistory ==
    /\ paletteOpen /\ query = <<>> /\ recentSearches # <<>>
    /\ recentSearches' = <<>>
    /\ UNCHANGED <<path, paletteOpen, highlight>>

\* Arrow keys; the mouse highlights any command.
ArrowDown ==
    /\ paletteOpen /\ FilteredCommands # <<>>
    /\ activeIndex' = (activeIndex % Len(FilteredCommands)) + 1
    /\ recalled' = FALSE
    /\ UNCHANGED <<query, path, paletteOpen, recentSearches>>

ArrowUp ==
    /\ paletteOpen /\ FilteredCommands # <<>>
    /\ activeIndex' = ((activeIndex - 2 + Len(FilteredCommands)) % Len(FilteredCommands)) + 1
    /\ recalled' = FALSE
    /\ UNCHANGED <<query, path, paletteOpen, recentSearches>>

Hover(i) ==
    /\ paletteOpen
    /\ activeIndex' = i
    /\ recalled' = FALSE
    /\ UNCHANGED <<query, path, paletteOpen, recentSearches>>

\* A command is chosen: it is searched for from now on, by the query if there is
\* one, and its page is opened.
Choose(c) ==
    /\ AddSearch(IF query # <<>> THEN query ELSE Commands[c].name)
    /\ path' = Commands[c].path
    /\ paletteOpen' = FALSE
    /\ Blank

\* Without a command under the highlight, Enter does nothing.
Enter ==
    /\ paletteOpen /\ activeIndex \in DOMAIN FilteredCommands
    /\ Choose(FilteredCommands[activeIndex])

Click(i) ==
    /\ paletteOpen
    /\ Choose(FilteredCommands[i])

-----------------------------------------------------------------------------
(* Pages.                                                                  *)

\* useKeyboardShortcuts: also with the palette open, which stays if its layout
\* does.
Shortcut(p) ==
    /\ path # Outside
    /\ path' = p
    /\ IF p = Outside THEN paletteOpen' = FALSE /\ Blank
       ELSE UNCHANGED <<paletteOpen, highlight>>
    /\ UNCHANGED recentSearches

\* A link into the layout, or another of its links.
FollowLink(p) ==
    /\ ~paletteOpen
    /\ path' = p
    /\ UNCHANGED <<paletteOpen, highlight, recentSearches>>

PaletteNext ==
    \/ TogglePalette \/ ClosePalette \/ ClearHistory \/ ArrowDown \/ ArrowUp \/ Enter
    \/ \E q \in Queries : TypeQuery(q)
    \/ \E i \in DOMAIN recentSearches : SelectRecent(i)
    \/ \E i \in DOMAIN FilteredCommands : Hover(i) \/ Click(i)
    \/ \E p \in Shortcuts : Shortcut(p)
    \/ \E p \in Paths : FollowLink(p)

PaletteSpec == PaletteInit /\ [][PaletteNext]_paletteVars

-----------------------------------------------------------------------------
(* Properties.                                                             *)

InOrder(q, t) ==
    \E place \in [DOMAIN q -> DOMAIN t] :
        /\ \A i \in DOMAIN q : t[place[i]] = q[i]
        /\ \A i, j \in DOMAIN q : i < j => place[i] < place[j]

\* The palette lists the commands that have the query's letters in their order,
\* in the name or the category, and no others: the one pass over the target
\* misses none of the places where they could be (fuzzyMatchScore).
ListedMatches ==
    query # <<>> =>
        Range(FilteredCommands) =
            {c \in DOMAIN Commands :
                InOrder(query, Commands[c].name) \/ InOrder(query, Commands[c].category)}

\* Among them, one that contains the query stands before all that only have its
\* letters scattered, however long it is (the boost and the gap penalty of
\* fuzzyMatchScore, and the sort of fuzzySearch).
ContainingFirst ==
    LET has(i) == LET c == Commands[FilteredCommands[i]]
                  IN  Includes(c.name, query) \/ Includes(c.category, query)
    IN  \A i, j \in DOMAIN FilteredCommands : has(j) /\ ~has(i) => j < i

\* What the palette lists for a query, and in which order (fuzzySearch).
ResultsRanked == ListedMatches /\ ContainingFirst

\* While commands are listed one of them is highlighted, so that Enter opens
\* one, whatever was typed, cleared or reached by the arrows before.  The
\* exception is a recent search just recalled: it leaves the highlight where it
\* was, which may be below its list (handleSelectRecent).
HighlightListed ==
    FilteredCommands # <<>> /\ ~recalled => activeIndex \in DOMAIN FilteredCommands

-----------------------------------------------------------------------------

\* HighlightListed needs no more than the types: the arrows stay on the list, the
\* mouse on what is listed, and whatever else changes the query goes back to the
\* first place or recalls a search.
PaletteInv == PaletteTypeOK /\ HighlightListed

=============================================================================
