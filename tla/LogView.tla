------------------------------- MODULE LogView -------------------------------
(***************************************************************************)
(* What the logs page makes of the lines it holds: the filter by level,    *)
(* the search that marks lines and walks from match to match, and the      *)
(* sections that open and close.  The lines come and go under it as        *)
(* LogStreaming says.  The index of the current match is reset only when   *)
(* the search text changes, while the matches change with every line and   *)
(* every level that is ticked.                                             *)
(***************************************************************************)
EXTENDS Integers, FiniteSets, Sequences

CONSTANTS
    Levels, NoLevel,    \* the levels a line may have; a line may have none
    Texts, NoText,      \* what the user searches for; NoText is the empty box
    Sections,           \* labels, environment, terminal, filter, options
    MaxLines            \* bound

VARIABLES
    found,              \* the page's container is in the list
    lines,              \* logs
    selectedLevels, searchText, currentMatchIndex,
    open                \* the sections and options that are on

viewVars == <<found, lines, selectedLevels, searchText, currentMatchIndex, open>>

\* A line: its level, the texts it contains, and whether it has a message
\* besides its raw form.
Line == [level : Levels \cup {NoLevel}, has : SUBSET Texts, message : BOOLEAN]

\* The search looks into the message or, without one, into the raw line.
HasText(line, text) == text \in line.has

\* The numbers in S, ascending: what a filter keeps, by its index.
InOrder(S) ==
    [n \in 1 .. Cardinality(S) |-> CHOOSE i \in S : Cardinality({j \in S : j < i}) = n - 1]

Passes(line) ==
    \/ selectedLevels = {}
    \/ line.level = NoLevel
    \/ line.level \in selectedLevels

FilteredLogs ==
    LET kept == InOrder({i \in DOMAIN lines : Passes(lines[i])})
    IN  [n \in DOMAIN kept |-> lines[kept[n]]]

\* The rows that match, in order.
SearchMatches ==
    IF searchText = NoText
    THEN << >>
    ELSE InOrder({i \in DOMAIN FilteredLogs : HasText(FilteredLogs[i], searchText)})

AvailableLogLevels == {lines[i].level : i \in DOMAIN lines} \ {NoLevel}

ViewTypeOK ==
    /\ found \in BOOLEAN
    /\ lines \in Seq(Line)
    /\ selectedLevels \subseteq Levels
    /\ searchText \in Texts \cup {NoText}
    /\ currentMatchIndex \in Nat
    /\ open \subseteq Sections

ViewInit ==
    /\ found = FALSE
    /\ lines = << >>
    /\ selectedLevels = {}
    /\ searchText = NoText
    /\ currentMatchIndex = 0
    /\ open = Sections \cap {"timestamps", "autoScroll"}

-----------------------------------------------------------------------------
\* The card of details, its labels and its form of variables exist for a
\* container that was found; the terminal is mounted with the card, and only
\* hidden while its section is closed.
DetailsCard ==
    [shown       |-> found,
     labels      |-> found /\ "labels" \in open,
     environment |-> found /\ "environment" \in open,
     terminal    |-> found]

\* The rows below the controls: a line without a message has no row, although
\* its raw form may be the current match.
Rows ==
    {i \in DOMAIN FilteredLogs : FilteredLogs[i].message}

\* The row that is drawn as the current match.
CurrentMatch ==
    {i \in Rows : currentMatchIndex + 1 \in DOMAIN SearchMatches
                  /\ SearchMatches[currentMatchIndex + 1] = i}

-----------------------------------------------------------------------------
ContainerFound ==
    /\ ~found
    /\ found' = TRUE
    /\ UNCHANGED <<lines, selectedLevels, searchText, currentMatchIndex, open>>

LineArrives(line) ==
    /\ Len(lines) < MaxLines
    /\ lines' = Append(lines, line)
    /\ UNCHANGED <<found, selectedLevels, searchText, currentMatchIndex, open>>

\* A stream starts anew, or the answer to a refresh replaces the lines.
LinesReplaced(new) ==
    /\ lines' = new
    /\ UNCHANGED <<found, selectedLevels, searchText, currentMatchIndex, open>>

\* The search box, and the effect that follows it.
Search(text) ==
    /\ text # searchText
    /\ searchText' = text
    /\ currentMatchIndex' = 0
    /\ UNCHANGED <<found, lines, selectedLevels, open>>

\* toggleLogLevel: the popover lists the levels of the lines there are.
ToggleLogLevel(level) ==
    /\ "filter" \in open
    /\ level \in AvailableLogLevels
    /\ selectedLevels' = IF level \in selectedLevels
                         THEN selectedLevels \ {level}
                         ELSE selectedLevels \cup {level}
    /\ UNCHANGED <<found, lines, searchText, currentMatchIndex, open>>

ClearFilters ==
    /\ "filter" \in open
    /\ selectedLevels # {}
    /\ selectedLevels' = {}
    /\ UNCHANGED <<found, lines, searchText, currentMatchIndex, open>>

\* Fault: the first match is not followed by the last.
PreviousUnwrapped ==
    /\ SearchMatches # << >>
    /\ currentMatchIndex' = currentMatchIndex - 1
    /\ UNCHANGED <<found, lines, selectedLevels, searchText, open>>

\* The arrows are enabled while there are matches.
GoToPreviousMatch ==
    /\ SearchMatches # << >>
    /\ currentMatchIndex' = IF currentMatchIndex > 0
                            THEN currentMatchIndex - 1
                            ELSE Len(SearchMatches) - 1
    /\ UNCHANGED <<found, lines, selectedLevels, searchText, open>>

GoToNextMatch ==
    /\ SearchMatches # << >>
    /\ currentMatchIndex' = IF currentMatchIndex < Len(SearchMatches) - 1
                            THEN currentMatchIndex + 1
                            ELSE 0
    /\ UNCHANGED <<found, lines, selectedLevels, searchText, open>>

\* The buttons of the card's sections exist with the card.
ToggleSection(s) ==
    /\ s \in {"labels", "environment", "terminal"}
    /\ DetailsCard.shown
    /\ open' = IF s \in open THEN open \ {s} ELSE open \cup {s}
    /\ UNCHANGED <<found, lines, selectedLevels, searchText, currentMatchIndex>>

ToggleOption(s) ==
    /\ s \in {"filter", "timestamps", "autoScroll", "wrap"}
    /\ open' = IF s \in open THEN open \ {s} ELSE open \cup {s}
    /\ UNCHANGED <<found, lines, selectedLevels, searchText, currentMatchIndex>>

ViewNext ==
    \/ ContainerFound
    \/ \E line \in Line : LineArrives(line)
    \/ \E new \in {<< >>} \cup {<<line>> : line \in Line} : LinesReplaced(new)
    \/ \E text \in Texts \cup {NoText} : Search(text)
    \/ \E level \in Levels : ToggleLogLevel(level)
    \/ ClearFilters
    \/ GoToPreviousMatch \/ GoToNextMatch
    \/ \E s \in Sections : ToggleSection(s) \/ ToggleOption(s)

ViewSpec == ViewInit /\ [][ViewNext]_viewVars

-----------------------------------------------------------------------------
\* However the lines and the filter moved under the index, the next arrow
\* lands on a line that contains the text; so the counter that may show "5 of
\* 2" after a filter is right again at the next step (logs.tsx:380-386).
NextLandsOnMatch ==
    [][GoToNextMatch =>
         /\ currentMatchIndex' + 1 \in DOMAIN SearchMatches
         /\ HasText(FilteredLogs[SearchMatches[currentMatchIndex' + 1]], searchText)]_viewVars
=============================================================================
