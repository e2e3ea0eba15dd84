------------------------------ MODULE LogsSheet ------------------------------
(***************************************************************************)
(* The logs sheet of the dashboard: the same streaming and the same view   *)
(* as the logs page, with the sheet's own life.  The dashboard mounts a    *)
(* sheet when one is opened and unmounts it when it is closed, in the same *)
(* render in which isOpen becomes false: the effect that would stop the    *)
(* stream of a sheet that is not open never runs, and no effect has a      *)
(* cleanup, so the stream of a closed sheet goes on (LeftBehind).          *)
(***************************************************************************)
EXTENDS Naturals, Sequences

CONSTANTS
    Containers,         \* what a sheet can be opened for
    LineCounts, Levels, NoLevel, Texts, NoText, Sections,
    MaxSheets, MaxStreams, MaxFetches, MaxLines     \* bounds

None == 0

VARIABLES
    sheet,              \* the number of the sheet that is mounted last
    container,          \* its container, or "closed"
    logLines, isStreaming, isLoadingLogs,
    controller,         \* its abortControllerRef: a stream's number, or None
    streams, fetches,   \* of all sheets so far
    lines, selectedLevels, searchText, currentMatchIndex, open

life == <<sheet, container, logLines, isStreaming, isLoadingLogs, controller, streams,
          fetches>>
reading == <<selectedLevels, searchText, currentMatchIndex>>
sheetVars == <<life, lines, reading, open>>

View == INSTANCE LogView WITH found <- container # "closed"

SheetStream == [pc : {"opening", "reading", "ended"}, sheet : 1 .. MaxSheets,
                aborted : BOOLEAN, alone : BOOLEAN]     \* alone: a history, as LogStreaming's
SheetFetch == [pc : {"asking", "over"}, sheet : 1 .. MaxSheets]

SheetTypeOK ==
    /\ sheet \in 0 .. MaxSheets
    /\ container \in Containers \cup {"closed"}
    /\ logLines \in LineCounts
    /\ isStreaming \in BOOLEAN /\ isLoadingLogs \in BOOLEAN
    /\ controller \in {None} \cup DOMAIN streams
    /\ streams \in Seq(SheetStream)
    /\ fetches \in Seq(SheetFetch)
    /\ View!ViewTypeOK

SheetInit ==
    /\ sheet = 0
    /\ container = "closed"
    /\ logLines = CHOOSE n \in LineCounts : TRUE
    /\ isStreaming = FALSE /\ isLoadingLogs = FALSE
    /\ controller = None
    /\ streams = << >> /\ fetches = << >>
    /\ lines = << >> /\ selectedLevels = {} /\ searchText = NoText
    /\ currentMatchIndex = 0
    /\ open = {}

IsOpen == container # "closed"

\* A stream or a fetch of the sheet that is on the screen; what others set is
\* the state of a component that is gone.
Mine(s) == IsOpen /\ s.sheet = sheet

-----------------------------------------------------------------------------
\* startStreaming up to its first await.
SheetStart(number, before) ==
    /\ Len(before) < MaxStreams
    /\ streams' = Append(before,
                         [pc |-> "opening", sheet |-> number, aborted |-> FALSE,
                          alone |-> \A j \in DOMAIN before :
                                       before[j].sheet = number => before[j].pc = "ended"])
    /\ controller' = Len(before) + 1
    /\ isStreaming' = TRUE
    /\ isLoadingLogs' = FALSE
    /\ lines' = << >>

\* stopStreaming.
SheetAborted ==
    IF controller = None THEN streams ELSE [streams EXCEPT ![controller].aborted = TRUE]

SheetStop ==
    /\ streams' = SheetAborted
    /\ controller' = None
    /\ isStreaming' = FALSE
    /\ UNCHANGED <<isLoadingLogs, lines>>

\* A sheet is mounted: everything is at its default and the effects run, the
\* one for isOpen and the one that follows the container.
OpenSheet(c) ==
    /\ ~IsOpen
    /\ sheet < MaxSheets
    /\ sheet' = sheet + 1
    /\ container' = c
    /\ logLines' = CHOOSE n \in LineCounts : TRUE
    /\ SheetStart(sheet + 1, streams)
    /\ selectedLevels' = {} /\ searchText' = NoText /\ currentMatchIndex' = 0
    /\ open' = {}
    /\ UNCHANGED fetches

\* The effect on container, isOpen and startStreaming: it closes the sections,
\* stops, clears and starts again.
SheetContainerChanges(c) ==
    /\ IsOpen /\ c # container
    /\ container' = c
    /\ open' = open \ {"labels", "environment"}
    /\ SheetStart(sheet, SheetAborted)
    /\ UNCHANGED <<sheet, logLines, fetches, reading>>

SheetChangeLines(n) ==
    /\ IsOpen /\ ~isStreaming
    /\ n # logLines
    /\ logLines' = n
    /\ open' = open \ {"labels", "environment"}
    /\ SheetStart(sheet, SheetAborted)
    /\ UNCHANGED <<sheet, container, fetches, reading>>

\* handleLogsSheetOpenChange of the dashboard unmounts the sheet.
CloseSheet ==
    /\ IsOpen
    /\ container' = "closed"
    /\ isStreaming' = FALSE /\ isLoadingLogs' = FALSE
    /\ controller' = None
    /\ lines' = << >>
    /\ UNCHANGED <<sheet, logLines, streams, fetches, reading, open>>

SheetToggleStream ==
    /\ IsOpen /\ ~(isLoadingLogs /\ ~isStreaming)
    /\ IF isStreaming THEN SheetStop ELSE SheetStart(sheet, streams)
    /\ UNCHANGED <<sheet, container, logLines, fetches, reading, open>>

\* handleRefresh and fetchLogs up to its await.
SheetRefresh ==
    /\ IsOpen /\ ~isStreaming /\ ~isLoadingLogs
    /\ Len(fetches) < MaxFetches
    /\ fetches' = Append(fetches, [pc |-> "asking", sheet |-> sheet])
    /\ isLoadingLogs' = TRUE
    /\ UNCHANGED <<sheet, container, logLines, isStreaming, controller, streams, lines,
                   reading, open>>

SheetLogsFetched(f, new) ==
    /\ fetches[f].pc = "asking"
    /\ fetches' = [fetches EXCEPT ![f].pc = "over"]
    /\ IF Mine(fetches[f])
       THEN lines' = new /\ isLoadingLogs' = FALSE
       ELSE UNCHANGED <<lines, isLoadingLogs>>
    /\ UNCHANGED <<sheet, container, logLines, isStreaming, controller, streams, reading,
                   open>>

-----------------------------------------------------------------------------
SheetStreamOpens(k) ==
    /\ streams[k].pc = "opening" /\ ~streams[k].aborted
    /\ streams' = [streams EXCEPT ![k].pc = "reading"]
    /\ UNCHANGED <<sheet, container, logLines, isStreaming, isLoadingLogs, controller,
                   fetches, lines, reading, open>>

\* A line is read; only the sheet that is mounted shows it.
SheetEntry(k, line) ==
    /\ streams[k].pc = "reading" /\ ~streams[k].aborted
    /\ Mine(streams[k])
    /\ UNCHANGED life
    /\ View!LineArrives(line)

\* The loop ends, with an exception or without; finally runs in both cases.
SheetStreamEnds(k, fails) ==
    /\ streams[k].pc = "reading" \/ (fails /\ streams[k].pc = "opening")
    /\ streams' = [streams EXCEPT ![k].pc = "ended"]
    /\ IF Mine(streams[k])
       THEN /\ isStreaming' = (isStreaming /\ ~fails)
            /\ isLoadingLogs' = FALSE
            /\ controller' = None
       ELSE UNCHANGED <<isStreaming, isLoadingLogs, controller>>
    /\ UNCHANGED <<sheet, container, logLines, fetches, lines, reading, open>>

-----------------------------------------------------------------------------
\* The sheet's copy of the view: the arrows, the search box, the filter, the
\* sections of its card, and its options.
SheetSearches ==
    /\ IsOpen
    /\ UNCHANGED life
    /\ \E text \in Texts \cup {NoText} : View!Search(text)

SheetMatchMoves ==
    /\ IsOpen
    /\ UNCHANGED life
    /\ View!GoToPreviousMatch \/ View!GoToNextMatch

SheetFilters ==
    /\ IsOpen
    /\ UNCHANGED life
    /\ View!ClearFilters \/ \E level \in Levels : View!ToggleLogLevel(level)

SheetSections ==
    /\ UNCHANGED life
    /\ \E s \in Sections \ {"terminal"} : View!ToggleSection(s)

SheetOptions ==
    /\ IsOpen
    /\ UNCHANGED life
    /\ \E s \in Sections : View!ToggleOption(s)

\* The table of lines.
SheetRows == IF IsOpen THEN View!Rows ELSE {}

SheetNext ==
    \/ \E c \in Containers : OpenSheet(c) \/ SheetContainerChanges(c)
    \/ \E n \in LineCounts : SheetChangeLines(n)
    \/ CloseSheet \/ SheetToggleStream \/ SheetRefresh
    \/ \E f \in DOMAIN fetches, line \in View!Line :
          SheetLogsFetched(f, << >>) \/ SheetLogsFetched(f, <<line>>)
    \/ \E k \in DOMAIN streams :
          \/ SheetStreamOpens(k)
          \/ \E line \in View!Line : SheetEntry(k, line)
          \/ \E fails \in BOOLEAN : SheetStreamEnds(k, fails)
    \/ SheetSearches \/ SheetMatchMoves \/ SheetFilters \/ SheetSections \/ SheetOptions

SheetSpec == SheetInit /\ [][SheetNext]_sheetVars

-----------------------------------------------------------------------------
Running(k) == streams[k].pc # "ended" /\ ~streams[k].aborted

\* Streams of sheets that were closed: nothing stops them any more.
LeftBehind == {k \in DOMAIN streams : Running(k) /\ ~Mine(streams[k])}

\* What LogStreaming says of the page, of a sheet: a running stream is either
\* left behind by a closed sheet, or the one that Stop stops, unless streams of
\* the sheet overlapped; and what is left behind never takes the reference of a
\* later sheet (containers-logs-sheet.tsx:147-191, 215-233).
SheetStoppable ==
    \A k \in DOMAIN streams :
        Running(k) =>
            \/ k \in LeftBehind /\ controller # k
            \/ Mine(streams[k]) /\ controller = k
            \/ \E j \in DOMAIN streams : streams[j].sheet = sheet /\ ~streams[j].alone
=============================================================================
