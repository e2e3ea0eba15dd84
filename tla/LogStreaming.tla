---------------------------- MODULE LogStreaming -----------------------------
(***************************************************************************)
(* How the logs page of one container follows its log.  The page keeps one *)
(* reference to an abort controller; every stream that is opened stores    *)
(* its own there, and every stream that ends, whichever it is, clears the  *)
(* reference.  A stream is opened by the button, by the effect that        *)
(* follows the container and the number of lines, and by the handler of a  *)
(* container that was recreated, whose closure is older than its effects.  *)
(*                                                                         *)
(* A container is replaced under its name by its next incarnation.  An     *)
(* entry is known by who delivered it: <<"stream", k>> or <<"fetch", k>>.  *)
(***************************************************************************)
EXTENDS Naturals, Sequences

CONSTANTS
    LineCounts,         \* what the user types into "Lines"
    MaxIncarnations, MaxStreams, MaxFetches, MaxLogs    \* bounds

None == 0
Incarnations == 1 .. MaxIncarnations

VARIABLES
    actual,         \* the incarnation that exists at the host
    listed,         \* the one the page's ["containers"] query holds, or None
    mounted,        \* the page is open
    logLines,
    isStreaming,
    isLoadingLogs,
    logs,
    controller,     \* abortControllerRef.current: a stream's number, or None
    streams,        \* every stream opened so far
    fetches,        \* every getContainerLogsParsed call so far
    recreated       \* handleContainerRecreated, between its awaits

vars == <<actual, listed, mounted, logLines, isStreaming, isLoadingLogs, logs,
          controller, streams, fetches, recreated>>

Stream == [pc : {"opening", "reading", "ended"}, of : Incarnations, aborted : BOOLEAN,
           alone : BOOLEAN]    \* alone, a history: no other was running when it started
Fetch == [pc : {"asking", "over"}, of : Incarnations]
Entries == ({"stream"} \X (1 .. MaxStreams)) \cup ({"fetch"} \X (1 .. MaxFetches))

TypeOK ==
    /\ actual \in Incarnations
    /\ listed \in Incarnations \cup {None}
    /\ mounted \in BOOLEAN
    /\ logLines \in LineCounts
    /\ isStreaming \in BOOLEAN
    /\ isLoadingLogs \in BOOLEAN
    /\ logs \in Seq(Entries)
    /\ controller \in {None} \cup DOMAIN streams
    /\ streams \in Seq(Stream)
    /\ fetches \in Seq(Fetch)
    /\ recreated \in [pc : {"no", "refetching", "waiting"},
                      of : Incarnations \cup {None}, streaming : BOOLEAN]

NotRecreating == [pc |-> "no", of |-> None, streaming |-> FALSE]

\* The page as it is rendered first, before the containers are known: the
\* effect has run without a host and opened nothing.
Init ==
    /\ actual = 1
    /\ listed = None
    /\ mounted = TRUE
    /\ logLines \in LineCounts
    /\ isStreaming = FALSE
    /\ isLoadingLogs = FALSE
    /\ logs = << >>
    /\ controller = None
    /\ streams = << >>
    /\ fetches = << >>
    /\ recreated = NotRecreating

-----------------------------------------------------------------------------
\* startStreaming up to its first await, with the container of the closure it
\* runs in, over the streams as an earlier step of the same handler left them.
Start(of, before) ==
    IF of = None
    THEN /\ streams' = before
         /\ UNCHANGED <<isStreaming, isLoadingLogs, logs, controller>>
    ELSE /\ Len(before) < MaxStreams
         /\ streams' = Append(before, [pc |-> "opening", of |-> of, aborted |-> FALSE,
                                       alone |-> \A j \in DOMAIN before :
                                                    before[j].pc = "ended"])
         /\ controller' = Len(before) + 1
         /\ isStreaming' = TRUE
         /\ isLoadingLogs' = FALSE
         /\ logs' = << >>

\* Fault: the stream is forgotten and not aborted.
ForgottenOnly == streams

\* stopStreaming: what becomes of the streams, and of the rest.
Aborted ==
    IF controller = None THEN streams ELSE [streams EXCEPT ![controller].aborted = TRUE]

Stop ==
    /\ streams' = Aborted
    /\ controller' = None
    /\ isStreaming' = FALSE
    /\ UNCHANGED <<isLoadingLogs, logs>>

\* fetchLogs up to its await, with the container of the closure.
AskLogs(of) ==
    IF of = None
    THEN UNCHANGED <<isLoadingLogs, fetches>>
    ELSE /\ Len(fetches) < MaxFetches
         /\ fetches' = Append(fetches, [pc |-> "asking", of |-> of])
         /\ isLoadingLogs' = TRUE

\* The effect on [startStreaming, stopStreaming]: what it depends on has
\* changed, so the cleanup stops and the effect starts again.
Restart(of) ==
    IF of = None THEN Stop ELSE Start(of, Aborted)

-----------------------------------------------------------------------------
\* The list of containers arrives, first or refetched; the page finds its
\* container by name.
Relist ==
    /\ mounted
    /\ listed # actual
    /\ listed' = actual
    /\ Restart(actual)
    /\ UNCHANGED <<actual, mounted, logLines, fetches, recreated>>

\* handleLogLinesChange; the input is disabled while isStreaming.
ChangeLines(n) ==
    /\ mounted /\ ~isStreaming
    /\ n # logLines
    /\ logLines' = n
    /\ Restart(listed)
    /\ UNCHANGED <<actual, listed, mounted, fetches, recreated>>

\* handleToggleStream; the button is disabled while logs load without a stream.
ToggleStream ==
    /\ mounted /\ ~(isLoadingLogs /\ ~isStreaming)
    /\ IF isStreaming THEN Stop ELSE Start(listed, streams)
    /\ UNCHANGED <<actual, listed, mounted, logLines, fetches, recreated>>

\* handleRefresh, behind a button that is disabled while streaming or loading.
Refresh ==
    /\ mounted /\ ~isStreaming /\ ~isLoadingLogs
    /\ AskLogs(listed)
    /\ UNCHANGED <<actual, listed, mounted, logLines, isStreaming, logs, controller,
                   streams, recreated>>

\* The user leaves the page: the effect's cleanup.
Leave ==
    /\ mounted
    /\ mounted' = FALSE
    /\ Stop
    /\ UNCHANGED <<actual, listed, logLines, fetches, recreated>>

\* The answer of fetchLogs replaces whatever the page shows by then.
LogsFetched(f, ok) ==
    /\ fetches[f].pc = "asking"
    /\ fetches' = [fetches EXCEPT ![f].pc = "over"]
    /\ logs' = IF ok THEN <<<<"fetch", f>>>> ELSE << >>
    /\ isLoadingLogs' = FALSE
    /\ UNCHANGED <<actual, listed, mounted, logLines, isStreaming, controller, streams,
                   recreated>>

-----------------------------------------------------------------------------
\* The stream's response: only an opening that was not aborted succeeds.
StreamOpens(k) ==
    /\ streams[k].pc = "opening" /\ ~streams[k].aborted
    /\ streams' = [streams EXCEPT ![k].pc = "reading"]
    /\ UNCHANGED <<actual, listed, mounted, logLines, isStreaming, isLoadingLogs, logs,
                   controller, fetches, recreated>>

\* One parsed line reaches the loop of startStreaming.
StreamEntry(k) ==
    /\ streams[k].pc = "reading" /\ ~streams[k].aborted
    /\ Len(logs) < MaxLogs
    /\ logs' = Append(logs, <<"stream", k>>)
    /\ UNCHANGED <<actual, listed, mounted, logLines, isStreaming, isLoadingLogs,
                   controller, streams, fetches, recreated>>

\* finally: of whichever stream, and whatever the reference holds by then.
Finally(k) ==
    /\ streams' = [streams EXCEPT ![k].pc = "ended"]
    /\ isLoadingLogs' = FALSE
    /\ controller' = None

\* The loop ends without an exception: the server closed the stream, or the
\* signal was found aborted before the next read or with a line in hand.
StreamCloses(k) ==
    /\ streams[k].pc = "reading"
    /\ Finally(k)
    /\ UNCHANGED <<actual, listed, mounted, logLines, isStreaming, logs, fetches, recreated>>

\* catch: the request or a read failed, by an abort too.
StreamFails(k) ==
    /\ streams[k].pc \in {"opening", "reading"}
    /\ isStreaming' = FALSE
    /\ Finally(k)
    /\ UNCHANGED <<actual, listed, mounted, logLines, logs, fetches, recreated>>

-----------------------------------------------------------------------------
\* The server replaces the container to change its environment.
Recreate ==
    /\ actual < MaxIncarnations
    /\ actual' = actual + 1
    /\ UNCHANGED <<listed, mounted, logLines, isStreaming, isLoadingLogs, logs, controller,
                   streams, fetches, recreated>>

\* handleContainerRecreated is called by the saved form and awaits the list;
\* the closure is that of the present render.
RecreatedNotice ==
    /\ mounted /\ listed # None
    /\ recreated.pc = "no" /\ actual > 1
    /\ recreated' = [pc |-> "refetching", of |-> listed, streaming |-> isStreaming]
    /\ UNCHANGED <<actual, listed, mounted, logLines, isStreaming, isLoadingLogs, logs,
                   controller, streams, fetches>>

\* The list has been fetched; the effect for it may have run, or not yet.
RecreatedListed ==
    /\ recreated.pc = "refetching"
    /\ IF recreated.streaming
       THEN /\ recreated' = [recreated EXCEPT !.pc = "waiting"]
            /\ Stop
            /\ UNCHANGED fetches
       ELSE /\ recreated' = NotRecreating
            /\ AskLogs(recreated.of)
            /\ UNCHANGED <<isStreaming, logs, controller, streams>>
    /\ UNCHANGED <<actual, listed, mounted, logLines>>

\* 100 ms later it starts streaming, as its closure knows the container.
RecreatedRestarts ==
    /\ recreated.pc = "waiting"
    /\ recreated' = NotRecreating
    /\ Start(recreated.of, streams)
    /\ UNCHANGED <<actual, listed, mounted, logLines, fetches>>

StreamSteps(k) ==
    StreamOpens(k) \/ StreamEntry(k) \/ StreamCloses(k) \/ StreamFails(k)

Next ==
    \/ Relist \/ ToggleStream \/ Refresh \/ Leave
    \/ \E n \in LineCounts : ChangeLines(n)
    \/ \E f \in DOMAIN fetches, ok \in BOOLEAN : LogsFetched(f, ok)
    \/ \E k \in DOMAIN streams : StreamSteps(k)
    \/ Recreate \/ RecreatedNotice \/ RecreatedListed \/ RecreatedRestarts

Spec == Init /\ [][Next]_vars

-----------------------------------------------------------------------------
Live(k) == streams[k].pc # "ended" /\ ~streams[k].aborted

\* As long as no stream was started while an older one was still running or
\* ending, what runs is what Stop stops; every ending stream clears the
\* reference and every starting one takes it (logs.tsx:190, logs.tsx:219).
StoppableUnlessOverlapped ==
    \A k \in DOMAIN streams :
        Live(k) /\ controller # k => \E j \in DOMAIN streams : ~streams[j].alone

\* The spinner and the disabled buttons do not outlast the request they wait
\* for, although streams and fetches set one flag (logs.tsx:163-224).
LoadingIsAsked ==
    isLoadingLogs => \E f \in DOMAIN fetches : fetches[f].pc = "asking"
=============================================================================
