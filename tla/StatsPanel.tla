------------------------------- MODULE StatsPanel ------------------------------
(***************************************************************************)
(* The live statistics of a container: the hook useContainerStats, the     *)
(* other end of StatsSocket, in the details sheet, which runs it while its *)
(* first tab is chosen and has a button that connects and disconnects.     *)
(* The two cards that use the hook too are on no page.                     *)
(*                                                                         *)
(* connect looks only whether the socket it knows is open: one that is     *)
(* still connecting is forgotten, and nothing closes it any more           *)
(* (forgotten).  Sockets keep their handlers when they are closed.  What a *)
(* sample says is left out, and so are the averages of the server and the  *)
(* persisted samples that the chart merges in by their times.              *)
(***************************************************************************)
EXTENDS Naturals, Sequences

CONSTANTS
    Containers,
    HistoryLength,
    MaxSockets          \* bound

None == 0
Gone == "none"

VARIABLES
    shown,              \* the container the hook runs for, or Gone
    enabled,            \* the tab is the statistics'
    isConnected, error,
    history,            \* the containers of the samples kept
    wsRef,              \* a socket, or None
    sockets

statsVars == <<shown, enabled, isConnected, error, history, wsRef, sockets>>

\* forgotten: connect replaced it in wsRef while it was connecting.
Socket == [of : Containers, pc : {"connecting", "open", "closing", "aborting", "closed"},
           forgotten : BOOLEAN]

StatsTypeOK ==
    /\ shown \in Containers \cup {Gone}
    /\ enabled \in BOOLEAN /\ isConnected \in BOOLEAN /\ error \in BOOLEAN
    /\ history \in Seq(Containers) /\ Len(history) <= HistoryLength
    /\ sockets \in Seq(Socket)
    /\ wsRef \in {None} \cup DOMAIN sockets

StatsInit ==
    /\ shown = Gone /\ enabled = FALSE
    /\ isConnected = FALSE /\ error = FALSE
    /\ history = << >> /\ wsRef = None /\ sockets = << >>

Alive == {"connecting", "open"}

-----------------------------------------------------------------------------
New(c) == [of |-> c, pc |-> "connecting", forgotten |-> FALSE]

\* disconnect: close() of one that is not open yet fails it.
Disconnected ==
    IF wsRef = None THEN sockets
    ELSE [sockets EXCEPT ![wsRef].pc = CASE @ = "connecting" -> "aborting"
                                         [] @ = "open" -> "closing"
                                         [] OTHER -> @]

\* The effect, when what it depends on changes: its cleanup, disconnect,
\* and connect when it is on.
Effect(on, c) ==
    /\ sockets' = IF on THEN Append(Disconnected, New(c)) ELSE Disconnected
    /\ wsRef' = IF on THEN Len(sockets) + 1 ELSE None
    /\ isConnected' = FALSE
    /\ Len(sockets') <= MaxSockets

Mount(c) ==
    /\ shown = Gone /\ sockets = << >>
    /\ shown' = c
    /\ enabled' = TRUE
    /\ Effect(TRUE, c)
    /\ UNCHANGED <<error, history>>

\* What is kept of the samples is not cleared.
ContainerReplaced(c) ==
    /\ shown \in Containers \ {c}
    /\ shown' = c
    /\ Effect(enabled, c)
    /\ UNCHANGED <<enabled, error, history>>

SelectTab ==
    /\ shown # Gone
    /\ enabled' = ~enabled
    /\ Effect(~enabled, shown)
    /\ UNCHANGED <<shown, error, history>>

Unmount ==
    /\ shown # Gone
    /\ shown' = Gone
    /\ sockets' = Disconnected
    /\ wsRef' = None
    /\ UNCHANGED <<enabled, isConnected, error, history>>

\* connect by hand, which forgets a socket that is not open yet.
IsOpen == wsRef # None /\ sockets[wsRef].pc = "open"
Forgotten ==
    [i \in DOMAIN sockets |->
        [sockets[i] EXCEPT !.forgotten = @ \/ (i = wsRef /\ sockets[i].pc = "connecting")]]
Connect ==
    IF IsOpen THEN UNCHANGED <<sockets, wsRef>>
    ELSE /\ Len(sockets) < MaxSockets
         /\ sockets' = Append(Forgotten, New(shown))
         /\ wsRef' = Len(sockets) + 1

\* handleToggleStats.
HandleToggleStats ==
    /\ shown # Gone /\ enabled
    /\ IF isConnected
       THEN /\ sockets' = Disconnected
            /\ wsRef' = None /\ isConnected' = FALSE
            /\ UNCHANGED history
       ELSE /\ history' = << >>
            /\ Connect
            /\ UNCHANGED isConnected
    /\ UNCHANGED <<shown, enabled, error>>

-----------------------------------------------------------------------------
(* The events of a socket; those of an unmounted hook change only it.      *)

Opens(i) ==
    /\ sockets[i].pc = "connecting"
    /\ sockets' = [sockets EXCEPT ![i].pc = "open"]
    /\ IF shown = Gone THEN UNCHANGED <<isConnected, error>>
                       ELSE isConnected' = TRUE /\ error' = FALSE
    /\ UNCHANGED <<shown, enabled, history, wsRef>>

Newest(s) == IF Len(s) > HistoryLength THEN Tail(s) ELSE s
Sample(i) ==
    /\ sockets[i].pc = "open" /\ shown # Gone
    /\ history' = Newest(Append(history, sockets[i].of))
    /\ UNCHANGED <<shown, enabled, isConnected, error, wsRef, sockets>>

\* onerror, when it fails, and onclose.
Ends(i) ==
    /\ sockets[i].pc # "closed"
    /\ sockets' = [sockets EXCEPT ![i].pc = "closed"]
    /\ IF shown = Gone THEN UNCHANGED <<isConnected, error>>
       ELSE /\ isConnected' = FALSE
            /\ \/ error' = TRUE
               \/ sockets[i].pc \in {"open", "closing"} /\ UNCHANGED error
    /\ UNCHANGED <<shown, enabled, history, wsRef>>

StatsNext ==
    \/ SelectTab \/ Unmount \/ HandleToggleStats
    \/ \E c \in Containers : Mount(c) \/ ContainerReplaced(c)
    \/ \E i \in DOMAIN sockets : Opens(i) \/ Sample(i) \/ Ends(i)

StatsSpec == StatsInit /\ [][StatsNext]_statsVars

-----------------------------------------------------------------------------
\* A socket that is connecting or open is the one in wsRef - of the
\* container shown - unless connect forgot it while it was connecting: only
\* an impatient user leaves a stream of statistics behind, not a tab,
\* a container or a sheet that is left (connect, disconnect).
StatsStayInReach ==
    \A i \in DOMAIN sockets : sockets[i].pc \in Alive =>
        \/ sockets[i].forgotten
        \/ i = wsRef /\ sockets[i].of = shown

\* "Live" is told of an open socket (onopen, onclose, disconnect).
LiveIsOpen ==
    isConnected /\ shown # Gone => \E i \in DOMAIN sockets : sockets[i].pc = "open"
===============================================================================
