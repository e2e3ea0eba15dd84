----------------------------- MODULE TerminalPanel ----------------------------
(***************************************************************************)
(* The terminal of a container in the browser: the other end of            *)
(* TerminalSocket.  One component keeps one screen and, over its life,     *)
(* several sockets: it connects when it is mounted, when its container is  *)
(* replaced under it and when the user asks for it.  A cleanup closes the  *)
(* socket and unsubscribes from the keyboard, but leaves the socket's      *)
(* handlers: the end of a socket that is over is still told to the state   *)
(* of the next one.                                                        *)
(*                                                                         *)
(* Colours, focus, sizes, copying and scrolling are left out.              *)
(***************************************************************************)
EXTENDS Naturals, Sequences

CONSTANTS
    Containers,
    MaxSockets          \* bound

None == 0
Gone == "none"

VARIABLES
    containerId,        \* what it is mounted for, or Gone
    isConnected, isReconnecting,
    sockets,            \* of this component, one after the other
    cleanupRef,         \* the socket whose cleanup is kept, or None
    typed               \* a history: where the last key went, or None

terminalVars == <<containerId, isConnected, isReconnecting, sockets, cleanupRef, typed>>

\* listening: the keyboard is subscribed for it.  endedLate: a history, an
\* older socket ended after this one was made.
Socket == [of : Containers, pc : {"connecting", "open", "closing", "closed"},
           listening : BOOLEAN, endedLate : BOOLEAN]

TerminalTypeOK ==
    /\ containerId \in Containers \cup {Gone}
    /\ isConnected \in BOOLEAN /\ isReconnecting \in BOOLEAN
    /\ sockets \in Seq(Socket)
    /\ cleanupRef \in {None} \cup DOMAIN sockets
    /\ typed \in {None} \cup DOMAIN sockets

TerminalInit ==
    /\ containerId = Gone
    /\ isConnected = FALSE /\ isReconnecting = FALSE
    /\ sockets = << >> /\ cleanupRef = None /\ typed = None

Alive == {"connecting", "open"}

-----------------------------------------------------------------------------
\* cleanupRef.current(): of the sockets ss.
CleanedUp(ss) ==
    [i \in DOMAIN ss |->
        IF i # cleanupRef THEN ss[i]
        ELSE [ss[i] EXCEPT !.listening = FALSE,
                           !.pc = IF @ \in Alive THEN "closing" ELSE @]]

\* connect, for container c.
Connect(c) ==
    /\ Len(sockets) < MaxSockets
    /\ sockets' = Append(CleanedUp(sockets),
          [of |-> c, pc |-> "connecting", listening |-> TRUE, endedLate |-> FALSE])
    /\ cleanupRef' = Len(sockets) + 1
    /\ isReconnecting' = TRUE

Mount(c) ==
    /\ containerId = Gone /\ sockets = << >>
    /\ containerId' = c
    /\ Connect(c)
    /\ UNCHANGED <<isConnected, typed>>

\* The container gets another id: the effect's cleanup, which disposes of
\* the screen, and connect again.
ContainerReplaced(c) ==
    /\ containerId \in Containers \ {c}
    /\ containerId' = c
    /\ Connect(c)
    /\ UNCHANGED <<isConnected, typed>>

Unmount ==
    /\ containerId # Gone
    /\ containerId' = Gone
    /\ sockets' = CleanedUp(sockets)
    /\ cleanupRef' = None
    /\ UNCHANGED <<isConnected, isReconnecting, typed>>

\* handleReconnect; the button is disabled while either is set.
HandleReconnect ==
    /\ containerId # Gone
    /\ ~isReconnecting /\ ~isConnected
    /\ Connect(containerId)
    /\ UNCHANGED <<containerId, isConnected, typed>>

-----------------------------------------------------------------------------
(* The events of a socket.  Those of an unmounted component change only    *)
(* the socket.                                                             *)

Opens(i) ==
    /\ sockets[i].pc = "connecting"
    /\ sockets' = [sockets EXCEPT ![i].pc = "open"]
    /\ isConnected' = TRUE /\ isReconnecting' = FALSE
    /\ UNCHANGED <<containerId, cleanupRef, typed>>

\* onerror and onclose, or onclose alone: the server, the network, or the
\* handshake of the browser's own close.
Ends(i) ==
    /\ sockets[i].pc # "closed"
    /\ sockets' = [j \in DOMAIN sockets |->
          IF j = i THEN [sockets[j] EXCEPT !.pc = "closed"]
          ELSE [sockets[j] EXCEPT !.endedLate = @ \/ j > i]]
    /\ IF containerId # Gone THEN isConnected' = FALSE /\ isReconnecting' = FALSE
                             ELSE UNCHANGED <<isConnected, isReconnecting>>
    /\ UNCHANGED <<containerId, cleanupRef, typed>>

\* A key, to every subscriber whose socket is open; that there is one at
\* most is OneTerminal's.
TypeKey ==
    /\ \E i \in DOMAIN sockets :
          /\ sockets[i].listening /\ sockets[i].pc = "open"
          /\ typed' = i
    /\ UNCHANGED <<containerId, isConnected, isReconnecting, sockets, cleanupRef>>

TerminalNext ==
    \/ Unmount \/ HandleReconnect \/ TypeKey
    \/ \E c \in Containers : Mount(c) \/ ContainerReplaced(c)
    \/ \E i \in DOMAIN sockets : Opens(i) \/ Ends(i)

TerminalSpec == TerminalInit /\ [][TerminalNext]_terminalVars

-----------------------------------------------------------------------------
\* However often the container is replaced, the connection breaks and the
\* user reconnects, there is one terminal: only the socket whose cleanup is
\* kept is connecting, open or listening, it is of the container shown, and
\* nothing is left when the component is gone (connect, useEffect).
OneTerminal ==
    \A i \in DOMAIN sockets :
        sockets[i].pc \in Alive \/ sockets[i].listening =>
            i = cleanupRef /\ sockets[i].of = containerId

\* The status tells what the socket is, unless an older socket ended late:
\* green means that one can type, and grey that one can reconnect
\* (onopen, onclose).
StatusIsOfTheSocket ==
    containerId # Gone =>
        /\ isReconnecting => sockets[cleanupRef].pc = "connecting"
        /\ isConnected => \E i \in DOMAIN sockets : sockets[i].pc \in {"open", "closing"}
        /\ sockets[cleanupRef].pc = "open" /\ ~sockets[cleanupRef].endedLate => isConnected
===============================================================================
