--------------------------- MODULE TerminalSocket ---------------------------
(***************************************************************************)
(* One terminal: internal/api/terminal.go, over the exec session of        *)
(* internal/docker/exec.go.  A goroutine carries the shell's output to the *)
(* browser, one carries the browser's input to the shell, one sends pings, *)
(* and the handler waits for the first of them.                            *)
(*                                                                         *)
(* What the input goroutine closes when it ends is an io.NopCloser around  *)
(* the connection, so the connection stays as it is.                       *)
(*                                                                         *)
(* The handler leases the Docker client to open the session and the input  *)
(* goroutine to resize it, never for the session itself.                   *)
(*                                                                         *)
(* Operators marked "Fault" are plausible mistakes in the operator that    *)
(* follows them; no action uses them.                                      *)
(***************************************************************************)

VARIABLES
    handler,             \* HandleTerminal
    output, input, ping, \* the goroutines
    browser, shell,      \* who is still there
    connection,          \* to the shell: "none", "open", "closed"
    leases               \* who holds a lease

vars == <<handler, output, input, ping, browser, shell, connection, leases>>

Init ==
    /\ handler = "opening"
    /\ output = "none" /\ input = "none" /\ ping = "none"
    /\ browser = "open"
    /\ shell = "none"
    /\ connection = "none"
    /\ leases = {}

-----------------------------------------------------------------------------
(* startExecSession.                                                       *)

Acquire ==
    /\ handler = "opening"
    /\ leases = {}
    /\ leases' = {"handler"}
    /\ UNCHANGED <<handler, output, input, ping, browser, shell, connection>>

\* Without a client, an exec or an attachment the browser is sent an error.
OpenFails ==
    /\ handler = "opening"
    /\ handler' = "returned"
    /\ leases' = {}
    /\ UNCHANGED <<output, input, ping, browser, shell, connection>>

\* Fault: the lease stays until the handler returns.
OpenKeepingLease ==
    /\ handler = "opening"
    /\ leases = {"handler"}
    /\ handler' = "waiting"
    /\ connection' = "open"
    /\ shell' = "runs"
    /\ output' = "reading" /\ input' = "reading" /\ ping' = "ticking"
    /\ UNCHANGED <<browser, leases>>

Open ==
    /\ handler = "opening"
    /\ leases = {"handler"}
    /\ leases' = {}
    /\ handler' = "waiting"
    /\ connection' = "open"
    /\ shell' = "runs"
    /\ output' = "reading" /\ input' = "reading" /\ ping' = "ticking"
    /\ UNCHANGED browser

-----------------------------------------------------------------------------
(* streamContainerOutput.                                                  *)

\* What is read is written before an error of the read is looked at.
ReadOutput ==
    /\ output = "reading"
    /\ shell = "runs"
    /\ connection = "open"
    /\ output' = "writing"
    /\ UNCHANGED <<handler, input, ping, browser, shell, connection, leases>>

WriteOutput ==
    /\ output = "writing"
    /\ output' = "reading"
    /\ UNCHANGED <<handler, input, ping, browser, shell, connection, leases>>

\* A write to a browser that has gone fails sooner or later: after a cut of the
\* network the socket's buffer still takes some.
WriteFails ==
    /\ output = "writing"
    /\ browser = "gone"
    /\ output' = "ended"
    /\ UNCHANGED <<handler, input, ping, browser, shell, connection, leases>>

EndOutput ==
    /\ output = "reading"
    /\ shell = "exited" \/ connection = "closed"
    /\ output' = "ended"
    /\ UNCHANGED <<handler, input, ping, browser, shell, connection, leases>>

-----------------------------------------------------------------------------
(* forwardClientInput.                                                     *)

ReadInput ==
    /\ input = "reading"
    /\ browser = "open"
    /\ handler = "waiting"
    /\ \/ input' = "writing" /\ UNCHANGED leases
       \/ input' = "resizing" /\ leases' = leases \cup {"input"}
       \/ input' = "reading" /\ UNCHANGED leases
    /\ UNCHANGED <<handler, output, ping, browser, shell, connection>>

Resize ==
    /\ input = "resizing"
    /\ input' = "reading"
    /\ leases' = leases \ {"input"}
    /\ UNCHANGED <<handler, output, ping, browser, shell, connection>>

WriteInput ==
    /\ input = "writing"
    /\ input' = IF connection = "open" /\ shell = "runs" THEN "reading" ELSE "ended"
    /\ UNCHANGED <<handler, output, ping, browser, shell, connection, leases>>

\* The browser is gone when it is closed or misses its pongs.
EndInput ==
    /\ input = "reading"
    /\ browser = "gone" \/ handler = "returned"
    /\ input' = "ended"
    /\ UNCHANGED <<handler, output, ping, browser, shell, connection, leases>>

-----------------------------------------------------------------------------
(* The pings, the handler's return, and the world.                         *)

EndPing ==
    /\ ping = "ticking"
    /\ output = "ended" \/ browser = "gone"
    /\ ping' = "ended"
    /\ UNCHANGED <<handler, output, input, browser, shell, connection, leases>>

\* Fault: the handler waits for both goroutines.
ReturnAfterBoth ==
    /\ handler = "waiting"
    /\ output = "ended" /\ input = "ended"
    /\ handler' = "returned"
    /\ connection' = "closed"
    /\ UNCHANGED <<output, input, ping, browser, shell, leases>>

\* done is closed: the deferred calls close the connection and the socket.
Return ==
    /\ handler = "waiting"
    /\ output = "ended"
    /\ handler' = "returned"
    /\ connection' = "closed"
    /\ UNCHANGED <<output, input, ping, browser, shell, leases>>

Leave ==
    /\ browser = "open"
    /\ browser' = "gone"
    /\ UNCHANGED <<handler, output, input, ping, shell, connection, leases>>

Exit ==
    /\ shell = "runs"
    /\ shell' = "exited"
    /\ UNCHANGED <<handler, output, input, ping, browser, connection, leases>>

-----------------------------------------------------------------------------
Work ==
    \/ Acquire \/ OpenFails \/ WriteOutput \/ WriteFails \/ EndOutput
    \/ Resize \/ WriteInput \/ EndInput \/ EndPing \/ Return

Next == Work \/ Open \/ ReadOutput \/ ReadInput \/ Leave \/ Exit

Spec == Init /\ [][Next]_vars

\* Calls to Docker have an end, the shell reads its input or exits, and nobody
\* types or prints for ever without the others getting their turn.  Who writes
\* again and again to a browser that has gone learns of it.
Fairness ==
    /\ WF_vars(Acquire \/ OpenFails) /\ WF_vars(WriteOutput) /\ SF_vars(WriteFails)
    /\ SF_vars(EndOutput)
    /\ WF_vars(Resize) /\ WF_vars(WriteInput) /\ SF_vars(EndInput)
    /\ WF_vars(EndPing) /\ WF_vars(Return)

FairSpec == Spec /\ Fairness

-----------------------------------------------------------------------------
TypeOK ==
    /\ handler \in {"opening", "waiting", "returned"}
    /\ output \in {"none", "reading", "writing", "ended"}
    /\ input \in {"none", "reading", "writing", "resizing", "ended"}
    /\ ping \in {"none", "ticking", "ended"}
    /\ browser \in {"open", "gone"}
    /\ shell \in {"none", "runs", "exited"}
    /\ connection \in {"none", "open", "closed"}
    /\ leases \in {{}, {"handler"}, {"input"}}

Ended ==
    /\ handler = "returned"
    /\ {output, input, ping} \subseteq {"none", "ended"}
    /\ connection # "open"
    /\ leases = {}

(***************************************************************************)
(* When the shell exits, every goroutine of the terminal ends, the         *)
(* connection to the shell is closed and no lease is kept                  *)
(* (terminal.go:55-101, 126-193); and so it is when the browser leaves,    *)
(* unless the shell falls silent for good, at once or after some output    *)
(* that the socket still took.  Such a shell keeps its handler, its        *)
(* session and its connection: the input goroutine closes nothing.         *)
(***************************************************************************)
Silent == output = "reading" /\ shell = "runs"

TerminalEnds ==
    /\ shell = "exited" ~> Ended
    /\ browser = "gone" ~> (Ended \/ []Silent)
=============================================================================
