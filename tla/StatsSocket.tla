----------------------------- MODULE StatsSocket -----------------------------
(***************************************************************************)
(* One connection that streams a container's statistics to a browser: the  *)
(* goroutine that reads them from Docker (internal/docker/stats.go), the   *)
(* one that relays them under a lease on the Docker client                 *)
(* (internal/services/registry.go), the handler (internal/api/stats_ws.go) *)
(* and the goroutine that only waits for the browser to leave.             *)
(*                                                                         *)
(* A channel without a buffer passes a sample when its sender and its      *)
(* receiver meet; the channels for errors hold one.  A sender closes its   *)
(* channel for errors before the one for samples.                          *)
(*                                                                         *)
(* Operators marked "Fault" are plausible mistakes in the operator that    *)
(* follows them; no action uses them.                                      *)
(***************************************************************************)

VARIABLES
    source, sourceError, \* the reader of Docker's stream, its channel for errors
    relay, relayError,   \* the relay and its channel for errors
    hears,               \* the channels the relay still selects on
    handler, watch,      \* the handler, the goroutine that waits for the browser
    browser,             \* "open", "gone"
    cancelled, leased    \* the request's context; the lease

vars == <<source, sourceError, relay, relayError, hears, handler, watch, browser, cancelled, leased>>

Closing == {"closing", "errors closed", "closed"}

Init ==
    /\ source = "reading" /\ sourceError = "none"
    /\ relay = "selecting" /\ relayError = "none"
    /\ hears = {"samples", "errors"}
    /\ handler = "selecting"
    /\ watch = "reading"
    /\ browser = "open"
    /\ cancelled = FALSE
    /\ leased = TRUE

-----------------------------------------------------------------------------
(* docker.StreamContainerStats.                                            *)

\* The host is unknown, Docker refuses, the stream breaks or is cancelled.
SourceFails ==
    /\ source = "reading"
    /\ source' = "closing"
    /\ sourceError' = "error"
    /\ UNCHANGED <<relay, relayError, hears, handler, watch, browser, cancelled, leased>>

ReadSample ==
    /\ source = "reading"
    /\ source' \in {"sending", "closing"}
    /\ UNCHANGED <<sourceError, relay, relayError, hears, handler, watch, browser, cancelled, leased>>

SourceCancelled ==
    /\ cancelled
    /\ source \in {"reading", "sending"}
    /\ source' = "closing"
    /\ UNCHANGED <<sourceError, relay, relayError, hears, handler, watch, browser, cancelled, leased>>

CloseSource ==
    /\ \/ source = "closing" /\ source' = "errors closed"
       \/ source = "errors closed" /\ source' = "closed"
    /\ UNCHANGED <<sourceError, relay, relayError, hears, handler, watch, browser, cancelled, leased>>

-----------------------------------------------------------------------------
(* Registry.StreamContainerStats.                                          *)

RelaySample ==
    /\ relay = "selecting"
    /\ source = "sending"
    /\ "samples" \in hears
    /\ relay' = "sending"
    /\ source' = "reading"
    /\ UNCHANGED <<sourceError, relayError, hears, handler, watch, browser, cancelled, leased>>

RelayError ==
    /\ relay = "selecting"
    /\ sourceError = "error"
    /\ "errors" \in hears
    /\ sourceError' = "none"
    /\ relayError' = "error"
    /\ relay' = "closing"
    /\ UNCHANGED <<source, hears, handler, watch, browser, cancelled, leased>>

\* A closed channel is set to nil; without channels the loop ends.
StopHearing ==
    /\ relay = "selecting"
    /\ \/ source = "closed" /\ hears' = hears \ {"samples"}
       \/ source \in {"errors closed", "closed"} /\ sourceError = "none" /\ hears' = hears \ {"errors"}
    /\ hears' # hears
    /\ relay' = IF hears' = {} THEN "closing" ELSE relay
    /\ UNCHANGED <<source, sourceError, relayError, handler, watch, browser, cancelled, leased>>


RelayCancelled ==
    /\ cancelled
    /\ relay \in {"selecting", "sending"}
    /\ relay' = "closing"
    /\ UNCHANGED <<source, sourceError, relayError, hears, handler, watch, browser, cancelled, leased>>

\* The deferred calls: the two channels, then the lease.
CloseRelay ==
    /\ \/ relay = "closing" /\ relay' = "errors closed" /\ UNCHANGED leased
       \/ relay = "errors closed" /\ relay' = "closed" /\ UNCHANGED leased
       \/ relay = "closed" /\ leased /\ leased' = FALSE /\ UNCHANGED relay
    /\ UNCHANGED <<source, sourceError, relayError, hears, handler, watch, browser, cancelled>>

-----------------------------------------------------------------------------
(* HandleContainerStats.  Its return closes the socket and cancels the     *)
(* context.                                                                *)

Return ==
    /\ handler' = "returned"
    /\ cancelled' = TRUE

\* A write to a browser that has gone fails sooner or later.
WriteSample ==
    /\ handler = "selecting"
    /\ relay = "sending"
    /\ relay' = "selecting"
    /\ \/ UNCHANGED <<handler, cancelled>>
       \/ browser = "gone" /\ Return
    /\ UNCHANGED <<source, sourceError, relayError, hears, watch, browser, leased>>

\* The error is written to the browser, if the select takes it.
TakeError ==
    /\ handler = "selecting"
    /\ relayError = "error" \/ relay \in {"errors closed", "closed"}
    /\ relayError' = "none"
    /\ Return
    /\ UNCHANGED <<source, sourceError, relay, hears, watch, browser, leased>>

\* The samples' channel is closed, the browser has gone, a ping fails.
LeaveLoop ==
    /\ handler = "selecting"
    /\ relay = "closed" \/ watch = "ended" \/ browser = "gone"
    /\ Return
    /\ UNCHANGED <<source, sourceError, relay, relayError, hears, watch, browser, leased>>

\* Pongs move the deadline of the read while the browser answers.
EndWatch ==
    /\ watch = "reading"
    /\ browser = "gone" \/ handler = "returned"
    /\ watch' = "ended"
    /\ UNCHANGED <<source, sourceError, relay, relayError, hears, handler, browser, cancelled, leased>>

Leave ==
    /\ browser = "open"
    /\ browser' = "gone"
    /\ UNCHANGED <<source, sourceError, relay, relayError, hears, handler, watch, cancelled, leased>>

-----------------------------------------------------------------------------
Source == SourceFails \/ ReadSample \/ CloseSource
Relay == RelaySample \/ RelayError \/ StopHearing \/ CloseRelay
Handler == WriteSample \/ TakeError
Next ==
    \/ Source \/ SourceCancelled
    \/ Relay \/ RelayCancelled
    \/ Handler \/ LeaveLoop
    \/ EndWatch \/ Leave

Spec == Init /\ [][Next]_vars

\* The goroutines run.  A select that finds a case ready again and again takes
\* it.  Docker may say nothing for ever, so that reading need not end.
Fairness ==
    /\ WF_vars(CloseSource) /\ SF_vars(SourceCancelled)
    /\ WF_vars(Relay) /\ SF_vars(RelayCancelled)
    /\ WF_vars(Handler) /\ SF_vars(LeaveLoop)
    /\ WF_vars(EndWatch)

FairSpec == Spec /\ Fairness

-----------------------------------------------------------------------------
TypeOK ==
    /\ source \in {"reading", "sending"} \cup Closing
    /\ sourceError \in {"none", "error"}
    /\ relay \in {"selecting", "sending"} \cup Closing
    /\ relayError \in {"none", "error"}
    /\ hears \subseteq {"samples", "errors"}
    /\ handler \in {"selecting", "returned"}
    /\ watch \in {"reading", "ended"}
    /\ browser \in {"open", "gone"}
    /\ cancelled \in BOOLEAN
    /\ leased \in BOOLEAN

(***************************************************************************)
(* Whichever side ends first, all goroutines of the connection end and the *)
(* lease is returned, which the next swap of the Docker client waits for   *)
(* (registry.go:100-130, stats_ws.go:58-107, stats.go:60-105).             *)
(***************************************************************************)
StreamEnds ==
    (browser = "gone" \/ source = "closed" \/ handler = "returned")
        ~> /\ handler = "returned" /\ watch = "ended"
           /\ source = "closed" /\ relay = "closed" /\ ~leased
=============================================================================
