------------------------------ MODULE DiscordBot ------------------------------
(***************************************************************************)
(* The Discord half of internal/bot: a goroutine that keeps a connection   *)
(* to the gateway, another that sends heartbeats on it, and the settings   *)
(* that replace both.                                                      *)
(*                                                                         *)
(* Discord numbers the events of a session, READY being the first; a       *)
(* resumed session goes on after the number that the resumption names.     *)
(* A session is known by the settings it was made under.  What belongs to  *)
(* a connection (its heartbeats, its acknowledgements) goes with it.       *)
(* Interactions are answered in goroutines of their own, which share       *)
(* nothing.                                                                *)
(*                                                                         *)
(* Operators marked "Fault" are plausible mistakes in the operator that    *)
(* follows them; no action uses them.                                      *)
(***************************************************************************)
EXTENDS Naturals

CONSTANTS
    MaxEvents, \* bound: events of a session
    MaxStarts  \* bound: changes of the settings

BoundAssumption == MaxEvents \in Nat \ {0} /\ MaxStarts \in Nat

VARIABLES
    loop,        \* discordLoop: where it stands, and its settings
    stopped,     \* discordStopCh
    settings,    \* the settings in force, and whether Discord is configured
    change,      \* UpdateConfig
    session, seq, resuming,    \* discordSessionID, discordLastSeq; the connection resumes
    events, position, handled, \* Discord: the session's events, those sent, how often taken
    beat, acked, first,        \* discordHeartbeatLoop; its flag; only one sent so far
    unanswered, silent, closed \* heartbeats whose answer has not been read; the connection

service == <<settings, change>>
gateway == <<session, seq, resuming, events, position, handled>>
connection == <<beat, acked, first, unanswered, silent, closed>>
vars == <<loop, stopped, service, gateway, connection>>

None == 0
Events == 1..MaxEvents

NoConnection ==
    /\ beat' = "none"
    /\ acked' = TRUE
    /\ first' = TRUE
    /\ unanswered' = 0
    /\ silent' = FALSE
    /\ closed' = FALSE

Init ==
    /\ settings \in [number : {1}, on : BOOLEAN]
    /\ loop = [pc |-> IF settings.on THEN "registering" ELSE "ended", number |-> 1]
    /\ stopped = FALSE
    /\ change = "idle"
    /\ session = None /\ seq = 0 /\ resuming = FALSE
    /\ events = 0 /\ position = 0 /\ handled = [e \in Events |-> 0]
    /\ beat = "none" /\ acked = TRUE /\ first = TRUE
    /\ unanswered = 0 /\ silent = FALSE /\ closed = FALSE

-----------------------------------------------------------------------------
(* discordLoop and runDiscordConnection.                                   *)

Goto(pc) == loop' = [loop EXCEPT !.pc = pc]
Reading == loop.pc = "reading" /\ ~closed /\ ~silent

\* registerDiscordCommands may fail: it is not tried again.
Register ==
    /\ loop.pc = "registering"
    /\ Goto("between")
    /\ UNCHANGED <<stopped, service, gateway, connection>>

\* The session is looked up before the connection is made.
Connect ==
    /\ loop.pc = "between"
    /\ ~stopped
    /\ resuming' = (session # None)
    /\ Goto("opening") \/ Goto("between")
    /\ UNCHANGED <<stopped, service, session, seq, events, position, handled, connection>>

\* Hello is answered with Resume or Identify; a new session has nothing but READY.
Hello ==
    /\ loop.pc = "opening"
    /\ ~closed
    /\ beat' = "first"
    /\ IF resuming
       THEN position' = seq /\ UNCHANGED <<events, handled>>
       ELSE /\ position' = 0
            /\ events' = 1
            /\ handled' = [e \in Events |-> 0]
    /\ Goto("reading")
    /\ UNCHANGED <<stopped, service, session, seq, resuming, acked, first, unanswered, silent, closed>>

\* Fault: the number is stored only for READY.
ReceiveUnnumbered ==
    /\ Reading
    /\ position < events
    /\ position' = position + 1
    /\ IF position' = 1
       THEN seq' = 1 /\ session' = loop.number /\ UNCHANGED handled
       ELSE handled' = [handled EXCEPT ![position'] = @ + 1] /\ UNCHANGED <<session, seq>>
    /\ UNCHANGED <<loop, stopped, service, resuming, events, connection>>

\* A dispatch: its number first, then READY's session or the interaction.
Receive ==
    /\ Reading
    /\ position < events
    /\ position' = position + 1
    /\ seq' = position'
    /\ IF position' = 1
       THEN session' = loop.number /\ UNCHANGED handled
       ELSE handled' = [handled EXCEPT ![position'] = @ + 1] /\ UNCHANGED session
    /\ UNCHANGED <<loop, stopped, service, resuming, events, connection>>

ReceiveAck ==
    /\ Reading
    /\ unanswered > 0
    /\ acked' = TRUE
    /\ unanswered' = unanswered - 1
    /\ UNCHANGED <<loop, stopped, service, gateway, beat, first, silent, closed>>

\* Discord may ask for a heartbeat.  Bound: not while another is unanswered.
AnswerHeartbeat ==
    /\ Reading
    /\ unanswered = 0
    /\ unanswered' = unanswered + 1
    /\ UNCHANGED <<loop, stopped, service, gateway, beat, acked, first, silent, closed>>

InvalidSession ==
    /\ Reading
    /\ session' = None
    /\ seq' = 0
    /\ Goto("between")
    /\ NoConnection
    /\ UNCHANGED <<stopped, service, resuming, events, position, handled>>

\* A broken or closed connection, a request to reconnect, a write that fails.
LeaveConnection ==
    /\ loop.pc \in {"opening", "reading"}
    /\ Goto("between")
    /\ NoConnection
    /\ UNCHANGED <<stopped, service, gateway>>

EndLoop ==
    /\ loop.pc = "between"
    /\ stopped
    /\ Goto("ended")
    /\ UNCHANGED <<stopped, service, gateway, connection>>

-----------------------------------------------------------------------------
(* discordHeartbeatLoop.                                                   *)

SendHeartbeat(next) ==
    /\ unanswered' = unanswered + 1
    /\ beat' = next
    /\ UNCHANGED <<loop, stopped, service, gateway, acked, silent, closed>>

\* The flag is cleared after the first heartbeat is sent ...
FirstHeartbeat == beat = "first" /\ SendHeartbeat("clearing") /\ UNCHANGED first

ClearAcked ==
    /\ beat = "clearing"
    /\ acked' = FALSE
    /\ beat' = "waiting"
    /\ UNCHANGED <<loop, stopped, service, gateway, first, unanswered, silent, closed>>

\* Fault: clears the flag after the others, too.
SendThenClear == beat = "waiting" /\ acked /\ SendHeartbeat("clearing") /\ first' = FALSE

\* ... and before the others are.
NextHeartbeat ==
    /\ beat = "waiting"
    /\ acked
    /\ acked' = FALSE
    /\ beat' = "sending"
    /\ UNCHANGED <<loop, stopped, service, gateway, first, unanswered, silent, closed>>

OtherHeartbeat == beat = "sending" /\ SendHeartbeat("waiting") /\ first' = FALSE

\* Fault: returns and leaves the connection open.
ReturnUnanswered ==
    /\ beat = "waiting"
    /\ ~acked
    /\ beat' = "none"
    /\ UNCHANGED <<loop, stopped, service, gateway, acked, first, unanswered, silent, closed>>

CloseUnanswered ==
    /\ beat = "waiting"
    /\ ~acked
    /\ closed' = TRUE
    /\ beat' = "none"
    /\ UNCHANGED <<loop, stopped, service, gateway, acked, first, unanswered, silent>>

-----------------------------------------------------------------------------
(* Settings, one change at a time, and the world.                          *)

\* stopDiscord, as far as the closing of the channel, which closes the connection.
UpdateConfig ==
    /\ change = "idle"
    /\ settings.number <= MaxStarts
    /\ change' = "stopping"
    /\ stopped' = TRUE
    /\ closed' = (loop.pc \in {"opening", "reading"})
    /\ UNCHANGED <<loop, settings, gateway, beat, acked, first, unanswered, silent>>

\* The bot that has stopped forgets its session; the next one has other settings.
StartAgain ==
    /\ change = "stopping"
    /\ loop.pc = "ended"
    /\ \E on \in BOOLEAN :
        /\ settings' = [number |-> settings.number + 1, on |-> on]
        /\ loop' = [pc |-> IF on THEN "registering" ELSE "ended", number |-> settings.number + 1]
    /\ stopped' = FALSE
    /\ session' = None
    /\ seq' = 0
    /\ change' = "idle"
    /\ UNCHANGED <<resuming, events, position, handled, connection>>

\* Dial does not look at stopCh: what it opens is closed at once.
CloseStopped ==
    /\ stopped
    /\ loop.pc = "opening"
    /\ closed' = TRUE
    /\ UNCHANGED <<loop, stopped, service, gateway, beat, acked, first, unanswered, silent>>

Interaction ==
    /\ session # None
    /\ events \in 1..MaxEvents - 1
    /\ events' = events + 1
    /\ UNCHANGED <<loop, stopped, service, session, seq, resuming, position, handled, connection>>

FallSilent ==
    /\ loop.pc = "reading"
    /\ silent' = TRUE
    /\ UNCHANGED <<loop, stopped, service, gateway, beat, acked, first, unanswered, closed>>

-----------------------------------------------------------------------------
Loop == Register \/ Connect \/ Hello \/ EndLoop \/ (closed /\ LeaveConnection)
Heartbeat == FirstHeartbeat \/ ClearAcked \/ NextHeartbeat \/ OtherHeartbeat \/ CloseUnanswered
Read == Receive \/ ReceiveAck \/ AnswerHeartbeat \/ InvalidSession

Next ==
    \/ Loop \/ LeaveConnection \/ Read \/ Heartbeat
    \/ UpdateConfig \/ StartAgain \/ CloseStopped
    \/ Interaction \/ FallSilent

Spec == Init /\ [][Next]_vars

\* The goroutines run: a heartbeat interval ends, a closed connection fails.
Fairness == WF_vars(Loop) /\ WF_vars(Heartbeat) /\ WF_vars(StartAgain)

FairSpec == Spec /\ Fairness

-----------------------------------------------------------------------------
TypeOK ==
    /\ loop \in [pc : {"ended", "registering", "between", "opening", "reading"},
                 number : 1..MaxStarts + 1]
    /\ stopped \in BOOLEAN
    /\ settings \in [number : 1..MaxStarts + 1, on : BOOLEAN]
    /\ change \in {"idle", "stopping"}
    /\ session \in 0..MaxStarts + 1
    /\ seq \in 0..MaxEvents
    /\ resuming \in BOOLEAN
    /\ events \in 0..MaxEvents
    /\ position \in 0..MaxEvents
    /\ handled \in [Events -> Nat]
    /\ beat \in {"none", "first", "clearing", "waiting", "sending"}
    /\ {acked, first, silent, closed} \subseteq BOOLEAN
    /\ unanswered \in 0..3

(***************************************************************************)
(* A session is resumed under the settings it was made under, and from the *)
(* last event that was read: no interaction is taken twice, none of a      *)
(* session that lives is skipped (discord.go:138-143, 181-183, 285-295,    *)
(* telegram.go:124-130).                                                   *)
(***************************************************************************)
InteractionsAreTakenOnce ==
    /\ session # None => session = settings.number /\ loop.number = settings.number
    /\ \A e \in Events \ {1} :
         handled[e] = IF e <= position \/ (session # None /\ e <= seq) THEN 1 ELSE 0

(***************************************************************************)
(* The heartbeat loop gives up no connection on which every heartbeat has  *)
(* been answered, unless it is at its first: there the answer can be       *)
(* noted before the flag is cleared (discord.go:235-257).                  *)
(***************************************************************************)
AnsweredStaysOpen == [][closed' /\ ~closed /\ ~stopped' => unanswered > 0 \/ first]_vars

(***************************************************************************)
(* A connection that has fallen silent is given up (discord.go:247-253).   *)
(***************************************************************************)
SilentIsLeft == silent ~> ~silent
=============================================================================
