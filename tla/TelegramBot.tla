----------------------------- MODULE TelegramBot -----------------------------
(***************************************************************************)
(* The Telegram half of internal/bot: one goroutine polls for updates and  *)
(* handles them in turn, and a change of the settings stops it, forgets    *)
(* its offset and starts the next one.                                     *)
(*                                                                         *)
(* Telegram delivers an update until a request for updates carries an      *)
(* offset above its id.  The offset is kept in memory only.  Commands only *)
(* report, so what matters is that each is taken, and not twice without    *)
(* need; a reply that cannot be sent is dropped by the code.               *)
(*                                                                         *)
(* Two goroutines are there so that a second one could run; the relay mode *)
(* answers inside its request and shares nothing with them.                *)
(*                                                                         *)
(* Operators marked "Fault" are plausible mistakes in the operator that    *)
(* follows them; no action uses them.                                      *)
(***************************************************************************)
EXTENDS Naturals, Sequences

CONSTANTS
    MaxUpdates, \* bound: updates that users send
    MaxStarts   \* bound: changes of the settings and restarts of the server

BoundAssumption == MaxUpdates \in Nat /\ MaxStarts \in Nat

VARIABLES
    updates,         \* Telegram: the updates by id, "command" or "other"
    confirmed,       \* Telegram: ids below are not delivered any more
    poller, stopped, \* the goroutines, and whose context is cancelled
    offset,          \* Service.offset
    polling,         \* the settings: enabled, complete and of mode polling
    current,         \* the goroutine that stopCh stops, 0 for none
    change,          \* UpdateConfig: where it stands, and for which settings
    starts,
    taken, times     \* commands ever handled, and how often since the last start

telegram == <<updates, confirmed>>
handled == <<taken, times>>
vars == <<telegram, poller, stopped, offset, polling, current, change, starts, handled>>

Pollers == {1, 2}
Ids == 1..MaxUpdates
Ended == [pc |-> "ended", batch |-> <<>>]
Idle == [pc |-> "idle", old |-> 0, polling |-> FALSE]

Larger(a, b) == IF a < b THEN b ELSE a

\* Start, in a service that has none running.
Begin(on) ==
    /\ polling' = on
    /\ offset' = 0
    /\ times' = [u \in Ids |-> 0]
    /\ \E p \in Pollers :
        /\ poller[p] = Ended
        /\ current' = IF on THEN p ELSE 0
        /\ poller' = [poller EXCEPT ![p] = [@ EXCEPT !.pc = IF on THEN "polling" ELSE "ended"]]
        /\ stopped' = [stopped EXCEPT ![p] = FALSE]

Init ==
    /\ updates = <<>>
    /\ confirmed = 1
    /\ poller = [p \in Pollers |-> Ended]
    /\ stopped = [p \in Pollers |-> FALSE]
    /\ offset = 0
    /\ polling = FALSE
    /\ current = 0
    /\ change = Idle
    /\ starts = 0
    /\ taken = {}
    /\ times = [u \in Ids |-> 0]

-----------------------------------------------------------------------------
(* pollLoop and pollOnce.                                                  *)

Goto(p, pc) == poller' = [poller EXCEPT ![p].pc = pc]

\* The request reaches Telegram, whatever becomes of the answer.
Ask(p) ==
    /\ poller[p].pc = "polling"
    /\ ~stopped[p]
    /\ confirmed' = Larger(confirmed, offset)
    /\ Goto(p, "asking")
    /\ UNCHANGED <<updates, stopped, offset, polling, current, change, starts, handled>>

Receive(p) ==
    /\ poller[p].pc = "asking"
    /\ ~stopped[p]
    /\ poller' = [poller EXCEPT ![p] =
            [pc |-> "taking", batch |-> [i \in 1..(Len(updates) + 1 - confirmed) |-> confirmed + i - 1]]]
    /\ UNCHANGED <<telegram, stopped, offset, polling, current, change, starts, handled>>

PollFails(p) ==
    /\ poller[p].pc = "asking"
    /\ Goto(p, "polling")
    /\ UNCHANGED <<telegram, stopped, offset, polling, current, change, starts, handled>>

\* Fault: the offset is the id of the update, and not the next one.
TakeSame(p) ==
    /\ poller[p].pc = "taking"
    /\ poller[p].batch # <<>>
    /\ LET u == Head(poller[p].batch) IN
        /\ offset' = Larger(offset, u)
        /\ poller' = [poller EXCEPT ![p] =
                IF updates[u] = "command" THEN [@ EXCEPT !.pc = "handling"]
                ELSE [pc |-> "taking", batch |-> Tail(@.batch)]]
    /\ UNCHANGED <<telegram, stopped, polling, current, change, starts, handled>>

\* Without a message, or from a chat that is not allowed: only the offset moves.
Take(p) ==
    /\ poller[p].pc = "taking"
    /\ poller[p].batch # <<>>
    /\ LET u == Head(poller[p].batch) IN
        /\ offset' = Larger(offset, u + 1)
        /\ poller' = [poller EXCEPT ![p] =
                IF updates[u] = "command" THEN [@ EXCEPT !.pc = "handling"]
                ELSE [pc |-> "taking", batch |-> Tail(@.batch)]]
    /\ UNCHANGED <<telegram, stopped, polling, current, change, starts, handled>>

\* commands.handle and sendMessage; a batch goes on after a cancellation.
Handle(p) ==
    /\ poller[p].pc = "handling"
    /\ LET u == Head(poller[p].batch) IN
        /\ taken' = taken \cup {u}
        /\ times' = [times EXCEPT ![u] = @ + 1]
    /\ poller' = [poller EXCEPT ![p] = [pc |-> "taking", batch |-> Tail(@.batch)]]
    /\ UNCHANGED <<telegram, stopped, offset, polling, current, change, starts>>

EndBatch(p) ==
    /\ poller[p] = [pc |-> "taking", batch |-> <<>>]
    /\ Goto(p, "polling")
    /\ UNCHANGED <<telegram, stopped, offset, polling, current, change, starts, handled>>

EndPolling(p) ==
    /\ poller[p].pc = "polling"
    /\ stopped[p]
    /\ Goto(p, "ended")
    /\ UNCHANGED <<telegram, stopped, offset, polling, current, change, starts, handled>>

-----------------------------------------------------------------------------
(* UpdateConfig, one at a time, and the server's own restarts.             *)

\* Stop, as far as the closing of stopCh.
UpdateConfig(on) ==
    /\ change = Idle
    /\ starts < MaxStarts
    /\ starts' = starts + 1
    /\ change' = [pc |-> "stopping", old |-> current, polling |-> on]
    /\ stopped' = IF current = 0 THEN stopped ELSE [stopped EXCEPT ![current] = TRUE]
    /\ current' = 0
    /\ UNCHANGED <<telegram, poller, offset, polling, handled>>

\* Fault: Stop does not wait for doneCh.
StartAtOnce ==
    /\ change.pc = "stopping"
    /\ Begin(change.polling)
    /\ change' = Idle
    /\ UNCHANGED <<telegram, starts, taken>>

StartAgain ==
    /\ change.pc = "stopping"
    /\ change.old # 0 => poller[change.old] = Ended
    /\ Begin(change.polling)
    /\ change' = Idle
    /\ UNCHANGED <<telegram, starts, taken>>

\* A crash or a shutdown, and main again, with any settings.
Restart(on) ==
    /\ starts < MaxStarts
    /\ starts' = starts + 1
    /\ change' = Idle
    /\ polling' = on
    /\ offset' = 0
    /\ times' = [u \in Ids |-> 0]
    /\ stopped' = [p \in Pollers |-> FALSE]
    /\ current' = IF on THEN 1 ELSE 0
    /\ poller' = [p \in Pollers |-> IF on /\ p = 1 THEN [Ended EXCEPT !.pc = "polling"] ELSE Ended]
    /\ UNCHANGED <<telegram, taken>>

Send(kind) ==
    /\ Len(updates) < MaxUpdates
    /\ updates' = Append(updates, kind)
    /\ UNCHANGED <<confirmed, poller, stopped, offset, polling, current, change, starts, handled>>

-----------------------------------------------------------------------------
Work(p) == Ask(p) \/ PollFails(p) \/ Take(p) \/ Handle(p) \/ EndBatch(p) \/ EndPolling(p)

Next ==
    \/ \E p \in Pollers : Work(p) \/ Receive(p)
    \/ StartAgain
    \/ \E on \in BOOLEAN : UpdateConfig(on) \/ Restart(on)
    \/ \E kind \in {"command", "other"} : Send(kind)

Spec == Init /\ [][Next]_vars

\* Calls have deadlines, and Telegram answers from time to time.
Fairness ==
    /\ \A p \in Pollers : WF_vars(Work(p)) /\ SF_vars(Receive(p))
    /\ WF_vars(StartAgain)

FairSpec == Spec /\ Fairness

-----------------------------------------------------------------------------
TypeOK ==
    /\ updates \in Seq({"command", "other"})
    /\ Len(updates) <= MaxUpdates
    /\ confirmed \in 1..MaxUpdates + 1
    /\ poller \in [Pollers ->
            [pc : {"ended", "polling", "asking", "taking", "handling"}, batch : Seq(Ids)]]
    /\ stopped \in [Pollers -> BOOLEAN]
    /\ offset \in 0..MaxUpdates + 1
    /\ polling \in BOOLEAN
    /\ current \in {0} \cup Pollers
    /\ change \in [pc : {"idle", "stopping"}, old : {0} \cup Pollers, polling : BOOLEAN]
    /\ starts \in 0..MaxStarts
    /\ taken \subseteq Ids
    /\ times \in [Ids -> Nat]

(***************************************************************************)
(* A command that Telegram will not deliver again has been handled: no     *)
(* crash, no restart and no lost answer makes it disappear                 *)
(* (telegram.go:210-264).                                                  *)
(***************************************************************************)
ForgottenIsTaken ==
    \A u \in DOMAIN updates : u < confirmed /\ updates[u] = "command" => u \in taken

(***************************************************************************)
(* Between two starts no command is handled twice, whatever requests are   *)
(* repeated (telegram.go:214-246); the goroutine of the old settings takes *)
(* no part (telegram.go:99-132).                                           *)
(***************************************************************************)
OncePerStart == \A u \in Ids : times[u] <= 1

(***************************************************************************)
(* A command sent to a bot that polls is handled, unless polling is        *)
(* switched off (telegram.go:176-208).                                     *)
(***************************************************************************)
CommandsArrive ==
    \A u \in Ids :
        (u \in DOMAIN updates /\ updates[u] = "command" /\ polling) ~> (u \in taken \/ ~polling)
=============================================================================
