-------------------------- MODULE ContainerActions ---------------------------
(***************************************************************************)
(* What the dashboard does to containers: the buttons of a row, the batch  *)
(* buttons over the ticked rows, the dialog that asks before containers    *)
(* are stopped or removed, and the sheet that follows a container whose    *)
(* environment was changed.  Every click starts an asynchronous function   *)
(* of its own (a flow) that acts on its containers one by one; they share  *)
(* one pendingAction, one confirmAction and one selection, and each clears *)
(* them when it is through, whoever set them.                              *)
(*                                                                         *)
(* A container is replaced under a new id; an id is never used again.      *)
(***************************************************************************)
EXTENDS Naturals, Sequences, FiniteSets

CONSTANTS
    Ids,                \* of the rows, PM2 applications and processes included
    DockerIds,          \* those that are Docker containers
    Replacement,        \* the id that a changed container gets, of those that change
    ReadOnly,           \* data.readOnly
    None,
    MaxFlows, MaxClicks \* bounds

States == {"running", "exited"}
Types == {"start", "stop", "restart", "remove"}
Confirmed == {"stop", "remove"}

VARIABLES
    server,             \* the state of each container that exists
    rows,               \* data.containers, as last fetched
    selected,           \* selectedContainerIds
    pendingAction,      \* None or [id, type]
    confirmAction,      \* None or [type, containers, clear]
    flows,              \* the asynchronous functions under way
    agreed,             \* what the user has agreed to in a dialog
    sheet,              \* selectedContainer, while isLogsSheetOpen
    saving,             \* a change of environment under way: None or its container
    clicks              \* counts the clicks that start something

actVars == <<server, rows, selected, pendingAction, confirmAction, flows, agreed, sheet,
             saving, clicks>>

Flow == [type : Types, todo : Seq(DockerIds), at : {"asking", "refetching"},
         confirm : BOOLEAN, clear : BOOLEAN]

Pending == [id : DockerIds, type : Types]
Question == [type : Confirmed, containers : Seq(Ids), clear : BOOLEAN]

ActionsTypeOK ==
    /\ \E there \in SUBSET Ids : server \in [there -> States]
    /\ \E there \in SUBSET Ids : rows \in [there -> States]
    /\ selected \subseteq Ids
    /\ pendingAction \in {None} \cup Pending
    /\ confirmAction = None \/ confirmAction \in Question
    /\ flows \in Seq(Flow)
    /\ agreed \subseteq Confirmed \X Ids
    /\ sheet \in Ids \cup {None}
    /\ saving \in Ids \cup {None}
    /\ clicks \in 0 .. MaxClicks

ActionsInit ==
    /\ server \in [Ids \ {Replacement[i] : i \in DOMAIN Replacement} -> States]
    /\ rows = server
    /\ selected = {}
    /\ pendingAction = None
    /\ confirmAction = None
    /\ flows = << >>
    /\ agreed = {}
    /\ sheet = None
    /\ saving = None
    /\ clicks = 0

-----------------------------------------------------------------------------
\* A dialog or a sheet covers the page: nothing under it can be clicked.
PageIsFree == confirmAction = None /\ sheet = None

Busy(id) == pendingAction # None /\ pendingAction.id = id

\* The buttons a row has, and those that are enabled.
RowButtons(id) ==
    IF id \notin DOMAIN rows \/ id \notin DockerIds \/ Busy(id) THEN {}
    ELSE {"logs"} \cup
         (IF ReadOnly THEN {}
          ELSE {"restart", "remove"}
               \cup (IF rows[id] = "exited" THEN {"start"} ELSE {})
               \cup (IF rows[id] = "running" THEN {"stop"} ELSE {}))

\* The numbers in S, ascending.
InOrder(S) ==
    [n \in 1 .. Cardinality(S) |-> CHOOSE i \in S : Cardinality({j \in S : j < i}) = n - 1]

\* A set as a list.
InSomeOrder(S) ==
    CHOOSE s \in [1 .. Cardinality(S) -> S] : \A i, j \in DOMAIN s : s[i] = s[j] => i = j

\* executeAction skips what is not a Docker container with a notice.
Actionable(containers) ==
    LET kept == InOrder({i \in DOMAIN containers : containers[i] \in DockerIds})
    IN  [n \in DOMAIN kept |-> containers[kept[n]]]

\* executeAction, up to its first await, for the first container of a new flow;
\* a flow with nothing to act on is through at once.
Begin(type, containers, confirm, clear) ==
    LET todo == Actionable(containers)
    IN  IF todo = << >>
        THEN /\ selected' = IF clear THEN {} ELSE selected
             /\ UNCHANGED <<pendingAction, flows>>
        ELSE /\ Len(flows) < MaxFlows
             /\ flows' = Append(flows, [type |-> type, todo |-> todo, at |-> "asking",
                                        confirm |-> confirm, clear |-> clear])
             /\ pendingAction' = [id |-> Head(todo), type |-> type]
             /\ UNCHANGED selected

Click == clicks < MaxClicks /\ clicks' = clicks + 1

-----------------------------------------------------------------------------
\* handleStartContainer and handleRestartContainer.
ActOnRow(type, id) ==
    /\ PageIsFree /\ Click
    /\ type \in {"start", "restart"} /\ type \in RowButtons(id)
    /\ Begin(type, <<id>>, FALSE, FALSE)
    /\ UNCHANGED <<server, rows, confirmAction, agreed, sheet, saving>>

\* handleStopContainer and handleDeleteContainer.
AskForRow(type, id) ==
    /\ PageIsFree /\ Click
    /\ type \in Confirmed /\ type \in RowButtons(id)
    /\ confirmAction' = [type |-> type, containers |-> <<id>>, clear |-> FALSE]
    /\ UNCHANGED <<server, rows, selected, pendingAction, flows, agreed, sheet, saving>>

\* handleToggleSelect; the effect on pageItems drops what is not listed.
Tick(id) ==
    /\ PageIsFree /\ id \in DOMAIN rows
    /\ selected' = IF id \in selected THEN selected \ {id} ELSE selected \cup {id}
    /\ UNCHANGED <<server, rows, pendingAction, confirmAction, flows, agreed, sheet, saving,
                   clicks>>

\* handleBatchAction: over the ticked containers as they are listed now.
BatchAction(type) ==
    /\ PageIsFree /\ Click
    /\ selected # {} /\ ~ReadOnly
    /\ LET containers == InSomeOrder(selected \cap DOMAIN rows)
       IN  IF type \in Confirmed /\ containers # << >>
           THEN /\ confirmAction' = [type |-> type, containers |-> containers, clear |-> TRUE]
                /\ UNCHANGED <<selected, pendingAction, flows>>
           ELSE /\ Begin(type, containers, FALSE, TRUE)
                /\ UNCHANGED confirmAction
    /\ UNCHANGED <<server, rows, agreed, sheet, saving>>

\* The dialog's button: handleConfirmAction starts, and the dialog closes.
Confirm ==
    /\ confirmAction # None
    /\ ~(\E i \in DOMAIN confirmAction.containers :
            /\ Busy(confirmAction.containers[i])
            /\ pendingAction.type = confirmAction.type)
    /\ agreed' = agreed \cup {<<confirmAction.type, confirmAction.containers[i]>> :
                                 i \in DOMAIN confirmAction.containers}
    /\ Begin(confirmAction.type, confirmAction.containers, TRUE, confirmAction.clear)
    /\ confirmAction' = None
    /\ UNCHANGED <<server, rows, sheet, saving, clicks>>

CancelConfirm ==
    /\ confirmAction # None
    /\ confirmAction' = None
    /\ UNCHANGED <<server, rows, selected, pendingAction, flows, agreed, sheet, saving, clicks>>

-----------------------------------------------------------------------------
\* What the server makes of a request for a container that exists.
Effect(type, id) ==
    IF id \notin DOMAIN server THEN server
    ELSE CASE type = "remove" -> [i \in DOMAIN server \ {id} |-> server[i]]
           [] type = "stop" -> [server EXCEPT ![id] = "exited"]
           [] OTHER -> [server EXCEPT ![id] = "running"]

\* finally, and the next container of the flow or what follows its last one.
Advance(f, chosen) ==
    LET rest == Tail(flows[f].todo)
    IN  IF rest # << >>
        THEN /\ flows' = [flows EXCEPT ![f].todo = rest, ![f].at = "asking"]
             /\ pendingAction' = [id |-> Head(rest), type |-> flows[f].type]
             /\ selected' = chosen
             /\ UNCHANGED confirmAction
        ELSE /\ flows' = SubSeq(flows, 1, f - 1) \o SubSeq(flows, f + 1, Len(flows))
             /\ pendingAction' = None
             /\ selected' = IF flows[f].clear THEN {} ELSE chosen
             /\ confirmAction' = IF flows[f].confirm THEN None ELSE confirmAction

\* The request succeeds or fails; after a failure the list is not fetched.
Answered(f, ok) ==
    /\ flows[f].at = "asking"
    /\ IF ok /\ Head(flows[f].todo) \in DOMAIN server
       THEN /\ server' = Effect(flows[f].type, Head(flows[f].todo))
            /\ flows' = [flows EXCEPT ![f].at = "refetching"]
            /\ UNCHANGED <<selected, pendingAction, confirmAction>>
       ELSE /\ UNCHANGED server
            /\ Advance(f, selected)
    /\ UNCHANGED <<rows, agreed, sheet, saving, clicks>>

\* refetch: the list, or what was there when it could not be fetched.
Refetched(f, ok) ==
    /\ flows[f].at = "refetching"
    /\ rows' = IF ok THEN server ELSE rows
    /\ Advance(f, selected \cap DOMAIN rows')
    /\ UNCHANGED <<server, agreed, sheet, saving, clicks>>

\* The list is fetched without the page's asking.
Refocus ==
    /\ rows # server
    /\ rows' = server
    /\ selected' = selected \cap DOMAIN rows'
    /\ UNCHANGED <<server, pendingAction, confirmAction, flows, agreed, sheet, saving, clicks>>

-----------------------------------------------------------------------------
\* handleViewLogs and handleLogsSheetOpenChange.
ViewLogs(id) ==
    /\ PageIsFree /\ Click
    /\ "logs" \in RowButtons(id)
    /\ sheet' = id
    /\ UNCHANGED <<server, rows, selected, pendingAction, confirmAction, flows, agreed, saving>>

CloseLogs ==
    /\ sheet # None
    /\ sheet' = None
    /\ UNCHANGED <<server, rows, selected, pendingAction, confirmAction, flows, agreed, saving,
                   clicks>>

\* The form in the sheet sends a change; the server replaces the container.
SaveEnv ==
    /\ sheet # None /\ saving = None /\ ~ReadOnly
    /\ sheet \in DOMAIN server \cap DOMAIN Replacement
    /\ Replacement[sheet] \notin DOMAIN server
    /\ saving' = sheet
    /\ LET new == Replacement[sheet]
       IN  server' = [i \in (DOMAIN server \ {sheet}) \cup {new} |->
                         IF i = new THEN server[sheet] ELSE server[i]]
    /\ UNCHANGED <<rows, selected, pendingAction, confirmAction, flows, agreed, sheet, clicks>>

\* handleContainerRecreated, after its refetch: it turns the sheet, whichever
\* one is open by then, to the new container when it is in the list.
HandleContainerRecreated(ok) ==
    /\ saving # None
    /\ saving' = None
    /\ rows' = IF ok THEN server ELSE rows
    /\ selected' = selected \cap DOMAIN rows'
    /\ sheet' = IF sheet # None /\ Replacement[saving] \in DOMAIN rows'
                THEN Replacement[saving] ELSE sheet
    /\ UNCHANGED <<server, pendingAction, confirmAction, flows, agreed, clicks>>

ActionsNext ==
    \/ \E id \in Ids :
          \/ Tick(id) \/ ViewLogs(id)
          \/ \E type \in Types : ActOnRow(type, id) \/ AskForRow(type, id)
    \/ \E type \in Types : BatchAction(type)
    \/ Confirm \/ CancelConfirm
    \/ \E f \in DOMAIN flows, ok \in BOOLEAN : Answered(f, ok) \/ Refetched(f, ok)
    \/ Refocus
    \/ CloseLogs \/ SaveEnv
    \/ \E ok \in BOOLEAN : HandleContainerRecreated(ok)

ActionsSpec == ActionsInit /\ [][ActionsNext]_actVars

-----------------------------------------------------------------------------
\* However flows overlap and lists change between a click and its request, a
\* container is stopped or removed only by a flow the user agreed to in a
\* dialog that named it (containers-dashboard.tsx:421-432, 566-589).
OnlyAgreedIsStopped ==
    \A f \in DOMAIN flows :
        flows[f].type \in Confirmed =>
            \A i \in DOMAIN flows[f].todo : <<flows[f].type, flows[f].todo[i]>> \in agreed
=============================================================================
