---------------------------- MODULE AlertMonitor -----------------------------
(***************************************************************************)
(* The alert monitor of internal/alerts and its history of alerts.         *)
(*                                                                         *)
(* A round of the monitor lists the containers of all hosts that answer,   *)
(* compares what it sees with what it remembers, lists them again and      *)
(* samples those that run.  Requests read and acknowledge alerts between   *)
(* any two steps.                                                          *)
(*                                                                         *)
(* "restarting" stands for paused and removing too.  The samples that the  *)
(* monitor keeps in the database are those of StatsCollector; the webhook, *)
(* tried once per alert, is left out.                                      *)
(* Operators marked "Fault" are plausible mistakes in the operator that    *)
(* follows them; no action uses them.                                      *)
(***************************************************************************)
EXTENDS Integers, Sequences

CONSTANTS
    Hosts, Names, HostOf, \* containers by name, and the host of each
    MaxHistory,           \* 100 in the code
    MaxEvents             \* bound: changes of containers, thresholds exceeded, reloads

HostAssumption == HostOf \in [Names -> Hosts]
BoundAssumption == MaxHistory \in Nat \ {0} /\ MaxEvents \in Nat

VARIABLES
    state, events,   \* Docker: states of containers; events so far
    client,          \* hosts of the monitor's Docker client
    pc, seen, todo,  \* the round, its listing and what is left of it
    over,            \* thresholds one sample exceeds
    known,           \* containerStates
    history, raised, \* AlertHistory, and how many alerts there have been
    told,            \* the alert raised on the last change of those in known
    acked,           \* alerts of the history whose acknowledgement was answered
    sweep,           \* AcknowledgeAllAlerts: what it has still to do
    averages         \* containers with points in HistoryManager

docker == <<state, events, client>>
round == <<pc, seen, todo, over>>
alerts == <<history, raised, acked, sweep>>
vars == <<docker, round, known, told, alerts, averages>>

None == "none"
Down == {"exited", "dead"}
Live == Down \cup {"created", "restarting", "running"}

Init ==
    /\ state \in [Names -> {"running", "exited"}]
    /\ events = 0
    /\ client = Hosts
    /\ pc = "waiting"
    /\ seen = [n \in Names |-> None]
    /\ todo = {}
    /\ over = <<>>
    /\ known = [n \in Names |-> None]
    /\ history = <<>>
    /\ raised = 0
    /\ told = [n \in Names |-> None]
    /\ acked = {}
    /\ sweep = {}
    /\ averages = {}

-----------------------------------------------------------------------------
(* AlertHistory.                                                           *)

\* Fault: keeps the oldest.
TrimNewest(h) == IF Len(h) > MaxHistory THEN SubSeq(h, Len(h) - MaxHistory + 1, Len(h)) ELSE h

Trim(h) == IF Len(h) > MaxHistory THEN SubSeq(h, 1, MaxHistory) ELSE h

Add(kind, n) ==
    /\ raised' = raised + 1
    /\ history' = Trim(<<[id |-> raised + 1, kind |-> kind, on |-> n, acknowledged |-> FALSE]>>
                        \o history)
    /\ acked' = acked \cap {history'[i].id : i \in DOMAIN history'}
    /\ UNCHANGED sweep

\* Fault: marks the copy of the loop variable.
MarkCopy(id) ==
    /\ acked' = acked \cup ({id} \cap {history[i].id : i \in DOMAIN history})
    /\ UNCHANGED history

\* By id: the positions move when an alert is added.
Acknowledge(id) ==
    /\ history' = [i \in DOMAIN history |->
                     IF history[i].id = id THEN [history[i] EXCEPT !.acknowledged = TRUE]
                     ELSE history[i]]
    /\ acked' = acked \cup ({id} \cap {history[i].id : i \in DOMAIN history})

\* A request for an alert that has been trimmed is answered "not found".
AcknowledgeAlert ==
    /\ \E i \in DOMAIN history : Acknowledge(history[i].id)
    /\ UNCHANGED <<docker, round, known, told, raised, sweep, averages>>

BeginSweep ==
    /\ sweep = {}
    /\ sweep' = {history[i].id : i \in {j \in DOMAIN history : ~history[j].acknowledged}}
    /\ UNCHANGED <<docker, round, known, told, history, raised, acked, averages>>

SweepOne ==
    /\ \E id \in sweep : Acknowledge(id) /\ sweep' = sweep \ {id}
    /\ UNCHANGED <<docker, round, known, told, raised, averages>>

-----------------------------------------------------------------------------
(* checkContainerStates.                                                   *)

\* The containers that the hosts answering list; a host that fails is missing.
Listed(answering) ==
    [n \in Names |-> IF HostOf[n] \in answering /\ state[n] \in Live THEN state[n] ELSE None]

ListStates(answering) ==
    /\ pc = "waiting"
    /\ pc' = "comparing"
    /\ seen' = Listed(answering)
    /\ todo' = {n \in Names : seen'[n] # None}
    /\ UNCHANGED <<docker, over, known, told, alerts, averages>>

\* Fault: stores the state before it compares.
CompareStored(n) ==
    /\ pc = "comparing"
    /\ n \in todo
    /\ todo' = todo \ {n}
    /\ known' = [known EXCEPT ![n] = seen[n]]
    /\ UNCHANGED <<docker, pc, seen, over, told, alerts, averages>>

\* The alert that a change calls for.
AlertOn(from, to) ==
    IF to \in Down THEN "stopped"
    ELSE IF to = "running" /\ from \in Down \cup {"created"} THEN "started"
    ELSE None

Compare(n) ==
    /\ pc = "comparing"
    /\ n \in todo
    /\ todo' = todo \ {n}
    /\ known' = [known EXCEPT ![n] = seen[n]]
    /\ IF known[n] \in {None, seen[n]}
       THEN UNCHANGED <<told, alerts>>
       ELSE LET alert == AlertOn(known[n], seen[n]) IN
            /\ told' = [told EXCEPT ![n] = alert]
            /\ IF alert = None THEN UNCHANGED alerts ELSE Add(alert, n)
    /\ UNCHANGED <<docker, pc, seen, over, averages>>

\* Containers that were not listed are forgotten.
Cleanup ==
    /\ pc = "comparing"
    /\ todo = {}
    /\ pc' = "between"
    /\ known' = seen
    /\ told' = [n \in Names |-> IF seen[n] = None THEN None ELSE told[n]]
    /\ averages' = averages \ {n \in Names : known[n] # None /\ seen[n] = None}
    /\ UNCHANGED <<docker, seen, todo, over, alerts>>

-----------------------------------------------------------------------------
(* checkResourceThresholds.                                                *)

ListRunning(answering) ==
    /\ pc = "between"
    /\ pc' = "sampling"
    /\ todo' = {n \in Names : Listed(answering)[n] = "running"}
    /\ UNCHANGED <<docker, seen, over, known, told, alerts, averages>>

\* The sample can fail, and so can its insertion.
Sample(n) ==
    /\ pc = "sampling"
    /\ over = <<>>
    /\ n \in todo
    /\ \/ /\ todo' = todo \ {n}
          /\ UNCHANGED <<events, over, averages>>
       \/ \E kinds \in {<<>>, <<"cpu">>, <<"memory">>, <<"cpu", "memory">>} :
            /\ events + Len(kinds) <= MaxEvents
            /\ events' = events + Len(kinds)
            /\ over' = kinds
            /\ todo' = IF kinds = <<>> THEN todo \ {n} ELSE todo
            /\ averages' = averages \cup {n}
    /\ UNCHANGED <<state, client, pc, seen, known, told, alerts>>

\* CPU first, then memory.
Exceed(n) ==
    /\ n \in todo
    /\ over # <<>>
    /\ Add(over[1], n)
    /\ over' = Tail(over)
    /\ todo' = IF over' = <<>> THEN todo \ {n} ELSE todo
    /\ UNCHANGED <<docker, pc, seen, known, told, averages>>

EndRound ==
    /\ pc = "sampling"
    /\ todo = {}
    /\ pc' = "waiting"
    /\ UNCHANGED <<docker, seen, todo, over, known, told, alerts, averages>>

\* The loop looks at stopCh between rounds only.
Stop ==
    /\ pc = "waiting"
    /\ pc' = "stopped"
    /\ UNCHANGED <<docker, seen, todo, over, known, told, alerts, averages>>

-----------------------------------------------------------------------------
(* The world: containers change, a reload gives the monitor another client. *)

Change(n, s) ==
    /\ events < MaxEvents
    /\ state[n] # s
    /\ state' = [state EXCEPT ![n] = s]
    /\ events' = events + 1
    /\ UNCHANGED <<client, round, known, told, alerts, averages>>

UpdateDockerClient(hosts) ==
    /\ events < MaxEvents
    /\ client' = hosts
    /\ events' = events + 1
    /\ UNCHANGED <<state, round, known, told, alerts, averages>>

-----------------------------------------------------------------------------
Round ==
    \/ \E answering \in SUBSET client : ListStates(answering) \/ ListRunning(answering)
    \/ \E n \in Names : Compare(n) \/ Sample(n) \/ Exceed(n)
    \/ Cleanup
    \/ EndRound

Next ==
    \/ Round \/ Stop
    \/ AcknowledgeAlert \/ BeginSweep \/ SweepOne
    \/ \E n \in Names, s \in Live \cup {"absent"} : Change(n, s)
    \/ \E hosts \in SUBSET Hosts : UpdateDockerClient(hosts)

Spec == Init /\ [][Next]_vars

\* The ticker fires, and calls have deadlines.
Fairness == WF_vars(Round)

FairSpec == Spec /\ Fairness

-----------------------------------------------------------------------------
Kinds == {"stopped", "started", "cpu", "memory"}
Alert == [id : Nat, kind : Kinds, on : Names, acknowledged : BOOLEAN]

TypeOK ==
    /\ state \in [Names -> Live \cup {"absent"}]
    /\ events \in 0..MaxEvents
    /\ client \subseteq Hosts
    /\ pc \in {"waiting", "comparing", "between", "sampling", "stopped"}
    /\ seen \in [Names -> Live \cup {None}]
    /\ todo \subseteq Names
    /\ over \in {<<>>, <<"cpu">>, <<"memory">>, <<"cpu", "memory">>}
    /\ known \in [Names -> Live \cup {None}]
    /\ history \in Seq(Alert)
    /\ raised \in Nat
    /\ told \in [Names -> Kinds \cup {None}]
    /\ acked \subseteq 1..raised
    /\ sweep \subseteq 1..raised
    /\ averages \subseteq Names

(***************************************************************************)
(* The history is exactly the latest alerts, the newest first, and an      *)
(* alert in it is acknowledged if and only if somebody was told so, alone  *)
(* or with all the others, although alerts move while acknowledgements are *)
(* under way (history.go:25-75, alert_handlers.go:76-96).                  *)
(***************************************************************************)
HistoryIsExact ==
    /\ Len(history) = IF raised < MaxHistory THEN raised ELSE MaxHistory
    /\ \A i \in DOMAIN history :
         /\ history[i].id = raised - i + 1
         /\ history[i].acknowledged <=> history[i].id \in acked

(***************************************************************************)
(* A container that the monitor has seen running and that stops raises an  *)
(* alert, unless it runs again before the round sees it, or a round passes *)
(* in which its host does not answer or is no longer configured: that      *)
(* forgets the container (monitor.go:140-191).                             *)
(***************************************************************************)
StopsAreReported ==
    \A n \in Names :
        (known[n] = "running" /\ state[n] \in Down)
            ~> \/ told[n] = "stopped"
               \/ state[n] \notin Down
               \/ known[n] = None
               \/ pc = "stopped"
=============================================================================
