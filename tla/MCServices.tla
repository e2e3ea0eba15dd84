------------------------------ MODULE MCServices ------------------------------
(***************************************************************************)
(* Nine parts of the server that share no state, checked side by side:     *)
(* part says which of them moves, the others stay as they start.  Each     *)
(* property is that of the part's module.  ServicesProofs proves the       *)
(* safety ones for all values of the constants.                            *)
(***************************************************************************)
EXTENDS Naturals, Sequences, FiniteSets

CONSTANTS
    Requests, Keys, MaxContainers, MaxSwaps,                    \* ContainerRequests
    Chosen, Given, MaxLoads,                                    \* ScannerSettings
    Hosts, Names, HostOf, MaxHistory, MaxChanges,               \* AlertMonitor
    Retention, PruneEvery,                                      \* StatsCollector
    MaxUpdates, MaxTelegramStarts, MaxEvents, MaxDiscordStarts, \* the bots
    Jobs, Bulks, NoBulk, HostOfJob, Cancellers, MaxConcurrentScansPerHost

VARIABLE part

VARIABLES \* of ContainerRequests
    status, env, request, lease, worker, job, swap, swaps, coolify, stale
actionsVars ==
    <<status, env, request, lease, worker, job, swap, swaps, coolify, stale>>

VARIABLES \* of AlertMonitor
    state, changes, client, pc, seen, todo, over, known, history, raised, told, acked,
    sweep, averages
alertsVars ==
    <<state, changes, client, pc, seen, todo, over, known, history, raised, told, acked,
      sweep, averages>>

VARIABLES \* of StatsCollector
    sampler, loop, closed, waits, leased, samples, lastPrune
statsVars ==
    <<sampler, loop, closed, waits, leased, samples, lastPrune>>

VARIABLES \* of TelegramBot
    updates, confirmed, poller, stopped, offset, polling, current, change, starts,
    taken, times
telegramVars ==
    <<updates, confirmed, poller, stopped, offset, polling, current, change, starts,
      taken, times>>

VARIABLES \* of DiscordBot
    gatewayLoop, gatewayStopped, settings, settingsChange, session, seq, resuming,
    events, position, handled, beat, beatAcked, first, unanswered, silent, gatewayClosed
discordVars ==
    <<gatewayLoop, gatewayStopped, settings, settingsChange, session, seq, resuming,
      events, position, handled, beat, beatAcked, first, unanswered, silent, gatewayClosed>>

VARIABLES \* of StatsSocket
    source, sourceError, relay, relayError, hears, handler, watch, browser, cancelled,
    streamLeased
streamVars ==
    <<source, sourceError, relay, relayError, hears, handler, watch, browser, cancelled,
      streamLeased>>

VARIABLES \* of TerminalSocket
    terminal, output, input, ping, terminalBrowser, shell, connection, leases
terminalVars ==
    <<terminal, output, input, ping, terminalBrowser, shell, connection, leases>>

VARIABLES \* of ScannerSettings
    environment, database, inForce, settingsRequest, reload, loads, saved
settingsVars ==
    <<environment, database, inForce, settingsRequest, reload, loads, saved>>

VARIABLES \* of ScanJobs
    scanStatus, result, stored, jobs, cancels, ctx, bulkOf, run, scanSeen, scanLoop,
    completed, failed, cancel
scansVars ==
    <<scanStatus, result, stored, jobs, cancels, ctx, bulkOf, run, scanSeen, scanLoop,
      completed, failed, cancel>>

Actions == INSTANCE ContainerRequests
Alerts == INSTANCE AlertMonitor WITH events <- changes, MaxEvents <- MaxChanges
Stats == INSTANCE StatsCollector
Telegram == INSTANCE TelegramBot WITH MaxStarts <- MaxTelegramStarts
Discord == INSTANCE DiscordBot WITH MaxStarts <- MaxDiscordStarts, loop <- gatewayLoop,
    stopped <- gatewayStopped, change <- settingsChange, acked <- beatAcked,
    closed <- gatewayClosed
Stream == INSTANCE StatsSocket WITH leased <- streamLeased
Terminal == INSTANCE TerminalSocket WITH handler <- terminal, browser <- terminalBrowser
Settings == INSTANCE ScannerSettings WITH request <- settingsRequest
Scans == INSTANCE ScanJobs WITH status <- scanStatus, seen <- scanSeen, loop <- scanLoop,
    HostOf <- HostOfJob

ASSUME ActionsAssumption == Actions!RequestAssumption /\ Actions!BoundAssumption
ASSUME SettingsAssumption == Settings!ChosenAssumption /\ Settings!BoundAssumption
ASSUME AlertsAssumption == Alerts!HostAssumption /\ Alerts!BoundAssumption
ASSUME StatsAssumption == Stats!TimeAssumption
ASSUME TelegramAssumption == Telegram!BoundAssumption
ASSUME DiscordAssumption == Discord!BoundAssumption

Parts == {"actions", "alerts", "stats", "telegram", "discord", "stream", "terminal",
          "settings", "scans"}

Init ==
    /\ part \in Parts
    /\ Actions!Init /\ Alerts!Init /\ Stats!Init /\ Telegram!Init /\ Discord!Init
    /\ Stream!Init /\ Terminal!Init /\ Settings!Init /\ Scans!Init
    \* A part that does not move has one initial state.
    /\ part # "actions" => \A k \in Keys : coolify[k] = Actions!None
    /\ part # "alerts" => \A n \in Names : state[n] = "running"
    /\ part # "stats" => sampler = "monitor" /\ samples = {}
    /\ part # "discord" => settings.on
    /\ part # "settings" => environment = Settings!Empty /\ database = Settings!Empty

Next ==
    \/ /\ part = "actions" /\ Actions!Next
       /\ UNCHANGED <<part, alertsVars, statsVars, telegramVars, discordVars,
                      streamVars, terminalVars, settingsVars, scansVars>>
    \/ /\ part = "alerts" /\ Alerts!Next
       /\ UNCHANGED <<part, actionsVars, statsVars, telegramVars, discordVars,
                      streamVars, terminalVars, settingsVars, scansVars>>
    \/ /\ part = "stats" /\ Stats!Next
       /\ UNCHANGED <<part, actionsVars, alertsVars, telegramVars, discordVars,
                      streamVars, terminalVars, settingsVars, scansVars>>
    \/ /\ part = "telegram" /\ Telegram!Next
       /\ UNCHANGED <<part, actionsVars, alertsVars, statsVars, discordVars,
                      streamVars, terminalVars, settingsVars, scansVars>>
    \/ /\ part = "discord" /\ Discord!Next
       /\ UNCHANGED <<part, actionsVars, alertsVars, statsVars, telegramVars,
                      streamVars, terminalVars, settingsVars, scansVars>>
    \/ /\ part = "stream" /\ Stream!Next
       /\ UNCHANGED <<part, actionsVars, alertsVars, statsVars, telegramVars,
                      discordVars, terminalVars, settingsVars, scansVars>>
    \/ /\ part = "terminal" /\ Terminal!Next
       /\ UNCHANGED <<part, actionsVars, alertsVars, statsVars, telegramVars,
                      discordVars, streamVars, settingsVars, scansVars>>
    \/ /\ part = "settings" /\ Settings!Next
       /\ UNCHANGED <<part, actionsVars, alertsVars, statsVars, telegramVars,
                      discordVars, streamVars, terminalVars, scansVars>>
    \/ /\ part = "scans" /\ Scans!Next
       /\ UNCHANGED <<part, actionsVars, alertsVars, statsVars, telegramVars,
                      discordVars, streamVars, terminalVars, settingsVars>>

vars == <<part, actionsVars, alertsVars, statsVars, telegramVars, discordVars,
          streamVars, terminalVars, settingsVars, scansVars>>

Spec == Init /\ [][Next]_vars

-----------------------------------------------------------------------------
(* Safety.  What a part promises holds of it while it stands still, too.   *)

\* Every variable of the nine modules keeps its type.
TypeOK ==
    /\ part = "actions" => Actions!TypeOK
    /\ part = "alerts" => Alerts!TypeOK
    /\ part = "stats" => Stats!TypeOK
    /\ part = "telegram" => Telegram!TypeOK
    /\ part = "discord" => Discord!TypeOK
    /\ part = "stream" => Stream!TypeOK
    /\ part = "terminal" => Terminal!TypeOK
    /\ part = "settings" => Settings!TypeOK
    /\ part = "scans" => Scans!TypeOK

\* Requests on one container: ContainerRequests, handlers.go and container.go.
ReplacedNotLost == part = "actions" => Actions!ReplacedNotLost

\* The settings in force and those in the database: ScannerSettings.
InForceWasSaved == part = "settings" => Settings!InForceWasSaved

\* The history of alerts, Telegram's updates over restarts and lost answers,
\* and Discord's events over connections and settings: AlertMonitor,
\* alerts/history.go; TelegramBot, telegram.go; DiscordBot, discord.go.
EachIsTakenOnce ==
    /\ part = "alerts" => Alerts!HistoryIsExact
    /\ part = "telegram" => Telegram!ForgottenIsTaken /\ Telegram!OncePerStart
    /\ part = "discord" => Discord!InteractionsAreTakenOnce

-----------------------------------------------------------------------------
(* Steps.                                                                  *)

\* The variables of a container in Coolify: ContainerRequests, client.go.
AskedForStays == Actions!AskedForStays

\* Heartbeats and their answers: DiscordBot, discord.go.
AnsweredStaysOpen == Discord!AnsweredStaysOpen

-----------------------------------------------------------------------------
(* Liveness, each under the fairness of its own part.                      *)

\* A swap of the Docker client and the leases of handlers: ContainerRequests.
OnlyLeaksHoldSwaps ==
    part = "actions" => (Actions!Fairness => Actions!OnlyLeaksHoldSwaps)

\* What stopped comes into the history: AlertMonitor, alerts/monitor.go.
StopsAreReported == part = "alerts" => (Alerts!Fairness => Alerts!StopsAreReported)

\* Old samples go, and Stop returns: StatsCollector, stats/collector.go.
SamplesComeAndGo == part = "stats" => (Stats!Fairness => Stats!SamplesComeAndGo)

\* Commands arrive and silent connections are left: TelegramBot, telegram.go;
\* DiscordBot, discord.go.
BotsGoOn ==
    /\ part = "telegram" => (Telegram!Fairness => Telegram!CommandsArrive)
    /\ part = "discord" => (Discord!Fairness => Discord!SilentIsLeft)


-----------------------------------------------------------------------------
(* Values for the run.                                                     *)

OneHost == [n \in Names |-> CHOOSE h \in Hosts : TRUE]
OneScanHost == [j \in Jobs |-> CHOOSE h \in Hosts : TRUE]
NothingOrAll == {{}, {"image", "args", "flag", "limit"}}
===============================================================================
