------------------------------- MODULE MCPages --------------------------------
(***************************************************************************)
(* Eighteen parts of the frontend that share no state, checked side by     *)
(* side as MCServices checks those of the server: part says which of them  *)
(* moves, the others stay as they start.                                   *)
(***************************************************************************)
EXTENDS Integers, Sequences, FiniteSets, TLC

CONSTANTS
    Absent,             \* a model value
    Containers, Hosts, Images, Names, EnvNames, \* what there is
    EnvKeys, Formats, LineCounts, LogLevels, Texts, Sections, BotTokens, Values, Typed,
    ReadOnly,
    MaxIncarnations, MaxStreams, MaxFetches, MaxLogs, MaxLines, MaxSheets, MaxSheetLines,
    MaxSheetStreams, PageSizes, UrlPages, MaxFlows, MaxClicks, MaxContainers, MaxChanges, MaxJobs,
    MaxOpenings, MaxScans, MaxPage, PageSize, Filters, MaxRows, MaxEdits, MaxOthers, MaxSaves,
    Calls, MaxTokens, EnvFiles, EnvValues, Reached, MaxSockets, HistoryLength

VARIABLE part

VARIABLES \* of LogStreaming
    actual, listed, mounted, logLines, isStreaming, isLoadingLogs, logs,
    controller, streams, fetches, recreated
logsVars ==
    <<actual, listed, mounted, logLines, isStreaming, isLoadingLogs, logs,
      controller, streams, fetches, recreated>>

VARIABLES \* of LogView
    found, lines, selectedLevels, searchText, currentMatchIndex, open
viewVars == <<found, lines, selectedLevels, searchText, currentMatchIndex, open>>

VARIABLES \* of LogsSheet
    sheet, container, sheetLogLines, sheetStreaming, sheetLoading,
    sheetController, sheetStreams, sheetFetches, sheetLines, sheetLevels,
    sheetSearch, sheetMatch, sheetOpen
sheetVars ==
    <<sheet, container, sheetLogLines, sheetStreaming, sheetLoading,
      sheetController, sheetStreams, sheetFetches, sheetLines, sheetLevels,
      sheetSearch, sheetMatch, sheetOpen>>

VARIABLES \* of DashboardList
    listing, params, selected
listVars == <<listing, params, selected>>

VARIABLES \* of ContainerActions
    server, rows, chosen, pendingAction, confirmAction, flows, agreed, logsOf,
    saving, clicks
actVars ==
    <<server, rows, chosen, pendingAction, confirmAction, flows, agreed, logsOf,
      saving, clicks>>

VARIABLES \* of EnvironmentForm
    envContainer, envServer, cache, isEditing, editedEnv, deletedKeys,
    showAddNew, file, parsedEnvFile, asking, sent, base, touched, changes
formVars ==
    <<envContainer, envServer, cache, isEditing, editedEnv, deletedKeys,
      showAddNew, file, parsedEnvFile, asking, sent, base, touched, changes>>

VARIABLES \* of ScanDialogs
    jobs, asked, openings, scan, bulk, seen
dialogVars == <<jobs, asked, openings, scan, bulk, seen>>

VARIABLES \* of SbomDialog
    sbomJobs, sbomAsked, downloads, sbomOpenings, dialog, sbomJob,
    activeSBOMJobIds, announced, sbomedImages, stale
sbomVars ==
    <<sbomJobs, sbomAsked, downloads, sbomOpenings, dialog, sbomJob,
      activeSBOMJobIds, announced, sbomedImages, stale>>

VARIABLES \* of ImagesPage
    there, query, images, imageSearch, imageToDelete, removals,
    isPullDialogOpen, imageName, selectedHosts, pull, strays, imageFlows, imagesUntold
imagesVars ==
    <<there, query, images, imageSearch, imageToDelete, removals,
      isPullDialogOpen, imageName, selectedHosts, pull, strays, imageFlows,
      imagesUntold>>

VARIABLES \* of HistoryPage
    stored, page, filtered, descending, pages, historyFetch, selectedScanId,
    deletion, deleted
historyVars ==
    <<stored, page, filtered, descending, pages, historyFetch, selectedScanId,
      deletion, deleted>>

VARIABLES \* of SbomHistory
    sbomsStored, sbomPage, sbomFiltered, sbomDescending, sbomPages, sbomFetch,
    selectedSBOMId, sbomDeletion, sbomsDeleted, sbomsMade, read
sbomHistoryVars ==
    <<sbomsStored, sbomPage, sbomFiltered, sbomDescending, sbomPages, sbomFetch,
      selectedSBOMId, sbomDeletion, sbomsDeleted, sbomsMade, read>>

VARIABLES \* of TerminalPanel
    containerId, isConnected, isReconnecting, sockets, cleanupRef, keyTo
terminalVars ==
    <<containerId, isConnected, isReconnecting, sockets, cleanupRef, keyTo>>

VARIABLES \* of StatsPanel
    shown, enabled, isLive, statsError, samples, wsRef, statsSockets
statsVars == <<shown, enabled, isLive, statsError, samples, wsRef, statsSockets>>

VARIABLES \* of ProcessesPage
    running, rules, store, ruleFile, torn, walk, processRows, kosList, kosFetch,
    toggles, rulesAsked, removed, promised, victims, untold
processVars ==
    <<running, rules, store, ruleFile, torn, walk, processRows, kosList,
      kosFetch, toggles, rulesAsked, removed, promised, victims, untold>>

VARIABLES \* of DatabasesPage
    catalogue, catalogueChanges, failures, chosenPath, answers, requests,
    rounds, picked
databasesVars ==
    <<catalogue, catalogueChanges, failures, chosenPath, answers, requests,
      rounds, picked>>

VARIABLES \* of HostsEditor
    section, storedHosts, hostOthers, listedHosts, hostsFetch, fileHosts, edits,
    editing, isAdding, save, testingKeys, latest, overtaken
hostsVars ==
    <<section, storedHosts, hostOthers, listedHosts, hostsFetch, fileHosts,
      edits, editing, isAdding, save, testingKeys, latest, overtaken>>

VARIABLES \* of SettingsForms
    form, configured, others, saves, config, fetch, draft, request, typed
formsVars ==
    <<form, configured, others, saves, config, fetch, draft, request, typed>>

VARIABLES \* of AuthSession
    authOn, accepted, issued, storage, token, user, isLoading, isAuthEnabled,
    path, verify, login, call
sessionVars ==
    <<authOn, accepted, issued, storage, token, user, isLoading, isAuthEnabled,
      path, verify, login, call>>

NoLevel == "no level"
NoText == ""

\* Three containers of one project at two hosts.
Listed == {"a", "b", "c"}
HostOfListed == [c \in Listed |-> IF c = "a" THEN "h1" ELSE "h2"]
ProjectOfListed == [c \in Listed |-> "p"]
RankOfListed == [c \in Listed |-> CASE c = "a" -> 1 [] c = "b" -> 2 [] c = "c" -> 3]
Alphabet == [s \in {"exited", "running"} |-> IF s = "exited" THEN 1 ELSE 2]
Finds == [text \in {""} |-> Listed]
Covers == [range \in {"none"} |-> Listed]

\* Two containers, one of which is replaced when it is changed.
Replacements == [id \in {"a"} |-> "a2"]

\* A .env file that sets a variable to the empty string.
OneFile == {[k \in {"k1", "k2"} |-> IF k = "k1" THEN "" ELSE "va"]}

FirstHosts == {<<[name |-> "a", value |-> "va"]>>}

\* A process that comes back under other names, and a protected one.
NamedByRules == [r \in {"evil", "evil*", "web", "w*"} |->
                    IF r \in {"evil", "evil*"} THEN {"evil"} ELSE {"web"}]
OwnRules == [n \in {"evil"} |-> "evil"]
SuggestedRules == [n \in {"evil"} |-> "evil*"]
RuleFiles == {{"evil", "web", "w*"}}

\* Two instances with a database of the same name, of which the first may be
\* away.
DatabaseCatalogues ==
    LET all == {<<1>>, <<2>>, <<1, 2>>, <<2, 2>>, <<2, 2, 1>>}
    IN  {all, {p \in all : p[1] = 2}}

Logs == INSTANCE LogStreaming
View == INSTANCE LogView WITH Levels <- LogLevels
Sheet == INSTANCE LogsSheet WITH Levels <- LogLevels,
    MaxStreams <- MaxSheetStreams, MaxLines <- MaxSheetLines, logLines <- sheetLogLines,
    isStreaming <- sheetStreaming, isLoadingLogs <- sheetLoading,
    controller <- sheetController, streams <- sheetStreams, fetches <- sheetFetches,
    lines <- sheetLines, selectedLevels <- sheetLevels, searchText <- sheetSearch,
    currentMatchIndex <- sheetMatch, open <- sheetOpen
List == INSTANCE DashboardList WITH Containers <- Listed,
    States <- {"running", "exited"}, HostOf <- HostOfListed,
    ProjectOf <- ProjectOfListed, Rank <- RankOfListed, Searches <- {""},
    Ranges <- {"none"}
Actions == INSTANCE ContainerActions WITH None <- Absent,
    Ids <- {"a", "b", "a2"},
    DockerIds <- {"a", "b", "a2"}, Replacement <- Replacements, selected <- chosen,
    sheet <- logsOf
Env == INSTANCE EnvironmentForm WITH None <- Absent, Keys <- EnvKeys,
    Files <- EnvFiles, Values <- EnvValues, Empty <- "",
    container <- envContainer, server <- envServer
Scans == INSTANCE ScanDialogs
Sboms == INSTANCE SbomDialog WITH jobs <- sbomJobs, asked <- sbomAsked,
    openings <- sbomOpenings
Pulls == INSTANCE ImagesPage WITH Images <- {"a"}, searchText <- imageSearch,
    flows <- imageFlows, untold <- imagesUntold
History == INSTANCE HistoryPage WITH Matching <- {1},
    Orders <- {TRUE}, cache <- pages, fetch <- historyFetch
SbomPage == INSTANCE SbomHistory WITH Matching <- {}, MaxScans <- 1, MaxPage <- 1,
    Orders <- BOOLEAN, stored <- sbomsStored, page <- sbomPage,
    filtered <- sbomFiltered, descending <- sbomDescending, cache <- sbomPages,
    fetch <- sbomFetch, selectedScanId <- selectedSBOMId, deletion <- sbomDeletion,
    deleted <- sbomsDeleted, made <- sbomsMade
Terminal == INSTANCE TerminalPanel WITH typed <- keyTo
Stats == INSTANCE StatsPanel WITH isConnected <- isLive, error <- statsError,
    history <- samples, sockets <- statsSockets
Procs == INSTANCE ProcessesPage WITH Names <- {"evil", "web"}, Protected <- {"web"},
    Rules <- {"evil", "evil*", "web", "w*"}, NamedBy <- NamedByRules,
    NameRule <- OwnRules, Suggested <- SuggestedRules, Exact <- {"web"},
    FirstFiles <- RuleFiles, OtherRules <- {"evil*"}, names <- rules,
    file <- ruleFile, listed <- processRows, asked <- rulesAsked
Bases == INSTANCE DatabasesPage WITH Instances <- 1..2, Databases <- 1..2,
    Tables <- {1}, Catalogues <- DatabaseCatalogues, MaxChanges <- 1,
    MaxFailures <- 1, changes <- catalogueChanges, selected <- chosenPath,
    cache <- answers, fetch <- requests
Editor == INSTANCE HostsEditor WITH First <- FirstHosts, stored <- storedHosts,
    others <- hostOthers, listed <- listedHosts, fetch <- hostsFetch
Forms == INSTANCE SettingsForms WITH Tokens <- BotTokens, server <- configured,
    touched <- typed
Session == INSTANCE AuthSession

ASSUME HistoryAssumption == History!PageAssumption /\ MaxScans \in Nat

ASSUME BoundsAssumption ==
    /\ MaxStreams \in Nat /\ MaxFetches \in Nat
    /\ MaxSheets \in Nat /\ MaxSheetStreams \in Nat
    /\ HistoryLength \in Nat
    /\ MaxJobs \in Nat /\ MaxOpenings \in Nat
    /\ MaxFlows \in Nat /\ MaxClicks \in Nat
    /\ MaxOthers \in Nat /\ MaxSaves \in Nat
    /\ MaxIncarnations \in Nat \ {0} /\ MaxTokens \in Nat \ {0}
    /\ MaxContainers \in Nat \ {0} /\ MaxChanges \in Nat

\* The words for no token and for a token that is not shown are no tokens.
ASSUME TokensAssumption == "none" \notin BotTokens /\ "masked" \notin BotTokens

\* A page has a size.
ASSUME PagesAssumption == PageSizes \subseteq Nat \ {0} /\ UrlPages \subseteq Int

\* The hosts of the file have other names than those of the environment, which
\* the server leaves out of its file's.
ASSUME HostsAssumption ==
    /\ EnvNames \cap Names = {} /\ Typed \subseteq Values
    /\ "a" \in Names /\ "va" \in Values
    /\ MaxRows \in Nat \ {0} /\ MaxEdits \in Nat

\* What a form starts with is one of its choices, and a .env file sets
\* variables.
ASSUME ChoicesAssumption ==
    /\ LineCounts # {} /\ "spdx-json" \in Formats
    /\ EnvFiles \subseteq Env!Environments

ASSUME HostsAreFinite == IsFiniteSet(Hosts)

ASSUME ReachedAssumption == Reached \subseteq Images

\* The words for "no container" are no containers.
ASSUME ContainersAssumption == "none" \notin Containers /\ "closed" \notin Containers

Parts == {"logs", "view", "sheet", "list", "actions", "environment", "scans", "sboms",
          "images", "history", "sbomHistory", "terminal", "stats",
          "processes", "databases", "hosts", "forms", "session"}

\* A part that does not move has one initial state.
Init ==
    /\ part \in Parts
    /\ Logs!Init /\ logLines = 1
    /\ View!ViewInit
    /\ Sheet!SheetInit
    /\ List!ListInit
    /\ part # "list" => params.page = 1 /\ params.pageSize = 2 /\ params.group = "none"
    /\ Actions!ActionsInit
    /\ \A id \in DOMAIN server \ {"a"} : server[id] = "running"
    /\ part # "actions" => server["a"] = "running"
    /\ Env!FormInit /\ envServer[1] = << >>
    /\ Scans!DialogInit /\ Sboms!SbomInit
    /\ Pulls!ImagesInit /\ (part # "images" => there = {})
    /\ History!HistoryInit /\ (part # "history" => stored = {})
    /\ SbomPage!SbomHistoryInit /\ (part # "sbomHistory" => sbomsStored = {})
    /\ Terminal!TerminalInit
    /\ Stats!StatsInit
    /\ Procs!ProcessesInit
    /\ Bases!DatabasesInit /\ (part # "databases" => Cardinality(catalogue) = 5)
    /\ Editor!HostsInit /\ (part # "hosts" => section = "docker")
    /\ Forms!FormsInit /\ (part # "forms" => form = "scanner" /\ config.value = "va")
    /\ Session!SessionInit
    /\ part # "session" => authOn /\ issued = 0 /\ path = "login"

Next ==
    \/ /\ part = "logs" /\ Logs!Next
       /\ UNCHANGED <<part, viewVars, sheetVars, listVars, actVars, formVars,
                      dialogVars, sbomVars, imagesVars, historyVars,
                      sbomHistoryVars, terminalVars, statsVars, processVars,
                      databasesVars, hostsVars, formsVars, sessionVars>>
    \/ /\ part = "view" /\ View!ViewNext
       /\ UNCHANGED <<part, logsVars, sheetVars, listVars, actVars, formVars,
                      dialogVars, sbomVars, imagesVars, historyVars,
                      sbomHistoryVars, terminalVars, statsVars, processVars,
                      databasesVars, hostsVars, formsVars, sessionVars>>
    \/ /\ part = "sheet" /\ Sheet!SheetNext
       /\ UNCHANGED <<part, logsVars, viewVars, listVars, actVars, formVars,
                      dialogVars, sbomVars, imagesVars, historyVars,
                      sbomHistoryVars, terminalVars, statsVars, processVars,
                      databasesVars, hostsVars, formsVars, sessionVars>>
    \/ /\ part = "list" /\ List!ListNext
       /\ UNCHANGED <<part, logsVars, viewVars, sheetVars, actVars, formVars,
                      dialogVars, sbomVars, imagesVars, historyVars,
                      sbomHistoryVars, terminalVars, statsVars, processVars,
                      databasesVars, hostsVars, formsVars, sessionVars>>
    \/ /\ part = "actions" /\ Actions!ActionsNext
       /\ UNCHANGED <<part, logsVars, viewVars, sheetVars, listVars, formVars,
                      dialogVars, sbomVars, imagesVars, historyVars,
                      sbomHistoryVars, terminalVars, statsVars, processVars,
                      databasesVars, hostsVars, formsVars, sessionVars>>
    \/ /\ part = "environment" /\ Env!FormNext
       /\ UNCHANGED <<part, logsVars, viewVars, sheetVars, listVars, actVars,
                      dialogVars, sbomVars, imagesVars, historyVars,
                      sbomHistoryVars, terminalVars, statsVars, processVars,
                      databasesVars, hostsVars, formsVars, sessionVars>>
    \/ /\ part = "scans" /\ Scans!DialogNext
       /\ UNCHANGED <<part, logsVars, viewVars, sheetVars, listVars, actVars,
                      formVars, sbomVars, imagesVars, historyVars,
                      sbomHistoryVars, terminalVars, statsVars, processVars,
                      databasesVars, hostsVars, formsVars, sessionVars>>
    \/ /\ part = "sboms" /\ Sboms!SbomNext
       /\ UNCHANGED <<part, logsVars, viewVars, sheetVars, listVars, actVars,
                      formVars, dialogVars, imagesVars, historyVars,
                      sbomHistoryVars, terminalVars, statsVars, processVars,
                      databasesVars, hostsVars, formsVars, sessionVars>>
    \/ /\ part = "images" /\ Pulls!ImagesNext
       /\ UNCHANGED <<part, logsVars, viewVars, sheetVars, listVars, actVars,
                      formVars, dialogVars, sbomVars, historyVars,
                      sbomHistoryVars, terminalVars, statsVars, processVars,
                      databasesVars, hostsVars, formsVars, sessionVars>>
    \/ /\ part = "history" /\ History!HistoryNext
       /\ UNCHANGED <<part, logsVars, viewVars, sheetVars, listVars, actVars,
                      formVars, dialogVars, sbomVars, imagesVars, sbomHistoryVars,
                      terminalVars, statsVars, processVars, databasesVars,
                      hostsVars, formsVars, sessionVars>>
    \/ /\ part = "sbomHistory" /\ SbomPage!SbomHistoryNext
       /\ UNCHANGED <<part, logsVars, viewVars, sheetVars, listVars, actVars,
                      formVars, dialogVars, sbomVars, imagesVars, historyVars,
                      terminalVars, statsVars, processVars, databasesVars,
                      hostsVars, formsVars, sessionVars>>
    \/ /\ part = "terminal" /\ Terminal!TerminalNext
       /\ UNCHANGED <<part, logsVars, viewVars, sheetVars, listVars, actVars,
                      formVars, dialogVars, sbomVars, imagesVars, historyVars,
                      sbomHistoryVars, statsVars, processVars, databasesVars,
                      hostsVars, formsVars, sessionVars>>
    \/ /\ part = "stats" /\ Stats!StatsNext
       /\ UNCHANGED <<part, logsVars, viewVars, sheetVars, listVars, actVars,
                      formVars, dialogVars, sbomVars, imagesVars, historyVars,
                      sbomHistoryVars, terminalVars, processVars, databasesVars,
                      hostsVars, formsVars, sessionVars>>
    \/ /\ part = "processes" /\ Procs!ProcessesNext
       /\ UNCHANGED <<part, logsVars, viewVars, sheetVars, listVars, actVars,
                      formVars, dialogVars, sbomVars, imagesVars, historyVars,
                      sbomHistoryVars, terminalVars, statsVars, databasesVars,
                      hostsVars, formsVars, sessionVars>>
    \/ /\ part = "databases" /\ Bases!DatabasesNext
       /\ UNCHANGED <<part, logsVars, viewVars, sheetVars, listVars, actVars,
                      formVars, dialogVars, sbomVars, imagesVars, historyVars,
                      sbomHistoryVars, terminalVars, statsVars, processVars,
                      hostsVars, formsVars, sessionVars>>
    \/ /\ part = "hosts" /\ Editor!HostsNext
       /\ UNCHANGED <<part, logsVars, viewVars, sheetVars, listVars, actVars,
                      formVars, dialogVars, sbomVars, imagesVars, historyVars,
                      sbomHistoryVars, terminalVars, statsVars, processVars,
                      databasesVars, formsVars, sessionVars>>
    \/ /\ part = "forms" /\ Forms!FormsNext
       /\ UNCHANGED <<part, logsVars, viewVars, sheetVars, listVars, actVars,
                      formVars, dialogVars, sbomVars, imagesVars, historyVars,
                      sbomHistoryVars, terminalVars, statsVars, processVars,
                      databasesVars, hostsVars, sessionVars>>
    \/ /\ part = "session" /\ Session!SessionNext
       /\ UNCHANGED <<part, logsVars, viewVars, sheetVars, listVars, actVars,
                      formVars, dialogVars, sbomVars, imagesVars, historyVars,
                      sbomHistoryVars, terminalVars, statsVars, processVars,
                      databasesVars, hostsVars, formsVars>>

vars == <<part, logsVars, viewVars, sheetVars, listVars, actVars, formVars,
          dialogVars, sbomVars, imagesVars, historyVars, sbomHistoryVars,
          terminalVars, statsVars, processVars, databasesVars, hostsVars,
          formsVars, sessionVars>>

Spec == Init /\ [][Next]_vars

-----------------------------------------------------------------------------
(* Safety.                                                                 *)

\* Every variable of the eighteen modules keeps its type.
TypeOK ==
    /\ part = "logs" => Logs!TypeOK
    /\ part = "view" => View!ViewTypeOK
    /\ part = "sheet" => Sheet!SheetTypeOK
    /\ part = "list" => List!ListTypeOK
    /\ part = "actions" => Actions!ActionsTypeOK
    /\ part = "environment" => Env!FormTypeOK
    /\ part = "scans" => Scans!DialogTypeOK
    /\ part = "sboms" => Sboms!SbomTypeOK
    /\ part = "images" => Pulls!ImagesTypeOK
    /\ part = "history" => History!HistoryTypeOK
    /\ part = "sbomHistory" => SbomPage!SbomHistoryTypeOK
    /\ part = "terminal" => Terminal!TerminalTypeOK
    /\ part = "stats" => Stats!StatsTypeOK
    /\ part = "processes" => Procs!ProcessesTypeOK
    /\ part = "databases" => Bases!DatabasesTypeOK
    /\ part = "hosts" => Editor!HostsTypeOK
    /\ part = "forms" => Forms!FormsTypeOK
    /\ part = "session" => Session!SessionTypeOK

\* The streams and sockets a panel opens stay in its reach: LogStreaming,
\* LogsSheet, StatsPanel, TerminalPanel.
StreamsStayInReach ==
    /\ part = "logs" => Logs!StoppableUnlessOverlapped /\ Logs!LoadingIsAsked
    /\ part = "sheet" => Sheet!SheetStoppable
    /\ part = "stats" => Stats!StatsStayInReach /\ Stats!LiveIsOpen
    /\ part = "terminal" => Terminal!OneTerminal /\ Terminal!StatusIsOfTheSocket

\* What is ticked is shown, what is stopped was agreed to, and what is killed
\* was named: DashboardList, ContainerActions, ProcessesPage.
OnlyWhatIsMeantIsStopped ==
    /\ part = "list" => List!PageShowsWhatIsTicked
    /\ part = "actions" => Actions!OnlyAgreedIsStopped
    /\ part = "processes" => Procs!KilledWasNamed /\ Procs!RulesAreAsAnswered

\* The environment that is sent: EnvironmentForm, environment-variables.tsx.
UntouchedIsKept == part = "environment" => Env!UntouchedIsKept

\* The dialogs of scans and SBOMs: ScanDialogs, SbomDialog.
DialogsShowTheirOwn ==
    /\ part = "scans" => Scans!DialogsShowTheirOwn
    /\ part = "sboms" => Sboms!DocumentIsOfThisImage

\* The tables of images and of past scans and SBOMs, the switches of
\* processes, the page of databases, the draft of hosts and the forms:
\* ImagesPage, HistoryPage, SbomHistory, ProcessesPage, DatabasesPage,
\* HostsEditor, SettingsForms.
PagesShowTheServer ==
    /\ part = "images" => Pulls!RestShowsTheHosts
    /\ part = "history" => History!DeletedIsGone
    /\ part = "sbomHistory" => SbomPage!DeletedSbomIsGone
    /\ part = "processes" => Procs!SwitchesShowTheRules
    /\ part = "databases" => Bases!EffectsSettle /\ Bases!PickIsShown
    /\ part = "hosts" => Editor!DoneChangesTheRow /\ Editor!SpinnersAreTests
    /\ part = "forms" => Forms!FormShowsTheServer /\ Forms!TestIsOfTheForm
                         /\ Forms!SecretsAreKept

\* Steps: the arrows of a search, a cancelled pull, a masked token, and the
\* token of a session (LogView, ImagesPage, HostsEditor, AuthSession).
StepsKeepWhatTheyMust ==
    /\ View!NextLandsOnMatch
    /\ Sheet!View!NextLandsOnMatch
    /\ Pulls!CancelledAsksNoMore
    /\ Editor!MaskedIsKept
    /\ Session!GoodTokensStay

-----------------------------------------------------------------------------
\* Liveness: what was started in a dialog is followed to its end, under the
\* fairness of its part (ScanDialogs, SbomDialog).
StartedIsFollowed ==
    /\ part = "scans" => (Scans!Fairness => Scans!StartedIsFollowed)
    /\ part = "sboms" => (Sboms!Fairness => Sboms!GeneratedIsMarked)
===============================================================================
