--------------------------- MODULE ScannerSettings ---------------------------
(***************************************************************************)
(* The scanner's settings: the environment, the table of settings in the   *)
(* database and the configuration in force, with the request that changes  *)
(* them (internal/api/scan_handlers.go), the loading of internal/scanner/  *)
(* db.go, and the two places that load, the start of the server and the    *)
(* hot-reload callback (cmd/server/main.go).                               *)
(*                                                                         *)
(* One setting stands for each way in which the code treats them:          *)
(*   image  the images, the default scanner and the minimal severity       *)
(*   args   the arguments of the scanners, and the webhooks                *)
(*   flag   the notifications, auto-scan, forced rescans                   *)
(*   limit  timeouts, memory and processes, which a request cannot carry   *)
(* What config.json says of the scanner counts as environment here.        *)
(*                                                                         *)
(* Operators marked "Fault" are plausible mistakes in the operator that    *)
(* follows them; no action uses them.                                      *)
(***************************************************************************)
EXTENDS Naturals

CONSTANTS
    Requests, \* requests that change the settings, each made once
    Chosen,   \* values that they can ask for
    Given,    \* possible environments: the sets of settings that they set
    MaxLoads  \* bound: reloads and restarts

VARIABLES
    environment,   \* what the environment says of a setting
    database,      \* the table of settings
    inForce,       \* ScannerService.config
    request,       \* where each request stands, and the settings it builds
    reload, loads, \* the callback, and how often settings were loaded
    saved          \* what has been in the table, by setting

vars == <<environment, database, inForce, request, reload, loads, saved>>

Fields == {"image", "args", "flag", "limit"}
Unset == "unset"
Default == "default"
FromEnvironment == "environment"
Zero == "zero" \* the empty string, or 0

BoundAssumption == MaxLoads \in Nat
ChosenAssumption == Chosen \cap {Unset, Default, FromEnvironment, Zero} = {}

Environments == {[f \in Fields |-> IF f \in G THEN FromEnvironment ELSE Unset] : G \in Given}
Empty == [f \in Fields |-> Unset]
Preset(f) == IF f = "args" THEN Zero ELSE Default

\* parseScannerConfig: every setting has a value, whether the environment has it or not.
EnvConfig(e) == [f \in Fields |-> IF e[f] # Unset THEN e[f] ELSE Preset(f)]

\* getSettingWithDefault and parseIntSetting: what is zero in the table counts as missing.
Stored(d, f) == IF d[f] \notin {Unset, Zero} THEN d[f] ELSE Preset(f)

\* LoadScannerSettings: what EnvConfig has, if it is not zero, and no flags.
LoadScannerSettings(e, d) ==
    [f \in Fields |->
        IF f # "flag" /\ EnvConfig(e)[f] # Zero THEN EnvConfig(e)[f] ELSE Stored(d, f)]

\* A table that cannot be read counts for nothing.
Loaded(e, d) == {LoadScannerSettings(e, d), EnvConfig(e)}

\* MigrateFromFileConfig fills an empty table; a failure is logged and no more.
Migrated(e, d) == IF d = Empty THEN {Empty, EnvConfig(e)} ELSE {d}

Over == [pc |-> "done", config |-> EnvConfig(Empty)]
Idle == [pc |-> "idle", config |-> EnvConfig(Empty)]

\* The first start of the server.
Init ==
    /\ environment \in Environments
    /\ database \in Migrated(environment, Empty)
    /\ inForce \in Loaded(environment, database)
    /\ request = [r \in Requests |-> [pc |-> "new", config |-> EnvConfig(Empty)]]
    /\ reload = Idle
    /\ loads = 0
    /\ saved = [f \in Fields |-> {database[f]}]

-----------------------------------------------------------------------------
(* UpdateScannerConfig.  The auto-scanner is not told.                     *)

\* What the request leaves out is taken from the settings in force, except for
\* args, which become empty, and limits, which become 0.
Build(r) ==
    /\ request[r].pc = "new"
    /\ \E image \in Chosen \cup {inForce["image"]}, args \in Chosen \cup {Zero},
          flag \in Chosen \cup {inForce["flag"]} :
        request' = [request EXCEPT ![r] = [pc |-> "built", config |->
            [f \in Fields |-> IF f = "image" THEN image
                              ELSE IF f = "args" THEN args
                              ELSE IF f = "flag" THEN flag ELSE Zero]]]
    /\ UNCHANGED <<environment, database, inForce, reload, loads, saved>>

Goto(r, pc) == request' = [request EXCEPT ![r].pc = pc]

Save(r) ==
    /\ request[r].pc = "built"
    /\ database' = request[r].config
    /\ saved' = [f \in Fields |-> saved[f] \cup {request[r].config[f]}]
    /\ Goto(r, "saved")
    /\ UNCHANGED <<environment, inForce, reload, loads>>

SaveFails(r) ==
    /\ request[r].pc = "built"
    /\ Goto(r, "failed")
    /\ UNCHANGED <<environment, database, inForce, reload, loads, saved>>

\* Fault: the settings come into force although they could not be saved.
UpdateAnyway(r) ==
    /\ request[r].pc \in {"saved", "failed"}
    /\ inForce' = request[r].config
    /\ request' = [request EXCEPT ![r] = Over]
    /\ UNCHANGED <<environment, database, reload, loads, saved>>

UpdateConfig(r) ==
    /\ request[r].pc = "saved"
    /\ inForce' = request[r].config
    /\ request' = [request EXCEPT ![r] = Over]
    /\ UNCHANGED <<environment, database, reload, loads, saved>>

-----------------------------------------------------------------------------
(* The callback, and the start of the server.                              *)

Load ==
    /\ reload.pc = "idle"
    /\ loads < MaxLoads
    /\ loads' = loads + 1
    /\ \/ reload' = [pc |-> "loaded", config |-> LoadScannerSettings(environment, database)]
       \/ reload' = [pc |-> "without table", config |-> EnvConfig(environment)]
    /\ UNCHANGED <<environment, database, inForce, request, saved>>

UpdateLoaded ==
    /\ reload.pc # "idle"
    /\ inForce' = reload.config
    /\ reload' = Idle
    /\ UNCHANGED <<environment, database, request, loads, saved>>

\* Requests under way are lost with the server.
Restart ==
    /\ loads < MaxLoads
    /\ loads' = loads + 1
    /\ database' \in Migrated(environment, database)
    /\ inForce' \in Loaded(environment, database')
    /\ saved' = [f \in Fields |-> saved[f] \cup {database'[f]}]
    /\ request' = [r \in Requests |-> IF request[r].pc = "new" THEN request[r] ELSE Over]
    /\ reload' = Idle
    /\ UNCHANGED environment

-----------------------------------------------------------------------------
Next ==
    \/ \E r \in Requests : Build(r) \/ Save(r) \/ SaveFails(r) \/ UpdateConfig(r)
    \/ Load
    \/ UpdateLoaded
    \/ Restart

Spec == Init /\ [][Next]_vars

-----------------------------------------------------------------------------
Values == Chosen \cup {Default, FromEnvironment, Zero}
Config == [Fields -> Values]

TypeOK ==
    /\ environment \in Environments
    /\ database \in [Fields -> Values \cup {Unset}]
    /\ inForce \in Config
    /\ request \in [Requests ->
            [pc : {"new", "built", "saved", "failed", "done"}, config : Config]]
    /\ reload \in [pc : {"idle", "loaded", "without table"}, config : Config]
    /\ loads \in 0..MaxLoads
    /\ saved \in [Fields -> SUBSET (Values \cup {Unset})]

(***************************************************************************)
(* What somebody chose is in force only if it has been in the database:    *)
(* with two requests, a reload and a failing save in any order, nothing is *)
(* in force, or passed on from the settings in force to the next request,  *)
(* whose sender was answered with an error (scan_handlers.go:366-402,      *)
(* main.go:181-184).                                                       *)
(***************************************************************************)
InForceWasSaved == \A f \in Fields : inForce[f] \in Chosen => inForce[f] \in saved[f]
=============================================================================
