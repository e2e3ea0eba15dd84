---------------------------- MODULE ConfigReload ----------------------------
(***************************************************************************)
(* Changing the configuration of a running server: config.Manager          *)
(* (internal/config/manager.go), which owns the config file, and the       *)
(* hot-reload callback of cmd/server/main.go, which takes a new            *)
(* configuration into the service registry.                                *)
(*                                                                         *)
(* A settings request updates one category of the file configuration       *)
(* under the write lock, saves the file, merges it with what the           *)
(* environment sets and then runs the callback under the read lock, unless *)
(* a later update has overtaken it.  The callback replaces the Docker      *)
(* client, which waits until the old client's leases are returned (see     *)
(* DockerRegistry), and asks the Manager for the file configuration and    *)
(* the sources, which takes the read lock again.                           *)
(*                                                                         *)
(* Three of the six categories are modelled: the Docker hosts, the Coolify *)
(* hosts and the authentication.  The read-only flag, bot and scanner take *)
(* the same path with a guard like one of these, and what the callback     *)
(* does for them cannot fail.  A host name stands for the name and the     *)
(* address of a host.                                                      *)
(***************************************************************************)
EXTENDS Naturals, FiniteSets

CONSTANTS
    Updates,        \* goroutines of settings requests, each one at a time
    Readers,        \* goroutines that read from the Manager
    NoThread,
    Users,          \* holders of leases on the Docker client
    HostNames,
    LocalHost,      \* the host when nothing is configured
    BadHosts,       \* hosts for which no API client can be made
    CoolifyHosts,   \* hosts with a Coolify instance
    Environments,   \* environments the server may be started in
    Credentials,    \* values of an enabled auth section
    MaxGeneration   \* bound: updates between two starts of the server

Threads == Updates \cup Readers
Off == "off"        \* authentication disabled
Env == "env"        \* the auth service made from the environment
NoAuth == "none"    \* no auth section in the file

ASSUME ThreadAssumption == Updates \cap Readers = {} /\ NoThread \notin Threads
ASSUME HostAssumption == LocalHost \notin HostNames \cup BadHosts
ASSUME EnvironmentAssumption ==
    Environments \subseteq [hosts : SUBSET HostNames, coolify : SUBSET CoolifyHosts,
                            auth : BOOLEAN]
ASSUME BoundAssumption == MaxGeneration \in Nat
ASSUME CredentialAssumption == Credentials \cap {Off, Env, NoAuth} = {}

VARIABLES
    \* the environment: its hosts, and whether it sets up the
    \* authentication; the config file and the Manager
    env, disk, fileConfig, merged, generation,
    \* Manager.mu
    writer, depth, parked,
    \* locals of the update requests
    pc, gen, cfg, fc,
    \* what the callback has installed: the registry, the alert monitor, and
    \* everything else (scanner, auto-scanner, bot)
    config, docker, coolify, auth, monitor, services,
    \* whether the last callback warned that it has made no Coolify clients
    warned,
    \* leases on the Docker client, and whether the server runs
    lease, up

INSTANCE RWMutex

manager == <<env, disk, fileConfig, merged, generation>>
mutex == <<writer, depth, parked>>
locals == <<gen, cfg, fc>>
installed == <<config, docker, coolify, warned, auth, monitor, services>>
vars == <<manager, mutex, pc, locals, installed, lease, up>>

FileConfigs == [hosts : SUBSET HostNames, coolify : SUBSET CoolifyHosts,
                auth : Credentials \cup {Off, NoAuth}]

-----------------------------------------------------------------------------
\* Hosts with their source.  Environment hosts win on a name collision.
EnvFirst(fromEnv, fromFile) == (fromEnv \X {"env"}) \cup ((fromFile \ fromEnv) \X {"file"})

\* Without any Docker host there is one.
MergeHosts(e, hosts) ==
    IF e.hosts \cup hosts = {} THEN {<<LocalHost, "default">>} ELSE EnvFirst(e.hosts, hosts)

AuthSource(e, file) ==
    IF e.auth THEN "env" ELSE IF file.auth # NoAuth THEN "file" ELSE "default"

merge(e, file) ==
    [hosts |-> MergeHosts(e, file.hosts), coolify |-> EnvFirst(e.coolify, file.coolify),
     authSource |-> AuthSource(e, file)]

NewServiceFromFileConfig(a) == IF a \in Credentials THEN a ELSE Off

\* NewMultiHostClient fails as a whole if it fails for one host.
CanConnect(hosts) == \A h \in hosts : h[1] \notin BadHosts

\* So does coolify.NewMultiClient, which looks up the hosts' addresses: whether
\* it can is known only when it has tried, unless there is nothing to make.
CoolifyMade(hosts) == {TRUE} \cup (IF hosts = {} THEN {} ELSE {FALSE})

-----------------------------------------------------------------------------
(* main: the server loads the file, merges it and installs the result.  It *)
(* does not start (log.Fatalf) when Docker or Coolify clients cannot be    *)
(* made.                                                                   *)

BootAuth(e, file) == IF e.auth THEN Env ELSE NewServiceFromFileConfig(file.auth)

Init ==
    /\ env \in Environments
    /\ disk \in {f \in FileConfigs : CanConnect(merge(env, f).hosts)}
    /\ fileConfig = disk
    /\ merged = merge(env, disk)
    /\ generation = 0
    /\ FreeLock
    /\ pc = [t \in Threads |-> "idle"]
    /\ gen = [u \in Updates |-> 0]
    /\ cfg = [u \in Updates |-> merged]
    /\ fc = [u \in Updates |-> disk]
    /\ config = merged
    /\ docker = merged.hosts
    /\ monitor = merged.hosts
    /\ services = merged
    /\ coolify = merged.coolify
    /\ warned = FALSE
    /\ auth = BootAuth(env, disk)
    /\ lease = [x \in Users |-> "none"]
    /\ up = TRUE

\* The server dies, at any moment, and is started again, in any environment.
Restart ==
    /\ env' \in Environments
    /\ UNCHANGED disk
    /\ fileConfig' = disk
    /\ merged' = merge(env', disk)
    /\ \E made \in CoolifyMade(merged'.coolify) : up' = (CanConnect(merged'.hosts) /\ made)
    /\ generation' = 0
    /\ writer' = NoThread
    /\ depth' = [t \in Threads |-> 0]
    /\ parked' = {}
    /\ pc' = [t \in Threads |-> "idle"]
    /\ gen' = [u \in Updates |-> 0]
    /\ cfg' = [u \in Updates |-> merged']
    /\ fc' = [u \in Updates |-> disk]
    /\ config' = merged'
    /\ docker' = merged'.hosts
    /\ monitor' = merged'.hosts
    /\ services' = merged'
    /\ coolify' = merged'.coolify
    /\ warned' = FALSE
    /\ auth' = BootAuth(env', disk)
    /\ lease' = [x \in Users |-> "none"]

-----------------------------------------------------------------------------
(* Manager.Update*.  Move is one step of the goroutine of t.               *)

Move(t, from, to) ==
    /\ up
    /\ t \notin parked
    /\ pc[t] = from
    /\ pc' = [pc EXCEPT ![t] = to]
    /\ UNCHANGED up

Request(u) ==
    /\ generation < MaxGeneration
    /\ Move(u, "idle", "locking")
    /\ Announce(u)
    /\ UNCHANGED <<manager, locals, installed, lease>>

\* What a request makes of the file configuration.  The handler and the
\* Manager refuse the rest: no hosts at all, hosts of the environment, an auth
\* section next to the environment's.  An auth section is never removed.
HostChanges ==
    {[fileConfig EXCEPT !.hosts = h] :
        h \in {s \in SUBSET (HostNames \ env.hosts) : s # {} \/ env.hosts # {}}}
CoolifyChanges == {[fileConfig EXCEPT !.coolify = c] : c \in SUBSET (CoolifyHosts \ env.coolify)}
AuthChanges ==
    IF env.auth THEN {}
    ELSE {[fileConfig EXCEPT !.auth = a] : a \in Credentials \cup {Off}}

\* Fault: an early return forgets the Unlock.
RefuseKeepingLock(u) ==
    /\ Move(u, "locking", "idle")
    /\ Locked(u)
    /\ UNCHANGED <<manager, mutex, locals, installed, lease>>

\* Fault: the new value stays in memory when the file cannot be written.
RefuseKeepingValue(u) ==
    /\ Move(u, "locking", "idle")
    /\ Unlock(u)
    /\ fileConfig' \in {fileConfig} \cup HostChanges
    /\ UNCHANGED <<env, disk, merged, generation, locals, installed, lease>>

\* The guard refuses, or persist fails and the old value is put back.
Refuse(u) ==
    /\ Move(u, "locking", "idle")
    /\ Unlock(u)
    /\ UNCHANGED <<manager, locals, installed, lease>>

\* persist replaces the file with a rename, remerge goes on to its Unlock.
Save(u) ==
    /\ Move(u, "locking", "merged")
    /\ Unlock(u)
    /\ fileConfig' \in HostChanges \cup CoolifyChanges \cup AuthChanges
    /\ disk' = fileConfig'
    /\ merged' = merge(env, fileConfig')
    /\ generation' = generation + 1
    /\ gen' = [gen EXCEPT ![u] = generation']
    /\ cfg' = [cfg EXCEPT ![u] = merged']
    /\ UNCHANGED <<env, fc, installed, lease>>

EnterCallbacks(u) ==
    /\ Move(u, "merged", "checking")
    /\ RLock(u)
    /\ UNCHANGED <<manager, locals, installed, lease>>

\* Fault: an RUnlock on the early return, and a deferred one.
OvertakenTwice(u) ==
    /\ gen[u] # generation
    /\ Move(u, "checking", "idle")
    /\ depth' = [depth EXCEPT ![u] = @ - 2]
    /\ UNCHANGED <<manager, writer, parked, locals, installed, lease>>

Overtaken(u) ==
    /\ gen[u] # generation
    /\ Move(u, "checking", "idle")
    /\ RUnlock(u)
    /\ UNCHANGED <<manager, locals, installed, lease>>

-----------------------------------------------------------------------------
(* The callback registered with OnChange.                                  *)

\* Fault: remerge does not compare generations.
BeginUnchecked(u) ==
    /\ Move(u, "checking", "docker")
    /\ config' = cfg[u]
    /\ UNCHANGED <<manager, mutex, locals, docker, coolify, warned, auth, monitor, services, lease>>

BeginReload(u) ==
    /\ gen[u] = generation
    /\ Move(u, "checking", "docker")
    /\ config' = cfg[u]
    /\ UNCHANGED <<manager, mutex, locals, docker, coolify, warned, auth, monitor, services, lease>>

ConnectFails(u) ==
    /\ ~CanConnect(cfg[u].hosts)
    /\ Move(u, "docker", "coolify")
    /\ UNCHANGED <<manager, mutex, locals, installed, lease>>

SwapDocker(u) ==
    /\ CanConnect(cfg[u].hosts)
    /\ Move(u, "docker", "swapping")
    /\ docker' = cfg[u].hosts
    /\ lease' = [x \in Users |-> IF lease[x] = "current" THEN "retired" ELSE lease[x]]
    /\ UNCHANGED <<manager, mutex, locals, config, coolify, warned, auth, monitor, services>>

\* Fault: the monitor is left with the closed client.
CloseOldOnly(u) ==
    /\ \A x \in Users : lease[x] # "retired"
    /\ Move(u, "swapping", "coolify")
    /\ UNCHANGED <<manager, mutex, locals, installed, lease>>

\* SwapDocker returns once the old client's leases have; then the alert
\* monitor, which takes no leases, gets the new client.
CloseOld(u) ==
    /\ \A x \in Users : lease[x] # "retired"
    /\ Move(u, "swapping", "coolify")
    /\ monitor' = docker
    /\ UNCHANGED <<manager, mutex, locals, config, docker, coolify, warned, auth, services, lease>>

\* Coolify clients that cannot be made leave the old ones where they are.
SwapCoolify(u) ==
    /\ Move(u, "coolify", "snapshot")
    /\ \E made \in CoolifyMade(cfg[u].coolify) :
         /\ coolify' = IF made THEN cfg[u].coolify ELSE coolify
         /\ warned' = ~made
    /\ UNCHANGED <<manager, mutex, locals, config, docker, auth, monitor, services, lease>>

\* manager.FileConfigSnapshot() and manager.Sources(), inside the read lock.
LockAgain(u) ==
    /\ \/ Move(u, "snapshot", "snapshotting")
       \/ Move(u, "sources", "sourcing")
    /\ RLock(u)
    /\ UNCHANGED <<manager, locals, installed, lease>>

Snapshot(u) ==
    /\ Move(u, "snapshotting", "sources")
    /\ RUnlock(u)
    /\ fc' = [fc EXCEPT ![u] = fileConfig]
    /\ UNCHANGED <<manager, gen, cfg, installed, lease>>

SwapAuth(u) ==
    /\ Move(u, "sourcing", "services")
    /\ RUnlock(u)
    /\ auth' = IF merged.authSource = "file" /\ fc[u].auth # NoAuth
               THEN NewServiceFromFileConfig(fc[u].auth) ELSE auth
    /\ UNCHANGED <<manager, locals, config, docker, coolify, warned, monitor, services, lease>>

UpdateServices(u) ==
    /\ Move(u, "services", "returning")
    /\ services' = cfg[u]
    /\ UNCHANGED <<manager, mutex, locals, config, docker, coolify, warned, auth, monitor, lease>>

LeaveCallbacks(u) ==
    /\ Move(u, "returning", "idle")
    /\ RUnlock(u)
    /\ UNCHANGED <<manager, locals, installed, lease>>

-----------------------------------------------------------------------------
\* Config, Sources, FileConfigSnapshot and the like, called by anybody else.
StartRead(r) ==
    /\ Move(r, "idle", "reading")
    /\ RLock(r)
    /\ UNCHANGED <<manager, locals, installed, lease>>

EndRead(r) ==
    /\ Move(r, "reading", "idle")
    /\ RUnlock(r)
    /\ UNCHANGED <<manager, locals, installed, lease>>

AcquireDocker(x) ==
    /\ up
    /\ lease[x] = "none"
    /\ lease' = [lease EXCEPT ![x] = "current"]
    /\ UNCHANGED <<manager, mutex, pc, locals, installed, up>>

ReleaseDocker(x) ==
    /\ up
    /\ lease[x] # "none"
    /\ lease' = [lease EXCEPT ![x] = "none"]
    /\ UNCHANGED <<manager, mutex, pc, locals, installed, up>>

-----------------------------------------------------------------------------
Callback(u) ==
    \/ BeginReload(u) \/ ConnectFails(u) \/ SwapDocker(u) \/ CloseOld(u)
    \/ SwapCoolify(u) \/ LockAgain(u) \/ Snapshot(u) \/ SwapAuth(u) \/ UpdateServices(u)
    \/ LeaveCallbacks(u)

Finish(u) == Refuse(u) \/ Save(u) \/ EnterCallbacks(u) \/ Overtaken(u) \/ Callback(u)

Next ==
    \/ \E u \in Updates : Request(u) \/ Finish(u)
    \/ \E r \in Readers : StartRead(r) \/ EndRead(r)
    \/ \E x \in Users : AcquireDocker(x) \/ ReleaseDocker(x)
    \/ Restart

Spec == Init /\ [][Next]_vars

\* Goroutines run; leases are returned, which DockerRegistry takes for granted
\* too: what holds one ends by itself, by a deadline or with its client.  The
\* exceptions are handlers that keep a lease or wait for a silent daemon (see
\* ContainerRequests).
Fairness ==
    /\ \A u \in Updates : WF_vars(Finish(u))
    /\ \A r \in Readers : WF_vars(EndRead(r))
    /\ \A x \in Users : WF_vars(ReleaseDocker(x))

FairSpec == Spec /\ Fairness

-----------------------------------------------------------------------------
Merged == [hosts : SUBSET ((HostNames \cup {LocalHost}) \X {"env", "file", "default"}),
           coolify : SUBSET (CoolifyHosts \X {"env", "file"}),
           authSource : {"env", "file", "default"}]

InCallback ==
    {"docker", "swapping", "coolify", "snapshot", "snapshotting", "sources", "sourcing",
     "services", "returning"}

TypeOK ==
    /\ env \in Environments
    /\ disk \in FileConfigs
    /\ fileConfig \in FileConfigs
    /\ merged \in Merged
    /\ generation \in 0..MaxGeneration
    /\ LockType
    /\ pc \in [Threads -> {"idle", "locking", "merged", "checking", "reading"} \cup InCallback]
    /\ gen \in [Updates -> 0..MaxGeneration]
    /\ cfg \in [Updates -> Merged]
    /\ fc \in [Updates -> FileConfigs]
    /\ config \in Merged
    /\ docker \in SUBSET ((HostNames \cup {LocalHost}) \X {"env", "file", "default"})
    /\ monitor \in SUBSET ((HostNames \cup {LocalHost}) \X {"env", "file", "default"})
    /\ services \in Merged
    /\ coolify \in SUBSET (CoolifyHosts \X {"env", "file"})
    /\ warned \in BOOLEAN
    /\ auth \in Credentials \cup {Off, Env}
    /\ lease \in [Users -> {"none", "current", "retired"}]
    /\ up \in BOOLEAN

(***************************************************************************)
(* The file on disk, the Manager's copy of it and the merged configuration *)
(* agree whenever the write lock is free, after a failed save and after a  *)
(* restart too: what a request was told is what a restart will find        *)
(* (manager.go:176-193, 632-691).                                          *)
(***************************************************************************)
FileMatchesManager ==
    /\ disk = fileConfig
    /\ merged.hosts = MergeHosts(env, disk.hosts)
    /\ \A n \in env.hosts : <<n, "file">> \notin merged.hosts

(***************************************************************************)
(* The callback takes no lock of its own, so at most one may run, with the *)
(* newest configuration, and what it reads back from the Manager on the    *)
(* way belongs to that configuration (manager.go:632-650, main.go:153-200).*)
(* The old client's leases are gone before the next one is retired.        *)
(***************************************************************************)
ReloadsAreExclusive ==
    \A u \in Updates : pc[u] \in InCallback =>
        /\ gen[u] = generation
        /\ cfg[u] = merged
        /\ pc[u] \in {"sources", "sourcing"} => fc[u] = fileConfig
        /\ pc[u] = "docker" => \A x \in Users : lease[x] # "retired"
        /\ \A v \in Updates \ {u} : pc[v] \notin InCallback

(***************************************************************************)
(* When no update is between its save and its return, the newest           *)
(* configuration is in force everywhere, although overtaken updates have   *)
(* skipped their callbacks: no change is lost until the next restart.      *)
(* The exceptions: Docker hosts of which one has no client, and Coolify    *)
(* hosts when the last callback has warned that it made no clients         *)
(* (main.go:153-200).                                                      *)
(***************************************************************************)
SettledIsApplied ==
    up /\ (\A u \in Updates : pc[u] \in {"idle", "locking"}) =>
        /\ config = merged
        /\ services = merged
        /\ auth = BootAuth(env, fileConfig)
        /\ CanConnect(merged.hosts) => docker = merged.hosts /\ monitor = docker
        /\ ~warned => coolify = merged.coolify

(***************************************************************************)
(* "remerge re-merges config then unlocks the mutex before firing          *)
(* callbacks" (manager.go:630): the callbacks can then use the Manager.    *)
(* But they run under the read lock, and a callback that takes it again    *)
(* while another update has announced itself waits for itself.             *)
(***************************************************************************)
NobodyWaitsForItself == \A t \in parked : depth[t] = 0

(***************************************************************************)
(* That is the only way to hang: unless a callback waits for itself, every *)
(* settings request and every reader returns, although the callback waits  *)
(* for leases inside the read lock, and writers for readers.               *)
(***************************************************************************)
CallsReturn ==
    []NobodyWaitsForItself => \A t \in Threads : (pc[t] # "idle") ~> (pc[t] = "idle")
=============================================================================
