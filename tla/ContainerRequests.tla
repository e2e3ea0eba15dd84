-------------------------- MODULE ContainerRequests --------------------------
(***************************************************************************)
(* The requests that act on a container: internal/api/handlers.go, with    *)
(* the Docker calls of internal/docker/container.go and the Coolify sync   *)
(* of internal/coolify/client.go.                                          *)
(*                                                                         *)
(* The containers are those that one name has had on one host, in the      *)
(* order they were made: Docker refuses a second one of the name, so an    *)
(* update of the environment stops and removes the container before it     *)
(* makes and starts the next.  Start and the update work inside the        *)
(* request.  Stop, restart and remove answer "accepted" and work in a      *)
(* goroutine that takes a lease on the Docker client of its own.           *)
(*                                                                         *)
(* A call may fail, and it may fail after it has had its effect: the       *)
(* answer was lost, the deadline passed, or the browser has gone, which    *)
(* cancels the request's context.  Nothing else ends a call made inside    *)
(* the request: neither the handler nor the Docker client sets a limit, so *)
(* a silent daemon holds the request for as long as its client waits.      *)
(*                                                                         *)
(* Operators marked "Fault" are plausible mistakes in the operator that    *)
(* follows them; no action uses them.                                      *)
(***************************************************************************)
EXTENDS Naturals

CONSTANTS
    Requests,      \* HTTP requests, each made once
    Keys,          \* names of environment variables
    MaxContainers, \* bound: containers of the name
    MaxSwaps       \* bound: hot swaps of the Docker client

VARIABLES
    status, env,   \* the containers
    request,       \* where each request stands, and what it asks for
    lease, worker, \* leases of the handlers and of their goroutines
    job,           \* actionJobs
    swap, swaps,   \* SwapDocker
    coolify, stale \* Coolify's variables by key, and toDelete

containers == <<status, env>>
leases == <<lease, worker>>
registry == <<swap, swaps>>
sync == <<coolify, stale>>
vars == <<containers, request, leases, job, registry, sync>>

BoundAssumption == MaxContainers \in Nat \ {0} /\ MaxSwaps \in Nat
RequestAssumption == {"none", "first"} \cap Requests = {}

Containers == 1..MaxContainers
Actions == {"stop", "restart", "remove"}
Present == {c \in Containers : status[c] \in {"exited", "running"}}
None == "none"

Replacing == {"inspecting", "stopping", "removing", "creating", "starting"}
Syncing == {"listing", "upserting", "deleting"}
Positions ==
    Replacing \cup Syncing \cup
    {"new", "starting once", "spawned", "working", "worked", "broken",
     "deleting rest", "unheard", "done", "updated", "synced", "unsynced", "failed"}
Kinds == Actions \cup {None, "start", "env"}

\* A variable in Coolify is known by a uuid: the request that made it.
Init ==
    /\ status = [c \in Containers |-> IF c = 1 THEN "running" ELSE "unborn"]
    /\ env = [c \in Containers |-> {}]
    /\ request = [r \in Requests |-> [pc |-> "new", kind |-> None, on |-> 1, env |-> {}]]
    /\ lease = [r \in Requests |-> None]
    /\ worker = [r \in Requests |-> None]
    /\ job = [a \in Actions |-> None]
    /\ swap = "idle"
    /\ swaps = 0
    /\ coolify \in [Keys -> {None, "first"}]
    /\ stale = [r \in Requests |-> {}]

-----------------------------------------------------------------------------
(* Docker.  Starting what runs and stopping what does not are no errors; a *)
(* container that runs is not removed.                                     *)

Goto(r, p) == request' = [request EXCEPT ![r].pc = p]

Possible(action, c) ==
    /\ c \in Present
    /\ action = "remove" => status[c] = "exited"

After(action) ==
    IF action = "remove" THEN "removed" ELSE IF action = "stop" THEN "exited" ELSE "running"

\* The call of r ends: next when it succeeded, failed when it did not.
Call(r, action, c, next, failed) ==
    /\ \/ Possible(action, c) /\ status' = [status EXCEPT ![c] = After(action)] /\ Goto(r, next)
       \/ Possible(action, c) /\ status' = [status EXCEPT ![c] = After(action)] /\ Goto(r, failed)
       \/ UNCHANGED status /\ Goto(r, failed)
    /\ UNCHANGED env

\* A call inside the request, which the daemon may leave unanswered.
CallUnlimited(r, action, c, next) ==
    \/ Call(r, action, c, next, "failed")
    \/ Call(r, action, c, "unheard", "unheard")

-----------------------------------------------------------------------------
(* Handlers.                                                               *)

Ask(r, kind, c, keys) ==
    /\ request[r].pc = "new"
    /\ c \in Present
    /\ request' = [request EXCEPT ![r] =
            [pc |-> IF kind = "start" THEN "starting once"
                    ELSE IF kind = "env" THEN "inspecting" ELSE "spawned",
             kind |-> kind, on |-> c, env |-> keys]]
    /\ lease' = [lease EXCEPT ![r] = "current"]
    /\ job' = IF kind \in Actions THEN [job EXCEPT ![kind] = "pending"] ELSE job
    /\ UNCHANGED <<containers, worker, registry, sync>>

StartContainer(r) ==
    /\ request[r].pc = "starting once"
    /\ CallUnlimited(r, "start", request[r].on, "done")
    /\ lease' = [lease EXCEPT ![r] = IF request'[r].pc = "unheard" THEN @ ELSE None]
    /\ UNCHANGED <<worker, job, registry, sync>>

\* The browser or its connection goes: the call that waits ends in an error.
ClientLeaves(r) ==
    /\ request[r].pc = "unheard"
    /\ Goto(r, "failed")
    /\ lease' = [lease EXCEPT ![r] = IF request[r].kind = "start" THEN None ELSE @]
    /\ UNCHANGED <<containers, worker, job, registry, sync>>

\* The handler of stop returns.  Those of restart and remove do not release.
ReturnAccepted(r) ==
    /\ request[r].kind = "stop"
    /\ lease[r] # None
    /\ lease' = [lease EXCEPT ![r] = None]
    /\ UNCHANGED <<containers, request, worker, job, registry, sync>>

\* runAsyncContainerAction, in the goroutine.
BeginWork(r) ==
    /\ request[r].pc = "spawned"
    /\ worker' = [worker EXCEPT ![r] = "current"]
    /\ Goto(r, "working")
    /\ UNCHANGED <<containers, lease, job, registry, sync>>

Work(r) ==
    /\ request[r].pc = "working"
    /\ Call(r, request[r].kind, request[r].on, "worked", "broken")
    /\ UNCHANGED <<leases, job, registry, sync>>

\* Fault: a failure returns before the entry is written.
RecordSuccess(r) ==
    /\ request[r].pc \in {"worked", "broken"}
    /\ job' = IF request[r].pc = "worked" THEN [job EXCEPT ![request[r].kind] = "success"] ELSE job
    /\ Goto(r, IF request[r].pc = "worked" THEN "done" ELSE "failed")
    /\ worker' = [worker EXCEPT ![r] = None]
    /\ UNCHANGED <<containers, lease, registry, sync>>

\* The entry may be another request's by now.
RecordActionJob(r) ==
    /\ request[r].pc \in {"worked", "broken"}
    /\ job' = [job EXCEPT ![request[r].kind] =
                   IF request[r].pc = "worked" THEN "success" ELSE "failed"]
    /\ Goto(r, IF request[r].pc = "worked" THEN "done" ELSE "failed")
    /\ worker' = [worker EXCEPT ![r] = None]
    /\ UNCHANGED <<containers, lease, registry, sync>>

-----------------------------------------------------------------------------
(* UpdateEnvVariables and SetEnvVariables.                                 *)

Inspect(r) ==
    /\ request[r].pc = "inspecting"
    /\ \/ request[r].on \in Present /\ Goto(r, "stopping")
       \/ Goto(r, "failed") \/ Goto(r, "unheard")
    /\ UNCHANGED <<containers, leases, job, registry, sync>>

Stop(r) ==
    /\ request[r].pc = "stopping"
    /\ CallUnlimited(r, "stop", request[r].on, "removing")
    /\ UNCHANGED <<leases, job, registry, sync>>

Remove(r) ==
    /\ request[r].pc = "removing"
    /\ CallUnlimited(r, "remove", request[r].on, "creating")
    /\ UNCHANGED <<leases, job, registry, sync>>

Unborn == {c \in Containers : status[c] = "unborn"}
NextContainer == CHOOSE c \in Unborn : \A d \in Unborn : c <= d

\* The variables asked for replace those of the container removed.
Create(r) ==
    /\ request[r].pc = "creating"
    /\ Unborn # {}
    /\ \/ /\ Present = {}
          /\ status' = [status EXCEPT ![NextContainer] = "exited"]
          /\ env' = [env EXCEPT ![NextContainer] = request[r].env]
          /\ \/ request' = [request EXCEPT ![r] = [@ EXCEPT !.pc = "starting", !.on = NextContainer]]
             \/ Goto(r, "failed") \/ Goto(r, "unheard")
       \/ (Goto(r, "failed") \/ Goto(r, "unheard")) /\ UNCHANGED containers
    /\ UNCHANGED <<leases, job, registry, sync>>

\* What runs is answered "updated", and synced if Coolify manages it.
StartNew(r) ==
    /\ request[r].pc = "starting"
    /\ \E next \in {"updated", "listing"} : CallUnlimited(r, "start", request[r].on, next)
    /\ UNCHANGED <<leases, job, registry, sync>>

\* Fault: on an error the handler returns without its lease.
RespondToSuccess(r) ==
    /\ request[r].kind = "env"
    /\ request[r].pc \in {"updated", "synced", "unsynced"}
    /\ lease[r] # None
    /\ lease' = [lease EXCEPT ![r] = None]
    /\ UNCHANGED <<containers, request, worker, job, registry, sync>>

\* Whatever has come of it, the handler returns and its lease with it.
Respond(r) ==
    /\ request[r].kind = "env"
    /\ request[r].pc \in {"updated", "synced", "unsynced", "failed"}
    /\ lease[r] # None
    /\ lease' = [lease EXCEPT ![r] = None]
    /\ UNCHANGED <<containers, request, worker, job, registry, sync>>

-----------------------------------------------------------------------------
(* SyncEnvVars.                                                            *)

\* Fault: every variable of Coolify's is stale.
ListAllStale(r) ==
    /\ request[r].pc = "listing"
    /\ Goto(r, "upserting")
    /\ stale' = [stale EXCEPT ![r] = {<<k, coolify[k]>> : k \in {l \in Keys : coolify[l] # None}}]
    /\ UNCHANGED <<containers, leases, job, registry, coolify>>

List(r) ==
    /\ request[r].pc = "listing"
    /\ \/ /\ Goto(r, "upserting")
          /\ stale' = [stale EXCEPT ![r] =
                {<<k, coolify[k]>> : k \in {l \in Keys \ request[r].env : coolify[l] # None}}]
       \/ Goto(r, "unsynced") /\ UNCHANGED stale
    /\ UNCHANGED <<containers, leases, job, registry, coolify>>

Upsert(r) ==
    /\ request[r].pc = "upserting"
    /\ Goto(r, "deleting") \/ Goto(r, "unsynced")
    /\ \/ coolify' = [k \in Keys |-> IF k \in request[r].env /\ coolify[k] = None THEN r ELSE coolify[k]]
       \/ request'[r].pc = "unsynced" /\ UNCHANGED coolify
    /\ UNCHANGED <<containers, leases, job, registry, stale>>

\* A failed deletion does not keep the others from being tried.  A uuid that
\* another request has deleted is an error.
DeleteStale(r) ==
    /\ request[r].pc \in {"deleting", "deleting rest"}
    /\ \E v \in stale[r] :
        /\ stale' = [stale EXCEPT ![r] = @ \ {v}]
        /\ \/ /\ coolify[v[1]] = v[2]
              /\ coolify' = [coolify EXCEPT ![v[1]] = None]
              /\ UNCHANGED request \/ Goto(r, "deleting rest")
           \/ Goto(r, "deleting rest") /\ UNCHANGED coolify
    /\ UNCHANGED <<containers, leases, job, registry>>

EndSync(r) ==
    /\ request[r].pc \in {"deleting", "deleting rest"}
    /\ stale[r] = {}
    /\ Goto(r, IF request[r].pc = "deleting" THEN "synced" ELSE "unsynced")
    /\ UNCHANGED <<containers, leases, job, registry, sync>>

-----------------------------------------------------------------------------
(* SwapDocker waits for the leases on the client it replaces.              *)

Retired(l) == [r \in Requests |-> IF l[r] = "current" THEN "retired" ELSE l[r]]

SwapDocker ==
    /\ swap = "idle"
    /\ swaps < MaxSwaps
    /\ swap' = "waiting"
    /\ swaps' = swaps + 1
    /\ lease' = Retired(lease)
    /\ worker' = Retired(worker)
    /\ UNCHANGED <<containers, request, job, sync>>

SwapReturns ==
    /\ swap = "waiting"
    /\ \A r \in Requests : lease[r] # "retired" /\ worker[r] # "retired"
    /\ swap' = "idle"
    /\ UNCHANGED <<containers, request, leases, job, swaps, sync>>

-----------------------------------------------------------------------------
Replace(r) == Inspect(r) \/ Stop(r) \/ Remove(r) \/ Create(r) \/ StartNew(r) \/ Respond(r)
Sync(r) == List(r) \/ Upsert(r) \/ DeleteStale(r) \/ EndSync(r)
Act(r) ==
    \/ StartContainer(r) \/ ReturnAccepted(r)
    \/ BeginWork(r) \/ Work(r) \/ RecordActionJob(r)

Next ==
    \/ \E r \in Requests, c \in Containers :
         \/ \E kind \in Actions \cup {"start"} : Ask(r, kind, c, {})
         \/ \E keys \in SUBSET Keys : Ask(r, "env", c, keys)
    \/ \E r \in Requests : Act(r) \/ Replace(r) \/ Sync(r) \/ ClientLeaves(r)
    \/ SwapDocker
    \/ SwapReturns

Spec == Init /\ [][Next]_vars

\* Handlers and goroutines run on.  A goroutine's calls end at its deadline of
\* 45 s and those to Coolify after 10 s; of a call that goes "unheard" nothing
\* is assumed.
Fairness ==
    /\ \A r \in Requests : WF_vars(Act(r)) /\ WF_vars(Replace(r)) /\ WF_vars(Sync(r))
    /\ WF_vars(SwapReturns)

FairSpec == Spec /\ Fairness

-----------------------------------------------------------------------------
TypeOK ==
    /\ status \in [Containers -> {"unborn", "exited", "running", "removed"}]
    /\ env \in [Containers -> SUBSET Keys]
    /\ request \in [Requests ->
            [pc : Positions, kind : Kinds, on : Containers, env : SUBSET Keys]]
    /\ lease \in [Requests -> {None, "current", "retired"}]
    /\ worker \in [Requests -> {None, "current", "retired"}]
    /\ job \in [Actions -> {None, "pending", "success", "failed"}]
    /\ swap \in {"idle", "waiting"}
    /\ swaps \in 0..MaxSwaps
    /\ coolify \in [Keys -> Requests \cup {None, "first"}]
    /\ stale \in [Requests -> SUBSET (Keys \X (Requests \cup {"first"}))]

(***************************************************************************)
(* Of the containers of a name there is one at most, the newest, whatever  *)
(* requests meet: a restart never brings back a container that an update   *)
(* has replaced, and two updates do not leave two containers               *)
(* (container.go:118-148).                                                 *)
(***************************************************************************)
OnlyTheNewest ==
    \A c, d \in Containers : c < d /\ status[d] # "unborn" => status[c] = "removed"

(***************************************************************************)
(* A container that is gone was asked to be removed, or an update is about *)
(* to make the next one, waits for the daemon's answer or has answered     *)
(* with an error: nobody who was told "updated" is left without a          *)
(* container (container.go:123-150, handlers.go:660-664).                  *)
(***************************************************************************)
GoneIsExplained ==
    Present = {} =>
        \E r \in Requests :
            \/ request[r].kind = "remove"
            \/ request[r].kind = "env" /\ request[r].pc \in {"creating", "unheard", "failed"}

(***************************************************************************)
(* An entry that reads "pending" has a goroutine that will write it again, *)
(* although requests for one action share an entry (handlers.go:465-486).  *)
(***************************************************************************)
PendingIsWorkedOn ==
    \A a \in Actions : job[a] = "pending" =>
        \E r \in Requests :
            request[r].kind = a /\ request[r].pc \in {"spawned", "working", "worked", "broken"}

ReplacedNotLost == OnlyTheNewest /\ GoneIsExplained /\ PendingIsWorkedOn

(***************************************************************************)
(* A variable that all updates under way ask for never goes missing in     *)
(* Coolify, where a redeployment reads it: deletion comes after the upsert *)
(* and only for what the list showed (client.go:163-223).                  *)
(***************************************************************************)
AskedForStays ==
    [][\A k \in Keys :
        (/\ coolify[k] # None
         /\ \A r \in Requests : stale[r] # {} => k \in request[r].env)
            => coolify'[k] # None]_vars

(***************************************************************************)
(* "Registry holds all runtime services behind a RWMutex, allowing         *)
(* hot-swap" (registry.go:16): with a daemon that answers, the swap of the *)
(* Docker client ends once those that use the old one are through.  The    *)
(* handlers of restart and remove keep their lease for ever                *)
(* (handlers.go:392-407, 418-432).                                         *)
(***************************************************************************)
SwapEnds ==
    [](\A r \in Requests : request[r].pc # "unheard")
        => (swap = "waiting" ~> swap = "idle")

(***************************************************************************)
(* Besides them only a start or an update of the environment keeps a swap  *)
(* waiting, while the daemon is silent and the browser waits for it: not a *)
(* request that fails half-way or is given up, not a goroutine that has    *)
(* begun before the swap or after it, not a synchronisation with Coolify   *)
(* (handlers.go:331-355, 465-487, 631-706, container.go:77-151).           *)
(***************************************************************************)
Leaked(r) == request[r].kind \in {"restart", "remove"} /\ lease[r] = "retired"
Unanswered(r) == request[r].pc = "unheard" /\ lease[r] = "retired"

OnlyLeaksHoldSwaps ==
    swap = "waiting" ~> (swap = "idle" \/ \E r \in Requests : Leaked(r) \/ Unanswered(r))
=============================================================================
