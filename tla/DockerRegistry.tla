--------------------------- MODULE DockerRegistry ---------------------------
(***************************************************************************)
(* The lease counting and hot swap of the Docker client in                 *)
(* internal/services/registry.go.                                          *)
(*                                                                         *)
(* A goroutine calls AcquireDocker and gets the current client and a       *)
(* release closure.  SwapDocker installs a new client and returns only     *)
(* after the last lease on the old one is released and the old one is      *)
(* closed: the swapping goroutine parks on a channel that the last release *)
(* closes.  Each critical section under Registry.mu is one action; what a  *)
(* goroutine does outside the mutex (receiving from the channel, Close) is *)
(* an action of its own.                                                   *)
(*                                                                         *)
(* SwapDocker is only ever given a client that was just created            *)
(* (cmd/server/main.go:157-161), or nil.  The early return for the same    *)
(* client (registry.go:162) changes nothing and is the guard new # docker. *)
(*                                                                         *)
(* Operators marked "Fault" are plausible mistakes in the operator that    *)
(* follows them; no action uses them.                                      *)
(***************************************************************************)
EXTENDS Naturals, FiniteSets

CONSTANTS
    Clients,    \* every *docker.MultiHostClient that is ever created
    NoClient,   \* nil
    Users,      \* goroutines that take leases
    Swappers    \* goroutines that call SwapDocker

ASSUME NoClientAssumption == NoClient \notin Clients
ASSUME UsersAssumption == IsFiniteSet(Users)

VARIABLES
    docker,         \* Registry.docker
    dockerRefs,     \* Registry.dockerRefs, a map from clients to counts
    dockerWaiters,  \* Registry.dockerWaiters: whose channel waits for a client
    held,           \* the client each goroutine's release closure captured
    once,           \* the closure's sync.Once: has it run?
    swap,           \* where each SwapDocker call stands, and its local old
    unused,         \* clients NewMultiHostClient has not created yet
    closed          \* clients whose Close has run

vars == <<docker, dockerRefs, dockerWaiters, held, once, swap, unused, closed>>

MaybeClient == Clients \cup {NoClient}

\* "waiting" is parked on waitCh, "woken" is past it with old.Close() to do.
SwapState == [pc : {"idle", "waiting", "woken"}, old : MaybeClient]
Idle == [pc |-> "idle", old |-> NoClient]

-----------------------------------------------------------------------------
(* Go maps as functions on the keys present: assignment, delete, and the   *)
(* zero value that reading an absent key yields.                           *)

Put(m, k, v) == [x \in DOMAIN m \cup {k} |-> IF x = k THEN v ELSE m[x]]
Delete(m, k) == [x \in DOMAIN m \ {k} |-> m[x]]
Count(c) == IF c \in DOMAIN dockerRefs THEN dockerRefs[c] ELSE 0

\* The client u's unreleased lease is on, or NoClient: what u may still use.
Lease(u) == IF once[u] THEN NoClient ELSE held[u]
Holders(c) == {u \in Users : Lease(u) = c}

-----------------------------------------------------------------------------
Init ==
    /\ docker \in MaybeClient
    /\ dockerRefs = [c \in {docker} \ {NoClient} |-> 0]
    /\ dockerWaiters = [c \in {} |-> Idle]
    /\ held = [u \in Users |-> NoClient]
    /\ once = [u \in Users |-> FALSE]
    /\ swap = [s \in Swappers |-> Idle]
    /\ unused = Clients \ {docker}
    /\ closed = {}

\* Fault: a goroutine leases the client it remembers from its last request.
AcquireRemembered(u) ==
    /\ held[u] = NoClient
    /\ \E c \in DOMAIN dockerRefs :
         /\ dockerRefs' = Put(dockerRefs, c, Count(c) + 1)
         /\ held' = [held EXCEPT ![u] = c]
    /\ once' = [once EXCEPT ![u] = FALSE]
    /\ UNCHANGED <<docker, dockerWaiters, swap, unused, closed>>

\* AcquireDocker by a goroutine that has no closure of its own at the moment.
AcquireDocker(u) ==
    /\ held[u] = NoClient
    /\ docker # NoClient
    /\ dockerRefs' = Put(dockerRefs, docker, Count(docker) + 1)
    /\ held' = [held EXCEPT ![u] = docker]
    /\ once' = [once EXCEPT ![u] = FALSE]
    /\ UNCHANGED <<docker, dockerWaiters, swap, unused, closed>>

\* The last lease on c is gone: forget c and close the channel of the
\* SwapDocker call that waits for it, if there is one.
LastRelease(c) ==
    /\ dockerRefs' = Delete(dockerRefs, c)
    /\ IF c \in DOMAIN dockerWaiters
       THEN /\ swap' = [swap EXCEPT ![dockerWaiters[c]].pc = "woken"]
            /\ dockerWaiters' = Delete(dockerWaiters, c)
       ELSE UNCHANGED <<swap, dockerWaiters>>

\* Fault: any release counts as the last one.
ReleaseIsLast(c) ==
    IF c \in DOMAIN dockerRefs
    THEN LastRelease(c)
    ELSE UNCHANGED <<dockerRefs, dockerWaiters, swap>>

\* Fault: count < 0 instead of count <= 0.
ReleaseOffByOne(c) ==
    IF c \in DOMAIN dockerRefs /\ dockerRefs[c] = 0
    THEN LastRelease(c)
    ELSE /\ dockerRefs' = Put(dockerRefs, c, Count(c) - 1)
         /\ UNCHANGED <<dockerWaiters, swap>>

\* The body of once.Do in the release closure.
ReleaseBody(c) ==
    IF c \notin DOMAIN dockerRefs
    THEN UNCHANGED <<dockerRefs, dockerWaiters, swap>>
    ELSE IF dockerRefs[c] <= 1
    THEN LastRelease(c)
    ELSE /\ dockerRefs' = [dockerRefs EXCEPT ![c] = @ - 1]
         /\ UNCHANGED <<dockerWaiters, swap>>

\* Fault: no sync.Once.
ReleaseEveryTime(u) ==
    /\ held[u] # NoClient
    /\ once' = [once EXCEPT ![u] = TRUE]
    /\ ReleaseBody(held[u])
    /\ UNCHANGED <<docker, held, unused, closed>>

\* A call of the closure; sync.Once makes every call but the first a no-op.
Release(u) ==
    /\ held[u] # NoClient
    /\ once' = [once EXCEPT ![u] = TRUE]
    /\ IF once[u]
       THEN UNCHANGED <<dockerRefs, dockerWaiters, swap>>
       ELSE ReleaseBody(held[u])
    /\ UNCHANGED <<docker, held, unused, closed>>

\* The goroutine drops its closure, after at least one call of it.
Forget(u) ==
    /\ once[u]
    /\ held[u] # NoClient
    /\ held' = [held EXCEPT ![u] = NoClient]
    /\ once' = [once EXCEPT ![u] = FALSE]
    /\ UNCHANGED <<docker, dockerRefs, dockerWaiters, swap, unused, closed>>

-----------------------------------------------------------------------------
\* Fault: nil gets an entry as well.
TrackNil(new) ==
    IF new \in DOMAIN dockerRefs THEN dockerRefs ELSE Put(dockerRefs, new, 0)

\* The new client's entry in dockerRefs, kept if there is one already.
Track(new) ==
    IF new = NoClient \/ new \in DOMAIN dockerRefs
    THEN dockerRefs
    ELSE Put(dockerRefs, new, 0)

\* The critical section of SwapDocker, with its three ways out of it.
SwapDocker(s, new) ==
    /\ swap[s] = Idle
    /\ new # docker
    /\ new \in unused \cup {NoClient}
    /\ docker' = new
    /\ unused' = unused \ {new}
    /\ \/ /\ docker = NoClient
          /\ dockerRefs' = Track(new)
          /\ UNCHANGED <<dockerWaiters, swap>>
       \/ /\ docker # NoClient
          /\ Count(docker) = 0
          /\ dockerRefs' = Delete(Track(new), docker)
          /\ swap' = [swap EXCEPT ![s] = [pc |-> "woken", old |-> docker]]
          /\ UNCHANGED dockerWaiters
       \/ /\ docker # NoClient
          /\ Count(docker) # 0
          /\ dockerRefs' = Track(new)
          /\ dockerWaiters' = Put(dockerWaiters, docker, s)
          /\ swap' = [swap EXCEPT ![s] = [pc |-> "waiting", old |-> docker]]
    /\ UNCHANGED <<held, once, closed>>

\* Fault: SwapDocker returns without closing the old client.
ReturnWithoutClose(s) ==
    /\ swap[s].pc = "woken"
    /\ swap' = [swap EXCEPT ![s] = Idle]
    /\ UNCHANGED <<docker, dockerRefs, dockerWaiters, held, once, unused, closed>>

\* old.Close() and the return, outside the mutex.
CloseOld(s) ==
    /\ swap[s].pc = "woken"
    /\ closed' = closed \cup {swap[s].old}
    /\ swap' = [swap EXCEPT ![s] = Idle]
    /\ UNCHANGED <<docker, dockerRefs, dockerWaiters, held, once, unused>>

Next ==
    \/ \E u \in Users : AcquireDocker(u) \/ Release(u) \/ Forget(u)
    \/ \E s \in Swappers : CloseOld(s) \/ \E c \in MaybeClient : SwapDocker(s, c)

Spec == Init /\ [][Next]_vars

(***************************************************************************)
(* A goroutine that holds a lease releases it and is not delayed for ever; *)
(* a woken SwapDocker goes on.  Nobody has to acquire, and nobody has to   *)
(* swap.  The handlers of restart and remove do not release theirs: they   *)
(* are not among the users here (see ContainerRequests).                   *)
(***************************************************************************)
FirstRelease(u) == ~once[u] /\ Release(u)

Fairness ==
    /\ \A u \in Users : WF_vars(FirstRelease(u))
    /\ \A s \in Swappers : WF_vars(CloseOld(s))

FairSpec == Spec /\ Fairness

-----------------------------------------------------------------------------
TypeOK ==
    /\ docker \in MaybeClient
    /\ DOMAIN dockerRefs \subseteq Clients
    /\ dockerRefs \in [DOMAIN dockerRefs -> Nat]
    /\ DOMAIN dockerWaiters \subseteq Clients
    /\ dockerWaiters \in [DOMAIN dockerWaiters -> Swappers]
    /\ held \in [Users -> MaybeClient]
    /\ once \in [Users -> BOOLEAN]
    /\ swap \in [Swappers -> SwapState]
    /\ unused \subseteq Clients
    /\ closed \subseteq Clients

(***************************************************************************)
(* Nobody is left holding a lease on a client that has been closed, or     *)
(* that a SwapDocker call is past waiting for: a request, a scan or a      *)
(* stats stream that started before a configuration reload finishes on a   *)
(* working client (registry.go:178-190).                                   *)
(***************************************************************************)
LeaseKeepsClientOpen ==
    \A u \in Users : LET c == Lease(u) IN
        c # NoClient =>
            /\ c \notin closed
            /\ \A s \in Swappers : ~(swap[s].pc = "woken" /\ swap[s].old = c)

(***************************************************************************)
(* The count in the map is the number of leases not yet released, whoever  *)
(* calls a closure twice and whatever is swapped in between (registry.go:  *)
(* 61, 74-83); an absent entry means zero.                                 *)
(***************************************************************************)
CountsAreExact == \A c \in Clients : Count(c) = Cardinality(Holders(c))

(***************************************************************************)
(* A swap that is parked still has somebody to wake it: a lease on the old *)
(* client is outstanding and the map entry leads its release to the        *)
(* channel.  If this fails, the HTTP request that changed the              *)
(* configuration hangs (registry.go:75-82 against 185-189).                *)
(***************************************************************************)
NoLostWakeup ==
    \A s \in Swappers : swap[s].pc = "waiting" =>
        /\ swap[s].old \in DOMAIN dockerWaiters
        /\ dockerWaiters[swap[s].old] = s
        /\ Holders(swap[s].old) # {}

(***************************************************************************)
(* A created client is the current one, or is closed, or exactly one       *)
(* SwapDocker call is on its way to close it: no client is leaked, and     *)
(* none is closed twice or while it is current.                            *)
(***************************************************************************)
Closers(c) == {s \in Swappers : swap[s].pc # "idle" /\ swap[s].old = c}

EveryClientHasOneOwner ==
    \A c \in Clients \ unused :
        /\ c \in closed \/ c = docker => Closers(c) = {}
        /\ c \in closed => c # docker
        /\ c \notin closed /\ c # docker => \E s \in Swappers : Closers(c) = {s}

(***************************************************************************)
(* Once a client has been replaced nobody new gets it: its leases can only *)
(* drain.                                                                  *)
(***************************************************************************)
RetiredClientsOnlyDrain ==
    [][\A c \in Clients : c # docker /\ c \notin unused =>
            Holders(c)' \subseteq Holders(c)]_vars

(***************************************************************************)
(* With leases released, every SwapDocker call returns, however many new   *)
(* leases are taken meanwhile.                                             *)
(***************************************************************************)
SwapReturns == \A s \in Swappers : swap[s].pc # "idle" ~> swap[s].pc = "idle"

\* The counted, channel-based registry implements the promise above it.
Promise == INSTANCE ClientLeases WITH
    current <- docker, lease <- [u \in Users |-> Lease(u)]

KeepsPromise == Promise!Spec
=============================================================================
