------------------------------ MODULE AutoScan -------------------------------
(***************************************************************************)
(* The auto-scanner and the rescan gate (internal/scanner/autoscan.go, the *)
(* table image_scan_state of internal/scanner/db.go, StartScan of          *)
(* internal/api/scan_handlers.go, the part of the hot-reload callback that *)
(* starts and stops it).                                                   *)
(*                                                                         *)
(* A listener per Docker host waits for pull events, one loop polls all    *)
(* hosts, and people ask for scans through a gate that refuses unchanged   *)
(* images.  They meet in image_scan_state, which they read and write in    *)
(* separate statements, and which every finished scan writes too.          *)
(*                                                                         *)
(* A scan is its begin and its end (ScanJobs has what is between).  Time   *)
(* is the rate limit of five minutes: "recent" holds the images below it.  *)
(* The goroutine that waits for the stop signal beside each event stream   *)
(* only ends a stream that its listener gives up anyway; it is part of     *)
(* LoseStream.  Left out: last_scan_id, the status page.                   *)
(*                                                                         *)
(* Operators marked "Fault" are plausible mistakes in the operator that    *)
(* follows them; no action uses them.                                      *)
(***************************************************************************)
EXTENDS Naturals

CONSTANTS
    Hosts,          \* Docker hosts
    Images,         \* image references
    HostOf,         \* HostOf[i]: where the image is
    Requests,       \* HTTP requests for a scan
    Generations,    \* names for the goroutines of one Start
    MaxVersion,     \* bound: how often an image reference moves
    MaxScans        \* bound: scans of an image under way when one more is decided on

ASSUME HostAssumption == HostOf \in [Images -> Hosts]
ASSUME GenerationAssumption == Generations # {}
ASSUME BoundAssumption == MaxVersion \in Nat /\ MaxScans \in Nat

VARIABLES
    hosts,      \* the hosts of the current Docker client
    reload,     \* the hot-reload callback
    enabled,    \* AutoScanner.enabled; stopCh is open exactly then
    listener,   \* listener[g][h]: a goroutine of listenEvents
    handling,   \* the image whose pull event it handles
    events,     \* events[g][h]: events not yet received
    poll,       \* poll[g]: the goroutine of pollLoop
    todo,       \* the listed images it has still to look at, with their ids
    version,    \* the image id each reference stands for
    older,      \* scans under way that had begun when the reference moved,
    fresh,      \* and those that have begun since
    covered,    \* a scan that has begun since is stored
    failed,     \* a scan that has begun since has ended without being stored
    scanned,    \* a scan of the reference has been stored
    states,     \* the references with a row in image_scan_state
    imageId,    \* its image_id
    recent,     \* references whose last_scan_at is less than 300 s ago
    request     \* where each request stands

goroutines == <<listener, handling, events, poll, todo>>
scans == <<older, fresh, covered, failed>>
stored == <<scanned, states, imageId, recent>>
vars == <<hosts, reload, enabled, goroutines, version, scans, stored, request>>

NoId == 0   \* the empty image_id
NoOne == "none"
Idle == [pc |-> "idle", image |-> NoOne, id |-> NoId]

Subscribed == {"listening", "checking", "starting"}

NoGoroutine(g) ==
    /\ poll[g].pc = "none"
    /\ \A h \in Hosts : listener[g][h] = "none"

-----------------------------------------------------------------------------
(* Start and Stop, called at boot and by the hot-reload callback.          *)

Start(g, on) ==
    /\ NoGoroutine(g)
    /\ listener' = [listener EXCEPT ![g] = [h \in Hosts |-> IF h \in on THEN "top" ELSE "none"]]
    /\ poll' = [poll EXCEPT ![g].pc = "waiting"]
    /\ enabled' = TRUE
    /\ UNCHANGED <<handling, events, todo>>

\* A disabled auto-scanner is started by the first reload that enables it.
Init ==
    /\ hosts \in SUBSET Hosts
    /\ reload = "idle"
    /\ enabled = FALSE
    /\ listener = [g \in Generations |-> [h \in Hosts |-> "none"]]
    /\ handling = [g \in Generations |-> [h \in Hosts |-> NoOne]]
    /\ events = [g \in Generations |-> [h \in Hosts |-> {}]]
    /\ poll = [g \in Generations |-> [Idle EXCEPT !.pc = "none"]]
    /\ todo = [g \in Generations |-> {}]
    /\ version = [i \in Images |-> 1]
    /\ older = [i \in Images |-> 0]
    /\ fresh = [i \in Images |-> 0]
    /\ covered = {}
    /\ failed = {}
    /\ scanned = {}
    /\ states = {}
    /\ imageId = [i \in Images |-> NoId]
    /\ recent = {}
    /\ request = [r \in Requests |-> Idle]

SwapDocker(on) ==
    /\ reload = "idle"
    /\ reload' = "toggling"
    /\ hosts' = on
    /\ UNCHANGED <<enabled, goroutines, version, scans, stored, request>>

\* Listeners are made for the hosts of now; an enabled one is left alone.
TurnOn ==
    /\ reload = "toggling"
    /\ reload' = "idle"
    /\ IF enabled
       THEN UNCHANGED <<enabled, goroutines>>
       ELSE Start(CHOOSE g \in Generations : NoGoroutine(g), hosts)
    /\ UNCHANGED <<hosts, version, scans, stored, request>>

\* Stop up to wg.Wait.
TurnOff ==
    /\ reload = "toggling"
    /\ reload' = IF enabled THEN "stopping" ELSE "idle"
    /\ enabled' = FALSE
    /\ UNCHANGED <<hosts, goroutines, version, scans, stored, request>>

\* Fault: Stop does not wait for its goroutines.
ReturnUnwaited ==
    /\ reload = "stopping"
    /\ reload' = "idle"
    /\ UNCHANGED <<hosts, enabled, goroutines, version, scans, stored, request>>

StopReturns ==
    /\ reload = "stopping"
    /\ \A g \in Generations : NoGoroutine(g)
    /\ reload' = "idle"
    /\ UNCHANGED <<hosts, enabled, goroutines, version, scans, stored, request>>

-----------------------------------------------------------------------------
(* Scans, and what they leave in the database.                             *)

Active(i) == older[i] + fresh[i]

StartScan(i) ==
    /\ fresh' = [fresh EXCEPT ![i] = @ + 1]
    /\ UNCHANGED <<older, covered, failed>>

\* Fault: the upsert takes the (empty) image_id of the insert.
InsertResultWithId(i) ==
    /\ scanned' = scanned \cup {i}
    /\ states' = states \cup {i}
    /\ recent' = recent \cup {i}
    /\ imageId' = [imageId EXCEPT ![i] = NoId]

\* A new row has no image_id, an old one keeps it.
InsertResult(i) ==
    /\ scanned' = scanned \cup {i}
    /\ states' = states \cup {i}
    /\ recent' = recent \cup {i}
    /\ UNCHANGED imageId

\* Failed, cancelled or not stored: the database stays as it is.
EndFresh(i) ==
    /\ fresh[i] > 0
    /\ fresh' = [fresh EXCEPT ![i] = @ - 1]
    /\ \/ InsertResult(i) /\ covered' = covered \cup {i} /\ UNCHANGED failed
       \/ failed' = failed \cup {i} /\ UNCHANGED <<covered, stored>>
    /\ UNCHANGED older

EndOlder(i) ==
    /\ older[i] > 0
    /\ older' = [older EXCEPT ![i] = @ - 1]
    /\ InsertResult(i) \/ UNCHANGED stored
    /\ UNCHANGED <<fresh, covered, failed>>

EndScan(i) ==
    /\ EndFresh(i) \/ EndOlder(i)
    /\ UNCHANGED <<hosts, reload, enabled, goroutines, version, request>>

UpsertImageScanState(i, v) ==
    /\ states' = states \cup {i}
    /\ imageId' = [imageId EXCEPT ![i] = v]
    /\ recent' = recent \cup {i}
    /\ UNCHANGED scanned

\* Five minutes pass.
Age(i) ==
    /\ i \in recent
    /\ recent' = recent \ {i}
    /\ UNCHANGED <<hosts, reload, enabled, goroutines, version, scans, scanned, states, imageId, request>>

-----------------------------------------------------------------------------
(* listenEvents and handlePullEvent.                                       *)

SetListener(g, h, pc) == listener' = [listener EXCEPT ![g][h] = pc]

\* Fault: looks for the stop signal only while it listens.
TopUnchecked(g, h) ==
    /\ listener[g][h] = "top"
    /\ SetListener(g, h, IF h \in hosts THEN "listening" ELSE "backoff")
    /\ UNCHANGED <<hosts, reload, enabled, handling, events, poll, todo, version, scans, stored, request>>

\* From the top of the loop to the event loop, or to a pause without a client.
Top(g, h) ==
    /\ listener[g][h] = "top"
    /\ SetListener(g, h, IF ~enabled THEN "none" ELSE IF h \in hosts THEN "listening" ELSE "backoff")
    /\ UNCHANGED <<hosts, reload, enabled, handling, events, poll, todo, version, scans, stored, request>>

\* The pause ends, or the stop signal comes first.
BackOff(g, h) ==
    /\ listener[g][h] = "backoff"
    /\ \/ SetListener(g, h, "top")
       \/ ~enabled /\ SetListener(g, h, "none")
    /\ UNCHANGED <<hosts, reload, enabled, handling, events, poll, todo, version, scans, stored, request>>

\* Fault: the goroutine ends without telling the wait group.
LoseStreamForGood(g, h) ==
    /\ listener[g][h] = "listening"
    /\ SetListener(g, h, "dead")
    /\ events' = [events EXCEPT ![g][h] = {}]
    /\ UNCHANGED <<hosts, reload, enabled, handling, poll, todo, version, scans, stored, request>>

LoseStream(g, h) ==
    /\ listener[g][h] = "listening"
    /\ SetListener(g, h, "backoff")
    /\ events' = [events EXCEPT ![g][h] = {}]
    /\ UNCHANGED <<hosts, reload, enabled, handling, poll, todo, version, scans, stored, request>>

SeeStop(g, h) ==
    /\ listener[g][h] = "listening"
    /\ ~enabled
    /\ SetListener(g, h, "none")
    /\ events' = [events EXCEPT ![g][h] = {}]
    /\ UNCHANGED <<hosts, reload, enabled, handling, poll, todo, version, scans, stored, request>>

\* Read the state of the image; without one, or when that fails, go on.
Receive(g, h) ==
    /\ listener[g][h] = "listening"
    /\ \E i \in events[g][h] :
        /\ events' = [events EXCEPT ![g][h] = @ \ {i}]
        /\ \/ /\ ~enabled \/ i \in recent
              /\ UNCHANGED <<listener, handling>>
           \/ /\ enabled
              /\ SetListener(g, h, "checking")
              /\ handling' = [handling EXCEPT ![g][h] = i]
    /\ UNCHANGED <<hosts, reload, enabled, poll, todo, version, scans, stored, request>>

CheckJobs(g, h) ==
    /\ listener[g][h] = "checking"
    /\ IF Active(handling[g][h]) > 0
       THEN SetListener(g, h, "listening") /\ handling' = [handling EXCEPT ![g][h] = NoOne]
       ELSE SetListener(g, h, "starting") /\ UNCHANGED handling
    /\ UNCHANGED <<hosts, reload, enabled, events, poll, todo, version, scans, stored, request>>

ScanPulled(g, h) ==
    /\ listener[g][h] = "starting"
    /\ StartScan(handling[g][h])
    /\ SetListener(g, h, "listening")
    /\ handling' = [handling EXCEPT ![g][h] = NoOne]
    /\ UNCHANGED <<hosts, reload, enabled, events, poll, todo, version, stored, request>>

-----------------------------------------------------------------------------
(* pollLoop and pollForChanges.                                            *)

PollSeesStop(g) ==
    /\ poll[g].pc = "waiting"
    /\ ~enabled
    /\ poll' = [poll EXCEPT ![g].pc = "none"]
    /\ UNCHANGED <<hosts, reload, enabled, listener, handling, events, todo, version, scans, stored, request>>

\* Hosts that do not answer are left out; "answering" are the others.
ListImages(g, answering) ==
    /\ poll[g].pc = "waiting"
    /\ enabled
    /\ poll' = [poll EXCEPT ![g].pc = "looking"]
    /\ todo' = [todo EXCEPT ![g] = {<<i, version[i]>> : i \in {j \in Images : HostOf[j] \in answering}}]
    /\ UNCHANGED <<hosts, reload, enabled, listener, handling, events, version, scans, stored, request>>

NeedsScan(i, v) == i \notin states \/ imageId[i] \notin {NoId, v}

\* The state cannot be read, is as it was, or is recent.
Skip(g, i) ==
    /\ poll[g].pc = "looking"
    /\ \E item \in todo[g] : item[1] = i /\ todo' = [todo EXCEPT ![g] = @ \ {item}]
    /\ UNCHANGED <<hosts, reload, enabled, listener, handling, events, poll, version, scans, stored, request>>

Choose(g, i) ==
    /\ poll[g].pc = "looking"
    /\ i \notin recent
    /\ Active(i) < MaxScans
    /\ \E item \in todo[g] :
        /\ item[1] = i
        /\ NeedsScan(i, item[2])
        /\ todo' = [todo EXCEPT ![g] = @ \ {item}]
        /\ poll' = [poll EXCEPT ![g] = [pc |-> "starting", image |-> i, id |-> item[2]]]
    /\ UNCHANGED <<hosts, reload, enabled, listener, handling, events, version, scans, stored, request>>

ScanChanged(g) ==
    /\ poll[g].pc = "starting"
    /\ StartScan(poll[g].image)
    /\ poll' = [poll EXCEPT ![g].pc = "recording"]
    /\ UNCHANGED <<hosts, reload, enabled, listener, handling, events, todo, version, stored, request>>

\* Nobody looks whether the scan has begun, or whether this succeeds.
Record(g) ==
    /\ poll[g].pc = "recording"
    /\ UpsertImageScanState(poll[g].image, poll[g].id) \/ UNCHANGED stored
    /\ poll' = [poll EXCEPT ![g] = [Idle EXCEPT !.pc = "looking"]]
    /\ UNCHANGED <<hosts, reload, enabled, listener, handling, events, todo, version, scans, request>>

EndPoll(g) ==
    /\ poll[g].pc = "looking"
    /\ todo[g] = {}
    /\ poll' = [poll EXCEPT ![g].pc = "waiting"]
    /\ UNCHANGED <<hosts, reload, enabled, listener, handling, events, todo, version, scans, stored, request>>

-----------------------------------------------------------------------------
(* The handler StartScan with its gate.                                    *)

CanRescan(i, v) == i \notin states \/ imageId[i] = NoId \/ imageId[i] # v

\* Forced, or without an image id, the gate is passed.
Ask(r, i) ==
    /\ request[r].pc = "idle"
    /\ Active(i) < MaxScans
    /\ \E pc \in {"asking", "starting"} :
        request' = [request EXCEPT ![r] = [pc |-> pc, image |-> i, id |-> version[i]]]
    /\ UNCHANGED <<hosts, reload, enabled, goroutines, version, scans, stored>>

\* Also when the query fails the scan begins.
Gate(r) ==
    /\ request[r].pc = "asking"
    /\ \/ request' = [request EXCEPT ![r].pc = "starting"]
       \/ ~CanRescan(request[r].image, request[r].id) /\ request' = [request EXCEPT ![r] = Idle]
    /\ UNCHANGED <<hosts, reload, enabled, goroutines, version, scans, stored>>

ScanRequested(r) ==
    /\ request[r].pc = "starting"
    /\ StartScan(request[r].image)
    /\ request' = [request EXCEPT ![r] = Idle]
    /\ UNCHANGED <<hosts, reload, enabled, goroutines, version, stored>>

-----------------------------------------------------------------------------
\* Docker pulls a newer image and tells those who listen.
Pull(i) ==
    /\ version[i] < MaxVersion
    /\ version' = [version EXCEPT ![i] = @ + 1]
    /\ older' = [older EXCEPT ![i] = @ + fresh[i]]
    /\ fresh' = [fresh EXCEPT ![i] = 0]
    /\ covered' = covered \ {i}
    /\ failed' = failed \ {i}
    /\ events' = [g \in Generations |-> [h \in Hosts |->
                    IF h = HostOf[i] /\ listener[g][h] \in Subscribed
                    THEN events[g][h] \cup {i} ELSE events[g][h]]]
    /\ UNCHANGED <<hosts, reload, enabled, listener, handling, poll, todo, stored, request>>

ListenerStep(g, h) ==
    \/ Top(g, h)
    \/ BackOff(g, h)
    \/ LoseStream(g, h)
    \/ SeeStop(g, h)
    \/ Receive(g, h)
    \/ CheckJobs(g, h)
    \/ ScanPulled(g, h)

PollStep(g) ==
    \/ PollSeesStop(g)
    \/ \E answering \in SUBSET hosts : ListImages(g, answering)
    \/ \E i \in Images : Skip(g, i) \/ Choose(g, i)
    \/ ScanChanged(g)
    \/ Record(g)
    \/ EndPoll(g)

Next ==
    \/ \E on \in SUBSET Hosts : SwapDocker(on)
    \/ TurnOn
    \/ TurnOff
    \/ StopReturns
    \/ \E g \in Generations : PollStep(g) \/ \E h \in Hosts : ListenerStep(g, h)
    \/ \E i \in Images : EndScan(i) \/ Age(i) \/ Pull(i)
    \/ \E r \in Requests : Gate(r) \/ ScanRequested(r) \/ \E i \in Images : Ask(r, i)

Spec == Init /\ [][Next]_vars

\* Goroutines run and timers fire.  A host that is asked again and again
\* answers at times, and so does the database.
Fairness ==
    /\ WF_vars(StopReturns)
    /\ \A i \in Images : WF_vars(Age(i))
    /\ \A g \in Generations :
        /\ WF_vars(PollStep(g))
        /\ SF_vars(ListImages(g, hosts))
        /\ \A i \in Images : SF_vars(Choose(g, i))
        /\ \A h \in Hosts : WF_vars(ListenerStep(g, h))

FairSpec == Spec /\ Fairness

-----------------------------------------------------------------------------
Request == [pc : {"idle", "asking", "starting"}, image : Images \cup {NoOne}, id : Nat]

TypeOK ==
    /\ hosts \subseteq Hosts
    /\ reload \in {"idle", "toggling", "stopping"}
    /\ enabled \in BOOLEAN
    /\ listener \in [Generations -> [Hosts -> {"none", "top", "backoff"} \cup Subscribed]]
    /\ handling \in [Generations -> [Hosts -> Images \cup {NoOne}]]
    /\ events \in [Generations -> [Hosts -> SUBSET Images]]
    /\ poll \in [Generations -> [pc : {"none", "waiting", "looking", "starting", "recording"},
                                  image : Images \cup {NoOne}, id : Nat]]
    /\ todo \in [Generations -> SUBSET (Images \X Nat)]
    /\ version \in [Images -> Nat]
    /\ older \in [Images -> Nat]
    /\ fresh \in [Images -> Nat]
    /\ covered \subseteq Images
    /\ failed \subseteq Images
    /\ scanned \subseteq Images
    /\ states \subseteq Images
    /\ imageId \in [Images -> Nat]
    /\ recent \subseteq Images
    /\ request \in [Requests -> Request]

(***************************************************************************)
(* Start never adds to what an earlier Start has left: there is one        *)
(* listener per host and one poll loop at most, and none when the          *)
(* auto-scanner is disabled and Stop has returned.  The goroutines re-read *)
(* the field stopCh, so one that outlived Stop would never see its signal  *)
(* (autoscan.go:44-79, 124, 188; main.go:187-195).                         *)
(***************************************************************************)
OneGeneration ==
    /\ \A g1, g2 \in Generations : g1 # g2 => NoGoroutine(g1) \/ NoGoroutine(g2)
    /\ ~enabled /\ reload # "stopping" => \A g \in Generations : NoGoroutine(g)

(***************************************************************************)
(* The settings request that disables the auto-scanner returns, wherever   *)
(* its goroutines are (autoscan.go:71-79).                                 *)
(***************************************************************************)
StopEnds == reload = "stopping" ~> reload = "idle"

(***************************************************************************)
(* An image that the poll loop knows and that has changed gets a scan that *)
(* is stored, unless one of it fails, auto-scanning ends or its host is    *)
(* dropped: the polling fallback makes up for lost events, failing hosts,  *)
(* the rate limit, scans under way when the image changed, and other scans *)
(* that write the same row (autoscan.go:297-333).  It does not make up for *)
(* a scan that fails, because the id is recorded all the same, and scans   *)
(* must end: one whose container Docker never removes hangs (ScanJobs).    *)
(***************************************************************************)
ScansEnd == \A i \in Images : WF_vars(EndScan(i))

ChangesAreScanned ==
    ScansEnd =>
        \A i \in Images :
            (imageId[i] \notin {NoId, version[i]} /\ i \notin covered)
                ~> (i \in covered \cup failed \/ ~enabled \/ HostOf[i] \notin hosts)

(***************************************************************************)
(* "Returns true if a rescan is allowed (image changed or never scanned)"  *)
(* (db.go:857): the gate lets pass who asks for an image that no scan has  *)
(* been stored for and none is under way for.                              *)
(***************************************************************************)
NeverScannedIsAllowed ==
    \A i \in Images : i \notin scanned /\ Active(i) = 0 => CanRescan(i, version[i])
-----------------------------------------------------------------------------
\* A value of HostOf for the runs: all images are on one host.
OnOneHost == [i \in Images |-> CHOOSE h \in Hosts : TRUE]
=============================================================================
