--------------------------- MODULE AutoScanProofs ----------------------------
(***************************************************************************)
(* Proofs about AutoScan, for any hosts, images, requests and generations: *)
(* its type invariant and OneGeneration.  OneGeneration is inductive given *)
(* types; types need that who is about to act on an image knows one.       *)
(***************************************************************************)
EXTENDS AutoScan, TLAPS

Subjects ==
    /\ \A g \in Generations, h \in Hosts :
           listener[g][h] \in {"checking", "starting"} => handling[g][h] \in Images
    /\ \A g \in Generations :
           poll[g].pc \in {"starting", "recording"} => poll[g].image \in Images
    /\ \A r \in Requests :
           request[r].pc \in {"asking", "starting"} => request[r].image \in Images

IInv == TypeOK /\ Subjects /\ OneGeneration

-----------------------------------------------------------------------------
THEOREM InitIInv == Init => IInv
<1> SUFFICES ASSUME Init PROVE IInv OBVIOUS
<1>1. TypeOK
  BY BoundAssumption DEF Init, TypeOK, Idle, NoId, NoOne, Subscribed, Request
<1>2. OneGeneration
  BY DEF Init, OneGeneration, NoGoroutine, Idle
<1>3. Subjects
  BY DEF Init, Subjects, Idle
<1> QED BY <1>1, <1>2, <1>3 DEF IInv

-----------------------------------------------------------------------------
(* Types and subjects, step by step.                                       *)

PollPcs == {"none", "waiting", "looking", "starting", "recording"}
Polls == [Generations -> [pc : PollPcs, image : Images \cup {NoOne}, id : Nat]]

\* Where a poll loop goes, and nothing else of it.
LEMMA PollMoves ==
    ASSUME poll \in Polls, NEW g \in Generations, NEW pc \in PollPcs,
           poll' = [poll EXCEPT ![g].pc = pc]
    PROVE  /\ poll' \in Polls
           /\ poll'[g].pc = pc
           /\ \A x \in Generations : x # g => poll'[x] = poll[x]
<1>1. poll[g] \in [pc : PollPcs, image : Images \cup {NoOne}, id : Nat]
  BY DEF Polls
<1>2. poll' = [poll EXCEPT ![g] = [poll[g] EXCEPT !.pc = pc]]
  OBVIOUS
<1>3. [poll[g] EXCEPT !.pc = pc] \in [pc : PollPcs, image : Images \cup {NoOne}, id : Nat]
  BY <1>1
<1> HIDE DEF PollPcs
<1>4. [poll[g] EXCEPT !.pc = pc].pc = pc
  BY <1>1
<1> QED BY <1>2, <1>3, <1>4 DEF Polls

LEMMA ReloadTypes ==
    ASSUME TypeOK, Subjects,
           \/ \E on \in SUBSET Hosts : SwapDocker(on)
           \/ TurnOn \/ TurnOff \/ StopReturns
    PROVE  TypeOK' /\ Subjects'
<1> USE DEF TypeOK, Subjects, Subscribed, Request, Idle, NoId, NoOne
<1>1. CASE \E on \in SUBSET Hosts : SwapDocker(on)
  BY <1>1 DEF SwapDocker, goroutines, scans, stored
<1>2. CASE TurnOn
  <2>1. CASE enabled
    BY <1>2, <2>1 DEF TurnOn, goroutines, scans, stored
  <2>2. CASE ~enabled
    <3> DEFINE g == CHOOSE g \in Generations : NoGoroutine(g)
    <3>1. Start(g, hosts)
      BY <1>2, <2>2 DEF TurnOn
    <3> HIDE DEF g
    <3>2. TypeOK'
      <4>1. listener' \in [Generations -> [Hosts -> {"none", "top", "backoff"} \cup Subscribed]]
        BY <3>1 DEF Start
      <4>2. poll' \in Polls
        <5>1. poll' = [poll EXCEPT ![g].pc = "waiting"]
          BY <3>1 DEF Start
        <5>2. CASE g \in Generations
          BY <5>1, <5>2, PollMoves DEF PollPcs, Polls
        <5>3. CASE g \notin Generations
          <6>1. poll' = poll
            BY <5>1, <5>3
          <6> QED BY <6>1 DEF Polls, PollPcs
        <5> QED BY <5>2, <5>3
      <4> QED BY <1>2, <2>2, <3>1, <4>1, <4>2 DEF TurnOn, Start, scans, stored, Polls, PollPcs
    <3>3. Subjects'
      BY <1>2, <3>1 DEF TurnOn, Start, scans, stored
    <3> QED BY <3>2, <3>3
  <2> QED BY <2>1, <2>2
<1>3. CASE TurnOff
  BY <1>3 DEF TurnOff, goroutines, scans, stored
<1>4. CASE StopReturns
  BY <1>4 DEF StopReturns, goroutines, scans, stored
<1> QED BY <1>1, <1>2, <1>3, <1>4

LEMMA ImageTypes ==
    ASSUME TypeOK, Subjects, NEW i \in Images, EndScan(i) \/ Age(i) \/ Pull(i)
    PROVE  TypeOK' /\ Subjects'
<1> USE DEF TypeOK, Subjects, Subscribed, Request, NoOne
<1>1. CASE EndScan(i)
  <2>1. UNCHANGED <<hosts, reload, enabled, goroutines, version, request>>
    BY <1>1 DEF EndScan
  <2>2. CASE EndFresh(i)
    BY <2>1, <2>2 DEF EndFresh, InsertResult, goroutines, stored
  <2>3. CASE EndOlder(i)
    BY <2>1, <2>3 DEF EndOlder, InsertResult, goroutines, stored
  <2> QED BY <1>1, <2>2, <2>3 DEF EndScan
<1>2. CASE Age(i)
  BY <1>2 DEF Age, goroutines, scans
<1>3. CASE Pull(i)
  BY <1>3 DEF Pull, stored
<1> QED BY <1>1, <1>2, <1>3

LEMMA ListenerTypes ==
    ASSUME TypeOK, Subjects, NEW g \in Generations, NEW h \in Hosts, ListenerStep(g, h)
    PROVE  TypeOK' /\ Subjects'
<1> USE DEF TypeOK, Subjects, Subscribed, Request, NoOne, SetListener
<1>1. CASE Top(g, h)
  BY <1>1 DEF Top, scans, stored
<1>2. CASE BackOff(g, h)
  <2>1. CASE SetListener(g, h, "top")
    BY <1>2, <2>1 DEF BackOff, scans, stored
  <2>2. CASE SetListener(g, h, "none")
    BY <1>2, <2>2 DEF BackOff, scans, stored
  <2> QED BY <1>2, <2>1, <2>2 DEF BackOff
<1>3. CASE LoseStream(g, h)
  BY <1>3 DEF LoseStream, scans, stored
<1>4. CASE SeeStop(g, h)
  BY <1>4 DEF SeeStop, scans, stored
<1>5. CASE Receive(g, h)
  <2>1. PICK i \in events[g][h] : events' = [events EXCEPT ![g][h] = @ \ {i}]
    BY <1>5 DEF Receive
  <2>2. \/ UNCHANGED <<listener, handling>>
        \/ \E j \in Images : /\ SetListener(g, h, "checking")
                           /\ handling' = [handling EXCEPT ![g][h] = j]
    <3>1. events[g][h] \subseteq Images
      OBVIOUS
    <3> QED BY <1>5, <3>1 DEF Receive
  <2>3. CASE UNCHANGED <<listener, handling>>
    BY <1>5, <2>1, <2>3 DEF Receive, scans, stored
  <2>4. ASSUME NEW j \in Images, SetListener(g, h, "checking"),
               handling' = [handling EXCEPT ![g][h] = j]
        PROVE  TypeOK' /\ Subjects'
    BY <1>5, <2>1, <2>4 DEF Receive, scans, stored
  <2> QED BY <2>2, <2>3, <2>4
<1>6. CASE CheckJobs(g, h)
  <2>1. CASE Active(handling[g][h]) > 0
    <3>1. SetListener(g, h, "listening") /\ handling' = [handling EXCEPT ![g][h] = NoOne]
      BY <1>6, <2>1 DEF CheckJobs
    <3>2. TypeOK'
      BY <1>6, <3>1 DEF CheckJobs, scans, stored
    <3>3. Subjects'
      BY <1>6, <3>1 DEF CheckJobs, scans, stored
    <3> QED BY <3>2, <3>3
  <2>2. CASE ~(Active(handling[g][h]) > 0)
    <3>1. SetListener(g, h, "starting") /\ UNCHANGED handling
      BY <1>6, <2>2 DEF CheckJobs
    <3>2. TypeOK'
      BY <1>6, <3>1 DEF CheckJobs, scans, stored
    <3>3. Subjects'
      <4>1. listener[g][h] = "checking"
        BY <1>6 DEF CheckJobs
      <4> QED BY <1>6, <3>1, <4>1 DEF CheckJobs
    <3> QED BY <3>2, <3>3
  <2> QED BY <2>1, <2>2
<1>7. CASE ScanPulled(g, h)
  BY <1>7 DEF ScanPulled, StartScan, stored
<1> QED BY <1>1, <1>2, <1>3, <1>4, <1>5, <1>6, <1>7 DEF ListenerStep

LEMMA PollTypes ==
    ASSUME TypeOK, Subjects, NEW g \in Generations, PollStep(g)
    PROVE  TypeOK' /\ Subjects'
<1> USE DEF TypeOK, Subjects, Subscribed, Request, NoOne
<1>1. CASE PollSeesStop(g)
  <2>1. poll' = [poll EXCEPT ![g].pc = "none"]
    BY <1>1 DEF PollSeesStop
  <2>2. poll' \in Polls /\ poll'[g].pc = "none" /\ \A x \in Generations : x # g => poll'[x] = poll[x]
    BY <2>1, PollMoves DEF Polls, PollPcs
  <2> QED BY <1>1, <2>2 DEF PollSeesStop, scans, stored, Polls, PollPcs
<1>2. ASSUME NEW answering \in SUBSET hosts, ListImages(g, answering)
      PROVE  TypeOK' /\ Subjects'
  <2>1. {<<i, version[i]>> : i \in {j \in Images : HostOf[j] \in answering}} \in SUBSET (Images \X Nat)
    OBVIOUS
  <2>2. poll' = [poll EXCEPT ![g].pc = "looking"]
    BY <1>2 DEF ListImages
  <2>3. poll' \in Polls /\ poll'[g].pc = "looking" /\ \A x \in Generations : x # g => poll'[x] = poll[x]
    BY <2>2, PollMoves DEF Polls, PollPcs
  <2>4. todo' \in [Generations -> SUBSET (Images \X Nat)]
    <3> DEFINE listed == {<<i, version[i]>> : i \in {j \in Images : HostOf[j] \in answering}}
    <3>1. todo' = [todo EXCEPT ![g] = listed]
      BY <1>2 DEF ListImages
    <3> HIDE DEF listed
    <3>2. listed \in SUBSET (Images \X Nat)
      BY <2>1 DEF listed
    <3> QED BY <3>1, <3>2
  <2> QED BY <1>2, <2>3, <2>4 DEF ListImages, scans, stored, Polls, PollPcs
<1>3. ASSUME NEW i \in Images, Skip(g, i)
      PROVE  TypeOK' /\ Subjects'
  BY <1>3 DEF Skip, scans, stored
<1>4. ASSUME NEW i \in Images, Choose(g, i)
      PROVE  TypeOK' /\ Subjects'
  <2>1. PICK item \in todo[g] :
            /\ todo' = [todo EXCEPT ![g] = @ \ {item}]
            /\ poll' = [poll EXCEPT ![g] = [pc |-> "starting", image |-> i, id |-> item[2]]]
    BY <1>4 DEF Choose
  <2>2. item[2] \in Nat
    OBVIOUS
  <2> QED BY <1>4, <2>1, <2>2 DEF Choose, scans, stored
<1>5. CASE ScanChanged(g)
  <2>1. poll[g].pc = "starting" /\ poll[g].image \in Images
    BY <1>5 DEF ScanChanged
  <2>2. fresh' \in [Images -> Nat] /\ UNCHANGED <<older, covered, failed>>
    BY <1>5, <2>1 DEF ScanChanged, StartScan
  <2> HIDE DEF Request
  <2>3. TypeOK'
    BY <1>5, <2>1, <2>2 DEF ScanChanged, stored
  <2>4. Subjects'
    BY <1>5, <2>1 DEF ScanChanged, stored
  <2> QED BY <2>3, <2>4
<1>6. CASE Record(g)
  <2>1. /\ states' \subseteq Images /\ recent' \subseteq Images /\ scanned' \subseteq Images
        /\ imageId' \in [Images -> Nat]
    <3>1. poll[g].image \in Images /\ poll[g].id \in Nat
      BY <1>6 DEF Record
    <3>2. CASE UpsertImageScanState(poll[g].image, poll[g].id)
      BY <3>1, <3>2 DEF UpsertImageScanState
    <3>3. CASE UNCHANGED stored
      BY <3>3 DEF stored
    <3> QED BY <1>6, <3>2, <3>3 DEF Record
  <2> QED BY <1>6, <2>1 DEF Record, scans, Idle, NoId
<1>7. CASE EndPoll(g)
  <2>1. poll' = [poll EXCEPT ![g].pc = "waiting"]
    BY <1>7 DEF EndPoll
  <2>2. poll' \in Polls /\ poll'[g].pc = "waiting" /\ \A x \in Generations : x # g => poll'[x] = poll[x]
    BY <2>1, PollMoves DEF Polls, PollPcs
  <2> QED BY <1>7, <2>2 DEF EndPoll, scans, stored, Polls, PollPcs
<1> QED BY <1>1, <1>2, <1>3, <1>4, <1>5, <1>6, <1>7 DEF PollStep

LEMMA RequestTypes ==
    ASSUME TypeOK, Subjects, NEW r \in Requests,
           Gate(r) \/ ScanRequested(r) \/ \E i \in Images : Ask(r, i)
    PROVE  TypeOK' /\ Subjects'
<1> USE DEF TypeOK, Subjects, Subscribed, Request, NoOne, Idle, NoId
<1>1. CASE Gate(r)
  <2>0. UNCHANGED <<hosts, reload, enabled, goroutines, version, scans, stored>>
    BY <1>1 DEF Gate
  <2>1. CASE request' = [request EXCEPT ![r].pc = "starting"]
    <3>1. request[r].pc = "asking" /\ request[r] \in Request
      BY <1>1 DEF Gate
    <3>2. request' = [request EXCEPT ![r] = [request[r] EXCEPT !.pc = "starting"]]
      BY <2>1
    <3>3. [request[r] EXCEPT !.pc = "starting"] \in Request
      BY <3>1
    <3>4. request' \in [Requests -> Request]
      BY <3>2, <3>3
    <3>5. request'[r].image \in Images /\ \A x \in Requests : x # r => request'[x] = request[x]
      BY <3>1, <3>2
    <3> QED BY <2>0, <3>4, <3>5 DEF goroutines, scans, stored
  <2>2. CASE request' = [request EXCEPT ![r] = Idle]
    BY <1>1, <2>2 DEF Gate, goroutines, scans, stored
  <2> QED BY <1>1, <2>1, <2>2 DEF Gate
<1>2. CASE ScanRequested(r)
  BY <1>2 DEF ScanRequested, StartScan, goroutines, stored
<1>3. ASSUME NEW i \in Images, Ask(r, i)
      PROVE  TypeOK' /\ Subjects'
  BY <1>3 DEF Ask, goroutines, scans, stored
<1> QED BY <1>1, <1>2, <1>3

-----------------------------------------------------------------------------
(* OneGeneration.                                                          *)

\* A goroutine's step leaves the generations that have none without any.
LEMMA StepsStayQuiet ==
    ASSUME TypeOK, NEW g \in Generations,
           PollStep(g) \/ \E h \in Hosts : ListenerStep(g, h)
    PROVE  /\ \A x \in Generations : NoGoroutine(x) => NoGoroutine(x)'
           /\ UNCHANGED <<enabled, reload>>
<1>1. CASE PollStep(g)
  <2>1. UNCHANGED <<enabled, reload, listener>>
    BY <1>1 DEF PollStep, PollSeesStop, ListImages, Skip, Choose, ScanChanged, Record, EndPoll
  <2>2. poll' = poll \/ poll[g].pc # "none"
    BY <1>1 DEF PollStep, PollSeesStop, ListImages, Skip, Choose, ScanChanged, Record, EndPoll
  <2>3. \A x \in Generations : x # g => poll'[x] = poll[x]
    BY <1>1 DEF PollStep, PollSeesStop, ListImages, Skip, Choose, ScanChanged, Record, EndPoll, TypeOK
  <2> QED BY <2>1, <2>2, <2>3 DEF NoGoroutine
<1>2. ASSUME NEW h \in Hosts, ListenerStep(g, h)
      PROVE  /\ \A x \in Generations : NoGoroutine(x) => NoGoroutine(x)'
             /\ UNCHANGED <<enabled, reload>>
  <2>1. UNCHANGED <<enabled, reload, poll>>
    BY <1>2 DEF ListenerStep, Top, BackOff, LoseStream, SeeStop, Receive, CheckJobs, ScanPulled
  <2>2. listener[g][h] # "none"
    BY <1>2 DEF ListenerStep, Top, BackOff, LoseStream, SeeStop, Receive, CheckJobs, ScanPulled
  <2>3. \A x \in Generations : x # g => listener'[x] = listener[x]
    BY <1>2 DEF ListenerStep, Top, BackOff, LoseStream, SeeStop, Receive, CheckJobs, ScanPulled,
                SetListener, TypeOK
  <2> QED BY <2>1, <2>2, <2>3 DEF NoGoroutine
<1> QED BY <1>1, <1>2

LEMMA KeepsOneGeneration ==
    ASSUME IInv, [Next]_vars
    PROVE  OneGeneration'
<1> USE DEF IInv, OneGeneration
<1>1. ASSUME NEW on \in SUBSET Hosts, SwapDocker(on) PROVE OneGeneration'
  BY <1>1 DEF SwapDocker, goroutines, NoGoroutine
<1>2. CASE TurnOn
  <2>1. CASE enabled
    BY <1>2, <2>1 DEF TurnOn, goroutines, NoGoroutine
  <2>2. CASE ~enabled
    <3> DEFINE g == CHOOSE g \in Generations : NoGoroutine(g)
    <3>1. \A x \in Generations : NoGoroutine(x)
      BY <1>2, <2>2 DEF TurnOn
    <3>2. g \in Generations
      BY <3>1, GenerationAssumption
    <3>3. Start(g, hosts)
      BY <1>2, <2>2 DEF TurnOn
    <3> HIDE DEF g
    <3>4. \A x \in Generations : x # g => NoGoroutine(x)'
      BY <3>1, <3>2, <3>3 DEF Start, NoGoroutine, TypeOK
    <3> QED BY <3>3, <3>4 DEF Start
  <2> QED BY <2>1, <2>2
<1>3. CASE TurnOff
  BY <1>3 DEF TurnOff, goroutines, NoGoroutine
<1>4. CASE StopReturns
  BY <1>4 DEF StopReturns, goroutines, NoGoroutine
<1>5. ASSUME NEW g \in Generations, PollStep(g) \/ \E h \in Hosts : ListenerStep(g, h)
      PROVE  OneGeneration'
  BY <1>5, StepsStayQuiet
<1>6. ASSUME NEW i \in Images, EndScan(i) \/ Age(i) \/ Pull(i) PROVE OneGeneration'
  BY <1>6 DEF EndScan, Age, Pull, goroutines, NoGoroutine
<1>7. ASSUME NEW r \in Requests,
             Gate(r) \/ ScanRequested(r) \/ \E i \in Images : Ask(r, i)
      PROVE  OneGeneration'
  BY <1>7 DEF Gate, ScanRequested, Ask, goroutines, NoGoroutine
<1>8. CASE UNCHANGED vars
  BY <1>8 DEF vars, goroutines, NoGoroutine
<1> QED BY <1>1, <1>2, <1>3, <1>4, <1>5, <1>6, <1>7, <1>8 DEF Next

-----------------------------------------------------------------------------
LEMMA NextIInv == IInv /\ [Next]_vars => IInv'
<1> SUFFICES ASSUME IInv, [Next]_vars PROVE IInv' OBVIOUS
<1>1. TypeOK' /\ Subjects'
  <2>1. CASE Next
    BY <2>1, ReloadTypes, ImageTypes, ListenerTypes, PollTypes, RequestTypes DEF IInv, Next
  <2>2. CASE UNCHANGED vars
    BY <2>2 DEF IInv, vars, goroutines, scans, stored, TypeOK, Subjects, Subscribed, Request
  <2> QED BY <2>1, <2>2
<1> QED BY <1>1, KeepsOneGeneration DEF IInv

\* Every step keeps the invariant, so every behaviour does.
THEOREM Invariance == Spec => []IInv
<1> QED BY InitIInv, NextIInv, PTL DEF Spec

\* All variables of the auto-scanner keep their types (autoscan.go:16-28).
THEOREM TypeCorrect == Spec => []TypeOK
<1>1. IInv => TypeOK
  BY DEF IInv
<1> QED BY <1>1, Invariance, PTL

\* At most one listener per host and one poll loop, however often and in
\* whatever order it is started and stopped (autoscan.go:44-79).
THEOREM GenerationsAreExclusive == Spec => []OneGeneration
<1>1. IInv => OneGeneration
  BY DEF IInv
<1> QED BY <1>1, Invariance, PTL
=============================================================================
