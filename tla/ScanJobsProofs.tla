--------------------------- MODULE ScanJobsProofs ---------------------------
(***************************************************************************)
(* Proofs about ScanJobs for any number of scans, bulk scans, hosts, slots *)
(* and concurrent cancellations.                                           *)
(*                                                                         *)
(* That a result shows exactly when the status is "complete" rests on two  *)
(* facts: a scan is past its last write when its status is "complete", and *)
(* what onProgress or a failing scan is about to write is never            *)
(* "complete".  That handles are neither leaked nor lost rests on where    *)
(* cancellations can be: only on jobs that had a handle, hence never on a  *)
(* sub-scan, and, once they mark, only on jobs whose context is done.      *)
(*                                                                         *)
(* The tallies of a bulk job are exact because the status of a sub-scan    *)
(* that has been counted never changes.  That a bulk job which nobody      *)
(* disturbed is whole needs what its goroutines per host have waited for,  *)
(* and that "cancelled" can only come down to a sub-scan from its bulk     *)
(* job's context.                                                          *)
(***************************************************************************)
EXTENDS ScanJobs, FiniteSetTheorems, TLAPS

\* Where a scan's goroutine has not written its last status yet, and where it has.
Early == {"start", "pulling", "scanning", "reading", "reporting", "removing", "failing",
          "publishing"}
Late == {"cleanup", "counting", "done"}

JobRuns == \A j \in Jobs : run[j] \in Early \cup Late \cup {"none", "queued"}

\* The last status is a terminal one, and nobody else writes "complete".
LateIsTerminal == \A j \in Jobs : run[j] \in Late => status[j] \in Terminal

CompleteIsLate == \A j \in Jobs : status[j] = "complete" => run[j] \in Late

SeenIsNotComplete == \A j \in Jobs :
    /\ seen[j] # "complete"
    /\ run[j] = "failing" => seen[j] \in {"failed", "cancelled"}

\* A scan belongs to a bulk job from the moment it exists.
FreshIsFree == \A j \in Jobs : run[j] = "none" => bulkOf[j] = NoBulk

CountingIsSub == \A j \in Jobs : run[j] = "counting" => bulkOf[j] # NoBulk

HandlesRun == \A x \in cancels : Running(x)

HandlesAreSingle == \A j \in Jobs : j \in cancels => bulkOf[j] = NoBulk

\* CancelJob works on a job that had a handle, hence not on a sub-scan.
TargetsAreSingle == \A k \in Cancellers : cancel[k].pc # "idle" =>
    /\ cancel[k].id \in Ids
    /\ run[cancel[k].id] \notin {"none", "queued"}
    /\ cancel[k].id \in Jobs => bulkOf[cancel[k].id] = NoBulk
    /\ cancel[k].pc = "marking" => ctx[cancel[k].id] # "live"

\* As long as nobody has cancelled a single scan it has its handle, and what
\* onProgress has read is still its status.
SingleIsHandled == \A j \in Jobs :
    bulkOf[j] = NoBulk /\ run[j] \in Early /\ ctx[j] = "live" =>
        /\ j \in cancels
        /\ status[j] \in Active
        /\ run[j] \in {"reading", "reporting"} => seen[j] \in Active
        /\ run[j] = "reading" => seen[j] = status[j]

\* The part about what a scan's goroutine writes, and the part about handles.
WritesInv ==
    /\ JobRuns
    /\ LateIsTerminal
    /\ CompleteIsLate
    /\ SeenIsNotComplete
    /\ ResultIffComplete

HandlesInv ==
    /\ FreshIsFree
    /\ CountingIsSub
    /\ HandlesRun
    /\ HandlesAreSingle
    /\ TargetsAreSingle
    /\ SingleIsHandled

IInv == TypeOK /\ WritesInv /\ HandlesInv

-----------------------------------------------------------------------------

\* The service that NewScannerService returns satisfies the invariant.
THEOREM InitIInv == Init => IInv
<1> SUFFICES ASSUME Init PROVE IInv
  OBVIOUS
<1>1. TypeOK
  BY DEF Init, TypeOK, Ids, Status, RunState, NoCancel
<1>2. QED
  BY <1>1 DEF Init, IInv, WritesInv, HandlesInv, JobRuns, LateIsTerminal, CompleteIsLate, SeenIsNotComplete,
       ResultIffComplete, FreshIsFree, CountingIsSub, HandlesRun, HandlesAreSingle,
       TargetsAreSingle, SingleIsHandled, Ids, Early, Late, NoCancel

-----------------------------------------------------------------------------
(* Type correctness.                                                       *)

\* A context only ever ends, for one of the two reasons.
LEMMA EndType ==
  ASSUME TypeOK, NEW x, NEW why \in {"expired", "cancelled"}, End(x, why)
  PROVE  /\ ctx' \in [Ids -> {"live", "expired", "cancelled"}]
         /\ \A y \in Ids : ctx[y] # "live" => ctx'[y] = ctx[y]
         /\ x \in Ids => ctx'[x] # "live"
  BY DEF TypeOK, End

\* A step of a goroutine keeps the types of what it writes.
LEMMA StepType ==
  ASSUME TypeOK, NEW x \in Ids, NEW from, NEW to \in RunState, NEW s \in Status,
         Step(x, from, to, s)
  PROVE  status' \in [Ids -> Status] /\ run' \in [Ids -> RunState]
  BY DEF TypeOK, Step

\* The handlers that start jobs keep the types.
LEMMA StartType ==
  ASSUME TypeOK
  PROVE  /\ \A j \in Jobs : StartScan(j) => TypeOK'
         /\ \A b \in Bulks : \A S \in SUBSET Jobs : StartBulkScan(b, S) => TypeOK'
<1>1. ASSUME NEW j \in Jobs, StartScan(j) PROVE TypeOK'
  BY <1>1 DEF TypeOK, StartScan, Ids, Status, Active, RunState
<1>2. ASSUME NEW b \in Bulks, NEW S \in SUBSET Jobs, StartBulkScan(b, S) PROVE TypeOK'
  <2>1. bulkOf' \in [Jobs -> Bulks \cup {NoBulk}]
    BY <1>2 DEF TypeOK, StartBulkScan
  <2>2. jobs' \subseteq Ids /\ cancels' \subseteq Ids
    BY <1>2 DEF TypeOK, StartBulkScan, Ids
  <2>3. status' \in [Ids -> Status]
    BY <1>2 DEF TypeOK, StartBulkScan, Status, Active, Terminal
  <2>4. run' \in [Ids -> RunState]
    BY <1>2 DEF TypeOK, StartBulkScan, RunState
  <2>5. QED
    BY <1>2, <2>1, <2>2, <2>3, <2>4 DEF TypeOK, StartBulkScan
<1>3. QED
  BY <1>1, <1>2

\* Adding to a counter of a bulk job, if there is one, keeps the counters natural.
LEMMA AddKeepsNat ==
  ASSUME NEW f \in [Bulks -> Nat], NEW b, NEW n \in Nat
  PROVE  [f EXCEPT ![b] = f[b] + n] \in [Bulks -> Nat]
<1>1. \A c \in Bulks : [f EXCEPT ![b] = f[b] + n][c] \in Nat
  <2>1. CASE b \in Bulks
    <3>1. f[b] + n \in Nat
      BY <2>1
    <3>2. QED
      BY <2>1, <3>1
  <2>2. CASE b \notin Bulks
    BY <2>2
  <2>3. QED
    BY <2>1, <2>2
<1>2. QED
  BY <1>1

\* The goroutine of a scan keeps the types.
LEMMA ScanType ==
  ASSUME TypeOK, NEW j \in Jobs,
         Proceed(j) \/ ScanReturns(j) \/ ReadStatus(j)
  PROVE  TypeOK'
<1> USE DEF TypeOK
<1>0. j \in Ids /\ status[j] \in Status /\ seen[j] \in Status /\ bulkOf[j] \in Bulks \cup {NoBulk}
  BY DEF Ids
<1>1. CASE ScanUnavailable(j) \/ PullScanner(j) \/ BeginScanning(j)
  BY <1>0, <1>1, StepType
  DEF ScanUnavailable, PullScanner, BeginScanning, RunState, Status, Active, Terminal
<1>2. CASE ReadStatus(j)
  BY <1>0, <1>2, StepType DEF ReadStatus, RunState, Status
<1>3. CASE WriteBack(j) \/ WriteFailure(j)
  BY <1>0, <1>3, StepType DEF WriteBack, WriteFailure, RunState, Status
<1>4. CASE Publish(j) \/ ReturnFromScan(j) \/ RemoveScanner(j) \/ ScanSucceeds(j)
  BY <1>0, <1>4, StepType
  DEF Publish, ReturnFromScan, RemoveScanner, ScanSucceeds, RunState, Status, Terminal
<1>5. CASE ScanFails(j)
  BY <1>0, <1>5, StepType
  DEF ScanFails, classifyScanFailure, RunState, Status, Terminal
<1>6. CASE Count(j)
  <2>1. /\ (IF status[j] = "complete" THEN 1 ELSE 0) \in Nat
        /\ (IF status[j] = "failed" THEN 1 ELSE 0) \in Nat
    OBVIOUS
  <2>2. completed' \in [Bulks -> Nat] /\ failed' \in [Bulks -> Nat]
    <3>1. PICK m \in Nat : completed' = [completed EXCEPT ![bulkOf[j]] = completed[bulkOf[j]] + m]
      BY <1>6, <2>1 DEF Count
    <3>2. PICK n \in Nat : failed' = [failed EXCEPT ![bulkOf[j]] = failed[bulkOf[j]] + n]
      BY <1>6, <2>1 DEF Count
    <3>3. QED
      BY <3>1, <3>2, AddKeepsNat
  <2>3. QED
    BY <1>0, <1>6, <2>2, StepType DEF Count, RunState
<1>7. QED
  BY <1>1, <1>2, <1>3, <1>4, <1>5, <1>6 DEF Proceed, ScanReturns

\* Bulk jobs and their goroutines per host keep the types.
LEMMA BulkType ==
  ASSUME TypeOK, NEW b \in Bulks, BulkStep(b) \/ \E h \in Hosts : HostStep(b, h)
  PROVE  TypeOK'
<1> USE DEF TypeOK
<1>0. b \in Ids /\ status[b] \in Status
  BY DEF Ids
<1>1. CASE BeginBulk(b)
  BY <1>0, <1>1, StepType DEF BeginBulk, RunState, Status, Active
<1>2. CASE FinishBulk(b) \/ ReturnFromBulk(b)
  BY <1>0, <1>2, StepType DEF FinishBulk, ReturnFromBulk, RunState, Status, Terminal
<1>3. ASSUME NEW h \in Hosts, AbandonHost(b, h) \/ JoinHost(b, h) PROVE TypeOK'
  <2>1. loop' = [loop EXCEPT ![b][h] = "done"]
    BY <1>3 DEF AbandonHost, JoinHost
  <2>2. loop' \in [Bulks -> [Hosts -> {"none", "looping", "done"}]]
    BY <2>1
  <2>3. QED
    BY <1>3, <2>2 DEF AbandonHost, JoinHost
<1>4. ASSUME NEW h \in Hosts, NEW j \in Jobs, Launch(b, h, j) PROVE TypeOK'
  BY <1>0, <1>4 DEF Launch, RunState, Ids
<1>5. QED
  BY <1>1, <1>2, <1>3, <1>4 DEF BulkStep, HostStep

\* Deadlines, the collector and CancelJob keep the types.
LEMMA OutsideType ==
  ASSUME TypeOK,
         \/ \E x \in Ids : Deadline(x) \/ Collect(x)
         \/ \E k \in Cancellers : CancelStep(k) \/ (\E x \in Ids : CancelCheck(k, x))
  PROVE  TypeOK'
<1>1. ASSUME NEW x \in Ids, Deadline(x) PROVE TypeOK'
  BY <1>1, EndType DEF TypeOK, Deadline
<1>2. ASSUME NEW x \in Ids, Collect(x) PROVE TypeOK'
  BY <1>2 DEF TypeOK, Collect
<1>3. ASSUME NEW k \in Cancellers, NEW x \in Ids, CancelCheck(k, x) PROVE TypeOK'
  BY <1>3 DEF TypeOK, CancelCheck
<1>4. ASSUME NEW k \in Cancellers, CancelContext(k) PROVE TypeOK'
  BY <1>4, EndType DEF TypeOK, CancelContext
<1>5. ASSUME NEW k \in Cancellers, CancelMark(k) PROVE TypeOK'
  BY <1>5 DEF TypeOK, CancelMark, NoCancel, Status, Terminal
<1>6. QED
  BY <1>1, <1>2, <1>3, <1>4, <1>5 DEF CancelStep

\* Every step keeps the types.
LEMMA StepKeepsType ==
  ASSUME TypeOK, [Next]_vars
  PROVE  TypeOK'
<1>1. CASE UNCHANGED vars
  BY <1>1 DEF TypeOK, vars
<1>2. CASE Next
  BY <1>2, StartType, ScanType, BulkType, OutsideType DEF Next
<1>3. QED
  BY <1>1, <1>2

-----------------------------------------------------------------------------
(* What a scan's goroutine writes.                                         *)

\* A step of the goroutine of a scan that leaves its result alone keeps the
\* invariant of all scans if it keeps that of its own.
LEMMA WritesOfOne ==
  ASSUME TypeOK, WritesInv, NEW j \in Jobs, NEW from, NEW to, NEW s, NEW v,
         Step(j, from, to, s),
         seen' = [seen EXCEPT ![j] = v],
         to \in Early \cup Late,
         to \in Late => s \in Terminal,
         s = "complete" => to \in Late,
         v # "complete",
         to = "failing" => v \in {"failed", "cancelled"},
         IF s = "complete" THEN result' = result \cup {j}
         ELSE result' = result /\ j \notin result
  PROVE  WritesInv'
<1>1. \A i \in Jobs : i \in Ids
  BY DEF Ids
<1>2. \A i \in Jobs : /\ run'[i] = IF i = j THEN to ELSE run[i]
                      /\ status'[i] = IF i = j THEN s ELSE status[i]
                      /\ seen'[i] = IF i = j THEN v ELSE seen[i]
  BY <1>1 DEF TypeOK, Step
<1>3. JobRuns' /\ LateIsTerminal' /\ CompleteIsLate' /\ SeenIsNotComplete'
  BY <1>2 DEF WritesInv, JobRuns, LateIsTerminal, CompleteIsLate, SeenIsNotComplete
<1>4. ResultIffComplete'
  BY <1>2 DEF WritesInv, ResultIffComplete
<1>5. QED
  BY <1>3, <1>4 DEF WritesInv

\* The goroutine of a scan keeps it: before its last write the status is not
\* "complete", hence what it has seen is not either.
LEMMA ScanWrites ==
  ASSUME TypeOK, WritesInv, NEW j \in Jobs,
         Proceed(j) \/ ScanReturns(j) \/ ReadStatus(j)
  PROVE  WritesInv'
<1>0. /\ seen = [seen EXCEPT ![j] = seen[j]]
      /\ run[j] \in Early => status[j] # "complete" /\ j \notin result
      /\ seen[j] # "complete"
      /\ run[j] = "failing" => seen[j] \in {"failed", "cancelled"}
      /\ run[j] \in Late => status[j] \in Terminal
      /\ status[j] = "complete" <=> j \in result
  BY DEF TypeOK, WritesInv, CompleteIsLate, ResultIffComplete, SeenIsNotComplete,
         LateIsTerminal, Early, Late
<1>1. CASE ScanUnavailable(j)
  BY <1>0, <1>1, WritesOfOne DEF ScanUnavailable, Step, Early, Late, Terminal
<1>2. CASE PullScanner(j) \/ BeginScanning(j)
  <2>1. PICK from, to, s : Step(j, from, to, s) /\ s # "complete"
                           /\ from \in Early /\ to \in Early \ {"failing"}
    BY <1>2 DEF PullScanner, BeginScanning, Early
  <2>2. run[j] = from /\ UNCHANGED <<seen, result>>
    BY <1>2, <2>1 DEF PullScanner, BeginScanning, Step
  <2>3. to \in Early /\ to # "failing" /\ to \notin Late
    BY <2>1 DEF Early, Late
  <2>4. j \notin result /\ result' = result /\ seen' = [seen EXCEPT ![j] = seen[j]]
    BY <1>0, <2>1, <2>2
  <2>5. Step(j, from, to, s) /\ s # "complete" /\ seen[j] # "complete"
    BY <1>0, <2>1
  <2>6. QED
    BY <2>3, <2>4, <2>5, WritesOfOne
<1>3. CASE ReadStatus(j)
  <2>1. PICK from \in Early, to \in {"reading", "reporting"}, v \in {status[j], seen[j], "torn"} :
          Step(j, from, to, status[j]) /\ seen' = [seen EXCEPT ![j] = v]
    BY <1>3 DEF ReadStatus, Early
  <2>2. run[j] = from /\ result' = result
    BY <1>3, <2>1 DEF ReadStatus, Step
  <2>3. to \in Early /\ to # "failing" /\ to \notin Late
    BY DEF Early, Late
  <2>4. status[j] # "complete" /\ j \notin result /\ v # "complete"
    BY <1>0, <2>1, <2>2
  <2>5. QED
    BY <2>1, <2>2, <2>3, <2>4, WritesOfOne
<1>4. CASE WriteBack(j)
  <2>1. /\ Step(j, "reporting", "scanning", seen[j])
        /\ seen' = [seen EXCEPT ![j] = "none"]
        /\ result' = result /\ j \notin result
    BY <1>0, <1>4 DEF WriteBack, Step, Early
  <2>2. QED
    BY <1>0, <2>1, WritesOfOne DEF Early, Late
<1>5. CASE WriteFailure(j)
  <2>1. /\ Step(j, "failing", "cleanup", seen[j])
        /\ seen[j] \in {"failed", "cancelled"}
        /\ seen' = [seen EXCEPT ![j] = "none"]
        /\ result' = result /\ j \notin result
    BY <1>0, <1>5 DEF WriteFailure, Step, Early
  <2>2. QED
    BY <2>1, WritesOfOne DEF Late, Terminal
<1>6. CASE ScanFails(j)
  <2>1. /\ Step(j, run[j], "failing", status[j])
        /\ run[j] \in Early
        /\ status[j] # "complete"
        /\ seen' = [seen EXCEPT ![j] = classifyScanFailure(ctx[j])]
        /\ result' = result /\ j \notin result
    BY <1>0, <1>6 DEF ScanFails, Step, Early
  <2>2. classifyScanFailure(ctx[j]) \in {"failed", "cancelled"}
    BY DEF classifyScanFailure
  <2>3. QED
    BY <2>1, <2>2, WritesOfOne DEF Early, Late
<1>7. CASE RemoveScanner(j) \/ ScanSucceeds(j)
  <2>1. PICK from \in Early, to \in {"removing", "publishing"} : Step(j, from, to, status[j])
    BY <1>7 DEF RemoveScanner, ScanSucceeds, Early
  <2>2. run[j] = from /\ UNCHANGED <<seen, result>>
    BY <1>7, <2>1 DEF RemoveScanner, ScanSucceeds, Step
  <2>3. to \in Early /\ to # "failing" /\ to \notin Late
    BY DEF Early, Late
  <2>4. status[j] # "complete" /\ j \notin result
    BY <1>0, <2>1, <2>2
  <2>5. QED
    BY <1>0, <2>1, <2>2, <2>3, <2>4, WritesOfOne
<1>8. CASE Publish(j)
  BY <1>0, <1>8, WritesOfOne DEF Publish, Step, Early, Late, Terminal
<1>9. CASE ReturnFromScan(j) \/ Count(j)
  <2>1. /\ Step(j, run[j], run'[j], status[j])
        /\ run[j] \in Late /\ run'[j] \in Late \ {"failing"}
        /\ UNCHANGED <<seen, result>>
    BY <1>9 DEF ReturnFromScan, Count, Step, TypeOK, Ids, Late
  <2>2. QED
    BY <1>0, <2>1, WritesOfOne DEF Late
<1>10. QED
  BY <1>1, <1>2, <1>3, <1>4, <1>5, <1>6, <1>7, <1>8, <1>9 DEF Proceed, ScanReturns

\* What others do to a scan keeps it: they start it, launch it, or mark it as
\* cancelled while its status is an active one.
LEMMA OtherWrites ==
  ASSUME TypeOK, WritesInv, UNCHANGED <<seen, result>>,
         \A j \in Jobs :
            \/ UNCHANGED <<run[j], status[j]>>
            \/ run[j] \in {"none", "queued"} /\ run'[j] \in {"start", "queued"}
               /\ status'[j] \in {"pending", status[j]}
            \/ run'[j] = run[j] /\ status[j] \in Active /\ status'[j] = "cancelled"
  PROVE  WritesInv'
<1>1. JobRuns' /\ LateIsTerminal' /\ CompleteIsLate' /\ SeenIsNotComplete'
  BY DEF WritesInv, JobRuns, LateIsTerminal, CompleteIsLate, SeenIsNotComplete,
         Early, Late, Active, Terminal
<1>2. ResultIffComplete'
  BY DEF WritesInv, ResultIffComplete, CompleteIsLate, Late, Active
<1>3. QED
  BY <1>1, <1>2 DEF WritesInv

\* Every step keeps the invariant about what is written.
LEMMA StepKeepsWrites ==
  ASSUME TypeOK, WritesInv, [Next]_vars
  PROVE  WritesInv'
<1>0. \A j \in Jobs : j \in Ids /\ j \notin Bulks
  BY IdsAssumption DEF Ids
<1>1. CASE UNCHANGED vars
  BY <1>1, OtherWrites DEF vars
<1>2. ASSUME NEW j \in Jobs, StartScan(j) PROVE WritesInv'
  BY <1>0, <1>2, OtherWrites DEF StartScan, TypeOK
<1>3. ASSUME NEW j \in Jobs, Proceed(j) \/ ScanReturns(j) \/ ReadStatus(j) PROVE WritesInv'
  BY <1>3, ScanWrites
<1>4. ASSUME NEW b \in Bulks, BulkStep(b) PROVE WritesInv'
  BY <1>0, <1>4, OtherWrites
  DEF BulkStep, BeginBulk, FinishBulk, ReturnFromBulk, Step, TypeOK
<1>5. ASSUME NEW b \in Bulks, NEW S \in SUBSET Jobs, StartBulkScan(b, S) PROVE WritesInv'
  BY <1>0, <1>5, OtherWrites DEF StartBulkScan, TypeOK
<1>6. ASSUME NEW b \in Bulks, NEW h \in Hosts, HostStep(b, h) PROVE WritesInv'
  <2>1. CASE AbandonHost(b, h) \/ JoinHost(b, h)
    BY <2>1, OtherWrites DEF AbandonHost, JoinHost
  <2>2. ASSUME NEW j \in Jobs, Launch(b, h, j) PROVE WritesInv'
    BY <1>0, <2>2, OtherWrites DEF Launch, Queue, TypeOK
  <2>3. QED
    BY <1>6, <2>1, <2>2 DEF HostStep
<1>7. ASSUME NEW x \in Ids, Deadline(x) \/ Collect(x) PROVE WritesInv'
  BY <1>7, OtherWrites DEF Deadline, Collect
<1>8. ASSUME NEW k \in Cancellers, NEW x \in Ids, CancelCheck(k, x) PROVE WritesInv'
  BY <1>8, OtherWrites DEF CancelCheck
<1>9. ASSUME NEW k \in Cancellers, CancelStep(k) PROVE WritesInv'
  BY <1>0, <1>9, OtherWrites DEF CancelStep, CancelContext, CancelMark, TypeOK
<1>10. QED
  BY <1>1, <1>2, <1>3, <1>4, <1>5, <1>6, <1>7, <1>8, <1>9 DEF Next

-----------------------------------------------------------------------------
(* Where the handles are.                                                  *)

\* A step of the goroutine of a scan keeps the invariant about handles if it
\* keeps that of its own handle.
LEMMA HandlesOfOne ==
  ASSUME TypeOK, HandlesInv, NEW j \in Jobs, NEW from, NEW to, NEW s, NEW v,
         Step(j, from, to, s),
         seen' = [seen EXCEPT ![j] = v],
         UNCHANGED <<ctx, bulkOf, cancel>>,
         cancels' \in {cancels, cancels \ {j}},
         to \in Early \cup Late,
         to \in Early => cancels' = cancels,
         to = "counting" => bulkOf[j] # NoBulk,
         to = "done" => j \notin cancels',
         bulkOf[j] = NoBulk /\ ctx[j] = "live" /\ to \in Early =>
            /\ from \in Early
            /\ s \in Active
            /\ to \in {"reading", "reporting"} => v \in Active
            /\ to = "reading" => v = s
  PROVE  HandlesInv'
<1>1. \A i \in Jobs : i \in Ids
  BY DEF Ids
<1>2. /\ \A x \in Ids : run'[x] = IF x = j THEN to ELSE run[x]
      /\ \A i \in Jobs : /\ status'[i] = IF i = j THEN s ELSE status[i]
                         /\ seen'[i] = IF i = j THEN v ELSE seen[i]
      /\ run[j] = from
  BY <1>1 DEF TypeOK, Step
<1>3. FreshIsFree' /\ CountingIsSub' /\ HandlesAreSingle'
  BY <1>1, <1>2 DEF HandlesInv, FreshIsFree, CountingIsSub, HandlesAreSingle, Early, Late
<1>4. HandlesRun'
  BY <1>2 DEF HandlesInv, HandlesRun, Running, Early, Late, TypeOK
<1>5. TargetsAreSingle'
  BY <1>2 DEF HandlesInv, TargetsAreSingle, Early, Late
<1>6. SingleIsHandled'
  BY <1>1, <1>2 DEF HandlesInv, SingleIsHandled
<1>7. QED
  BY <1>3, <1>4, <1>5, <1>6 DEF HandlesInv

\* The goroutine of a scan keeps it: it drops its own handle only on its way
\* out, and what it has seen while nobody cancelled is an active status.
LEMMA ScanHandles ==
  ASSUME TypeOK, HandlesInv, NEW j \in Jobs,
         Proceed(j) \/ ScanReturns(j) \/ ReadStatus(j)
  PROVE  HandlesInv'
<1>0. /\ seen = [seen EXCEPT ![j] = seen[j]]
      /\ bulkOf[j] = NoBulk /\ ctx[j] = "live" /\ run[j] \in Early =>
            /\ status[j] \in Active
            /\ run[j] \in {"reading", "reporting"} => seen[j] \in Active
            /\ run[j] = "reading" => seen[j] = status[j]
      /\ run[j] = "counting" => bulkOf[j] # NoBulk
      /\ j \in cancels => bulkOf[j] = NoBulk
  BY DEF TypeOK, HandlesInv, SingleIsHandled, CountingIsSub, HandlesAreSingle
<1>1. CASE ScanUnavailable(j)
  BY <1>0, <1>1, HandlesOfOne DEF ScanUnavailable, Early, Late
<1>2. CASE PullScanner(j)
  <2>1. /\ Step(j, "start", "pulling", "pulling_scanner")
        /\ UNCHANGED <<seen, ctx, bulkOf, cancel, cancels>>
    BY <1>2 DEF PullScanner
  <2>2. QED
    BY <1>0, <2>1, HandlesOfOne DEF Early, Late, Active
<1>3. CASE BeginScanning(j)
  <2>1. /\ Step(j, "pulling", "scanning", "scanning")
        /\ UNCHANGED <<seen, ctx, bulkOf, cancel, cancels>>
    BY <1>3 DEF BeginScanning
  <2>2. QED
    BY <1>0, <2>1, HandlesOfOne DEF Early, Late, Active
<1>4. CASE ReadStatus(j)
  <2>1. CASE run[j] = "scanning"
    <3>1. /\ Step(j, "scanning", "reading", status[j])
          /\ seen' = [seen EXCEPT ![j] = status[j]]
          /\ UNCHANGED <<ctx, bulkOf, cancel, cancels>>
      BY <1>4, <2>1 DEF ReadStatus, Step
    <3>2. QED
      BY <1>0, <2>1, <3>1, HandlesOfOne DEF Early, Late
  <2>2. CASE run[j] = "reading"
    <3>1. PICK v : /\ seen' = [seen EXCEPT ![j] = v]
                   /\ status[j] = seen[j] => v = seen[j]
      BY <1>4, <2>2 DEF ReadStatus, Step
    <3>2. /\ Step(j, "reading", "reporting", status[j])
          /\ UNCHANGED <<ctx, bulkOf, cancel, cancels>>
      BY <1>4, <2>2 DEF ReadStatus, Step
    <3>3. QED
      BY <1>0, <2>2, <3>1, <3>2, HandlesOfOne DEF Early, Late
  <2>3. QED
    BY <1>4, <2>1, <2>2 DEF ReadStatus, Step
<1>5. CASE WriteBack(j)
  <2>1. /\ Step(j, "reporting", "scanning", seen[j])
        /\ seen' = [seen EXCEPT ![j] = "none"]
        /\ run[j] = "reporting"
        /\ UNCHANGED <<ctx, bulkOf, cancel, cancels>>
    BY <1>5 DEF WriteBack, Step
  <2>2. QED
    BY <1>0, <2>1, HandlesOfOne DEF Early, Late
<1>6. CASE WriteFailure(j)
  <2>1. /\ Step(j, "failing", "cleanup", seen[j])
        /\ seen' = [seen EXCEPT ![j] = "none"]
        /\ UNCHANGED <<ctx, bulkOf, cancel, cancels>>
    BY <1>6 DEF WriteFailure
  <2>2. QED
    BY <2>1, HandlesOfOne DEF Early, Late
<1>7. CASE ScanReturns(j)
  <2>1. PICK to, v : /\ to \in {"removing", "failing", "publishing"}
                     /\ Step(j, run[j], to, status[j])
                     /\ seen' = [seen EXCEPT ![j] = v]
    BY <1>0, <1>7 DEF ScanReturns, RemoveScanner, ScanFails, ScanSucceeds, Step
  <2>2. run[j] \in {"scanning", "removing"} /\ UNCHANGED <<ctx, bulkOf, cancel, cancels>>
    BY <1>7 DEF ScanReturns, RemoveScanner, ScanFails, ScanSucceeds, Step
  <2>3. QED
    BY <1>0, <2>1, <2>2, HandlesOfOne DEF Early, Late
<1>8. CASE Publish(j)
  <2>1. /\ Step(j, "publishing", "cleanup", "complete")
        /\ UNCHANGED <<seen, ctx, bulkOf, cancel, cancels>>
    BY <1>8 DEF Publish
  <2>2. QED
    BY <1>0, <2>1, HandlesOfOne DEF Early, Late
<1>9. CASE ReturnFromScan(j)
  <2>1. PICK to \in {"done", "counting"} :
            /\ Step(j, "cleanup", to, status[j])
            /\ to = "counting" => bulkOf[j] # NoBulk
    BY <1>9 DEF ReturnFromScan
  <2>2. cancels' = cancels \ {j} /\ UNCHANGED <<seen, ctx, bulkOf, cancel>>
    BY <1>9 DEF ReturnFromScan
  <2>3. QED
    BY <1>0, <2>1, <2>2, HandlesOfOne DEF Early, Late
<1>10. CASE Count(j)
  <2>1. /\ Step(j, "counting", "done", status[j])
        /\ run[j] = "counting"
        /\ UNCHANGED <<seen, ctx, bulkOf, cancel, cancels>>
    BY <1>10 DEF Count, Step
  <2>2. QED
    BY <1>0, <2>1, HandlesOfOne DEF Early, Late
<1>11. QED
  BY <1>1, <1>2, <1>3, <1>4, <1>5, <1>6, <1>7, <1>8, <1>9, <1>10 DEF Proceed, ScanReturns

\* A single scan gets a handle, a bulk job gets one, its sub-scans get none.
LEMMA StartHandles ==
  ASSUME TypeOK, HandlesInv
  PROVE  /\ \A j \in Jobs : StartScan(j) => HandlesInv'
         /\ \A b \in Bulks : \A S \in SUBSET Jobs : StartBulkScan(b, S) => HandlesInv'
<1>0. \A j \in Jobs : j \in Ids /\ j \notin Bulks
  BY IdsAssumption DEF Ids
<1>1. ASSUME NEW j \in Jobs, StartScan(j) PROVE HandlesInv'
  <2> USE <1>0, <1>1 DEF StartScan, TypeOK, HandlesInv
  <2>1. FreshIsFree' /\ CountingIsSub' /\ HandlesAreSingle'
    BY DEF FreshIsFree, CountingIsSub, HandlesAreSingle
  <2>2. HandlesRun'
    BY DEF HandlesRun, Running
  <2>3. TargetsAreSingle'
    BY DEF TargetsAreSingle
  <2>4. SingleIsHandled'
    BY DEF SingleIsHandled, Active
  <2>5. QED
    BY <2>1, <2>2, <2>3, <2>4
<1>2. ASSUME NEW b \in Bulks, NEW S \in SUBSET Jobs, StartBulkScan(b, S) PROVE HandlesInv'
  <2>0. /\ run[b] = "none" /\ b \in Ids
        /\ \A j \in Jobs : /\ j \in S => run[j] = "none" /\ bulkOf'[j] = b
                           /\ j \notin S => bulkOf'[j] = bulkOf[j]
        /\ \/ cancels' = cancels
           \/ cancels' = cancels \cup {b} /\ run'[b] = "start"
        /\ \A j \in Jobs : IF j \in S THEN run'[j] = "queued"
                           ELSE run'[j] = run[j] /\ status'[j] = status[j]
        /\ \A x \in Ids : run[x] # "none" => run'[x] = run[x] /\ x \notin S
    <3>1. run[b] = "none" /\ b \in Ids /\ \A j \in S : run[j] = "none" /\ j # b
      BY <1>0, <1>2 DEF StartBulkScan, Ids
    <3>2. \A j \in Jobs : bulkOf'[j] = IF j \in S THEN b ELSE bulkOf[j]
      BY <1>2 DEF StartBulkScan
    <3>3. CASE S = {}
      BY <1>0, <1>2, <3>1, <3>2, <3>3 DEF StartBulkScan, TypeOK
    <3>4. CASE S # {}
      <4>1. /\ \A x \in Ids : run'[x] = IF x \in S THEN "queued" ELSE IF x = b THEN "start" ELSE run[x]
            /\ \A x \in Ids : x \notin S \cup {b} => status'[x] = status[x]
            /\ cancels' = cancels \cup {b}
        BY <1>2, <3>4 DEF StartBulkScan
      <4>2. QED
        BY <1>0, <3>1, <3>2, <4>1
    <3>5. QED
      BY <3>3, <3>4
  <2>1. FreshIsFree' /\ CountingIsSub'
    BY <2>0 DEF HandlesInv, FreshIsFree, CountingIsSub
  <2>2. HandlesAreSingle'
    BY <1>0, <2>0 DEF HandlesInv, HandlesAreSingle, HandlesRun, Running
  <2>3. HandlesRun'
    BY <2>0 DEF HandlesInv, HandlesRun, Running, TypeOK
  <2>4. TargetsAreSingle'
    BY <1>2, <2>0 DEF HandlesInv, TargetsAreSingle, StartBulkScan
  <2>5. SingleIsHandled'
    BY <1>2, <2>0, IdsAssumption DEF HandlesInv, SingleIsHandled, StartBulkScan, Early
  <2>6. QED
    BY <2>1, <2>2, <2>3, <2>4, <2>5 DEF HandlesInv
<1>3. QED
  BY <1>1, <1>2

\* A bulk job drops its own handle on its way out, and launches sub-scans only.
LEMMA BulkHandles ==
  ASSUME TypeOK, HandlesInv, NEW b \in Bulks, BulkStep(b) \/ \E h \in Hosts : HostStep(b, h)
  PROVE  HandlesInv'
<1>0. \A j \in Jobs : j \in Ids /\ j # b
  BY IdsAssumption DEF Ids
<1>1. CASE BulkStep(b)
  <2>0. /\ \A j \in Jobs : run'[j] = run[j] /\ status'[j] = status[j]
        /\ \A x \in Ids : \/ run'[x] = run[x]
                          \/ x = b /\ run[x] \notin {"none", "queued", "done"}
                                   /\ run'[x] \in {"looping", "cleanup"}
                          \/ x = b /\ run'[x] = "done" /\ cancels' = cancels \ {x}
        /\ \A x \in cancels : x # b => run'[x] = run[x]
        /\ cancels' \in {cancels, cancels \ {b}}
        /\ UNCHANGED <<seen, ctx, bulkOf, cancel>>
    BY <1>0, <1>1 DEF BulkStep, BeginBulk, FinishBulk, ReturnFromBulk, Step, TypeOK, Ids
  <2>1. FreshIsFree' /\ CountingIsSub' /\ HandlesAreSingle'
    BY <2>0 DEF HandlesInv, FreshIsFree, CountingIsSub, HandlesAreSingle
  <2>2. HandlesRun'
    BY <2>0 DEF HandlesInv, HandlesRun, Running, TypeOK
  <2>3. TargetsAreSingle'
    BY <2>0 DEF HandlesInv, TargetsAreSingle
  <2>4. SingleIsHandled'
    BY <1>0, <2>0 DEF HandlesInv, SingleIsHandled
  <2>5. QED
    BY <2>1, <2>2, <2>3, <2>4 DEF HandlesInv
<1>2. ASSUME NEW h \in Hosts, AbandonHost(b, h) \/ JoinHost(b, h) PROVE HandlesInv'
  BY <1>2 DEF AbandonHost, JoinHost, HandlesInv, FreshIsFree, CountingIsSub, HandlesRun,
              HandlesAreSingle, TargetsAreSingle, SingleIsHandled, Running
<1>3. ASSUME NEW h \in Hosts, NEW j \in Jobs, Launch(b, h, j) PROVE HandlesInv'
  <2>0. /\ run[j] = "queued" /\ bulkOf[j] = b /\ b # NoBulk
        /\ \A x \in Ids : /\ run'[x] = IF x = j THEN "start" ELSE run[x]
                          /\ x # j => ctx'[x] = ctx[x]
        /\ UNCHANGED <<seen, status, cancels, bulkOf, cancel>>
    BY <1>3, IdsAssumption DEF Launch, Queue, OnHost, SubJobs, TypeOK
  <2>1. FreshIsFree' /\ CountingIsSub' /\ HandlesAreSingle'
    BY <1>0, <2>0 DEF HandlesInv, FreshIsFree, CountingIsSub, HandlesAreSingle
  <2>2. HandlesRun'
    BY <2>0 DEF HandlesInv, HandlesRun, Running, TypeOK
  <2>3. TargetsAreSingle'
    BY <2>0 DEF HandlesInv, TargetsAreSingle
  <2>4. SingleIsHandled'
    BY <1>0, <2>0 DEF HandlesInv, SingleIsHandled
  <2>5. QED
    BY <2>1, <2>2, <2>3, <2>4 DEF HandlesInv
<1>4. QED
  BY <1>1, <1>2, <1>3 DEF HostStep

\* Deadlines, the collector and CancelJob: a handle goes only after the context
\* is done, or with a job that has ended.
LEMMA OutsideHandles ==
  ASSUME TypeOK, HandlesInv, WritesInv,
         \/ \E x \in Ids : Deadline(x) \/ Collect(x)
         \/ \E k \in Cancellers : CancelStep(k) \/ (\E x \in Ids : CancelCheck(k, x))
  PROVE  HandlesInv'
<1>0. \A j \in Jobs : j \in Ids
  BY DEF Ids
<1>1. ASSUME NEW x \in Ids, Deadline(x) PROVE HandlesInv'
  <2>1. \A y \in Ids : ctx[y] # "live" => ctx'[y] # "live"
    BY <1>1, EndType DEF Deadline
  <2>2. UNCHANGED <<run, status, seen, cancels, bulkOf, cancel>>
    BY <1>1 DEF Deadline
  <2>3. TargetsAreSingle' /\ SingleIsHandled'
    BY <1>0, <2>1, <2>2 DEF HandlesInv, TargetsAreSingle, SingleIsHandled, TypeOK
  <2>4. QED
    BY <2>2, <2>3 DEF HandlesInv, FreshIsFree, CountingIsSub, HandlesRun, HandlesAreSingle, Running
<1>2. ASSUME NEW x \in Ids, Collect(x) PROVE HandlesInv'
  <2>1. status[x] \notin Active
    BY <1>2 DEF Collect, Active, Terminal
  <2>2. cancels' = cancels \ {x} /\ UNCHANGED <<run, status, seen, ctx, bulkOf, cancel>>
    BY <1>2 DEF Collect
  <2>3. SingleIsHandled'
    BY <2>1, <2>2 DEF HandlesInv, SingleIsHandled
  <2>4. QED
    BY <2>2, <2>3 DEF HandlesInv, FreshIsFree, CountingIsSub, HandlesRun, HandlesAreSingle,
                      TargetsAreSingle, Running
<1>3. ASSUME NEW k \in Cancellers, NEW x \in Ids, CancelCheck(k, x) PROVE HandlesInv'
  <2>1. /\ x \in cancels
        /\ \A l \in Cancellers : IF l = k THEN cancel'[l].pc = "granted" /\ cancel'[l].id = x
                                 ELSE cancel'[l] = cancel[l]
        /\ UNCHANGED <<run, status, seen, ctx, bulkOf, cancels>>
    BY <1>3 DEF CancelCheck, TypeOK
  <2>2. TargetsAreSingle'
    BY <2>1 DEF HandlesInv, TargetsAreSingle, HandlesRun, HandlesAreSingle, Running
  <2>3. QED
    BY <2>1, <2>2 DEF HandlesInv, FreshIsFree, CountingIsSub, HandlesRun, HandlesAreSingle,
                      SingleIsHandled, Running
<1>4. ASSUME NEW k \in Cancellers, CancelContext(k) PROVE HandlesInv'
  <2>1. /\ cancel[k].id \in Ids
        /\ \A l \in Cancellers : /\ cancel'[l].id = cancel[l].id
                                 /\ l # k => cancel'[l] = cancel[l]
        /\ cancel[k].pc # "idle"
        /\ UNCHANGED <<run, status, seen, bulkOf, cancels>>
    BY <1>4 DEF CancelContext, TypeOK, HandlesInv, TargetsAreSingle
  <2>2. /\ \A y \in Ids : ctx[y] # "live" => ctx'[y] # "live"
        /\ ctx'[cancel[k].id] # "live"
    BY <1>4, <2>1, EndType DEF CancelContext
  <2>3. TargetsAreSingle'
    BY <2>1, <2>2 DEF HandlesInv, TargetsAreSingle
  <2>4. SingleIsHandled'
    BY <1>0, <2>1, <2>2, EndType, <1>4 DEF CancelContext, HandlesInv, SingleIsHandled, TypeOK
  <2>5. QED
    BY <2>1, <2>3, <2>4 DEF HandlesInv, FreshIsFree, CountingIsSub, HandlesRun,
                            HandlesAreSingle, Running
<1>5. ASSUME NEW k \in Cancellers, CancelMark(k) PROVE HandlesInv'
  <2>0. PICK x \in Ids : x = cancel[k].id /\ ctx[x] # "live"
    BY <1>5 DEF CancelMark, HandlesInv, TargetsAreSingle
  <2>1. /\ cancels' = cancels \ {x}
        /\ \A y \in Ids : y # x => status'[y] = status[y]
        /\ \A l \in Cancellers : cancel'[l].pc # "idle" => cancel'[l] = cancel[l]
        /\ UNCHANGED <<run, seen, ctx, bulkOf>>
    BY <1>5, <2>0 DEF CancelMark, NoCancel, TypeOK
  <2>2. TargetsAreSingle'
    BY <2>1 DEF HandlesInv, TargetsAreSingle
  <2>3. SingleIsHandled'
    BY <1>0, <2>0, <2>1 DEF HandlesInv, SingleIsHandled
  <2>4. QED
    BY <2>1, <2>2, <2>3 DEF HandlesInv, FreshIsFree, CountingIsSub, HandlesRun,
                            HandlesAreSingle, Running
<1>6. QED
  BY <1>1, <1>2, <1>3, <1>4, <1>5 DEF CancelStep

\* Every step keeps the invariant about handles.
LEMMA StepKeepsHandles ==
  ASSUME TypeOK, HandlesInv, WritesInv, [Next]_vars
  PROVE  HandlesInv'
<1>1. CASE UNCHANGED vars
  BY <1>1 DEF vars, HandlesInv, FreshIsFree, CountingIsSub, HandlesRun, HandlesAreSingle,
              TargetsAreSingle, SingleIsHandled, Running
<1>2. CASE Next
  BY <1>2, StartHandles, ScanHandles, BulkHandles, OutsideHandles DEF Next
<1>3. QED
  BY <1>1, <1>2

-----------------------------------------------------------------------------
\* The invariant holds in every state a behaviour reaches.
THEOREM Invariance == Spec => []IInv
<1>1. IInv /\ [Next]_vars => IInv'
  BY StepKeepsType, StepKeepsWrites, StepKeepsHandles DEF IInv
<1>2. QED
  BY <1>1, InitIInv, PTL DEF Spec

\* Jobs, handles, contexts and counters keep their types.
THEOREM TypeCorrect == Spec => []TypeOK
<1>1. IInv => TypeOK
  BY DEF IInv
<1>2. QED
  BY <1>1, Invariance, PTL

\* A job shows a result exactly when it shows "complete", whatever cancellations,
\* progress reports and deadlines do meanwhile (scanner.go:358-362, 415-417).
THEOREM ResultsCorrect == Spec => []ResultIffComplete
<1>1. IInv => ResultIffComplete
  BY DEF IInv, WritesInv
<1>2. QED
  BY <1>1, Invariance, PTL

\* Cancel functions neither leak nor get lost (scanner.go:165-168, 358-390).
THEOREM HandlesCorrect == Spec => []CancelHandles
<1>1. ASSUME IInv PROVE CancelHandles
  <2>1. ASSUME NEW j \in Jobs, bulkOf[j] = NoBulk, Running(j), ctx[j] = "live",
               status[j] \in Active
        PROVE  j \in cancels
    <3>1. run[j] \in Early
      BY <1>1, <2>1 DEF IInv, WritesInv, JobRuns, LateIsTerminal, Running, Active, Terminal
    <3>2. QED
      BY <1>1, <2>1, <3>1 DEF IInv, HandlesInv, SingleIsHandled
  <2>2. QED
    BY <1>1, <2>1 DEF IInv, HandlesInv, HandlesRun, CancelHandles
<1>2. QED
  BY <1>1, Invariance, PTL

-----------------------------------------------------------------------------
(* Bulk jobs and their tallies.                                            *)

\* A bulk job has its sub-scans from its start; the goroutines of its hosts run
\* between its start and its end.
BulkRuns == \A b \in Bulks :
    /\ run[b] \in {"none", "start", "looping", "cleanup", "done"}
    /\ run[b] = "none" => SubJobs(b) = {}
    /\ run[b] \in {"none", "start"} => \A h \in Hosts : loop[b][h] = "none"
    /\ run[b] \in {"cleanup", "done"} => \A j \in SubJobs(b) : loop[b][HostOf[j]] = "done"

\* Unless the bulk context is done a host's goroutine waits for its sub-scans,
JoinedAreDone == \A b \in Bulks : \A j \in SubJobs(b) :
    ctx[b] = "live" /\ loop[b][HostOf[j]] = "done" => run[j] = "done"

\* the bulk job keeps an active status,
LiveBulkIsActive == \A b \in Bulks :
    run[b] \in {"none", "start", "looping"} /\ ctx[b] = "live" => status[b] \notin Terminal

\* and no sub-scan has been cancelled, or is about to write so.
LiveIsNotCancelled == \A j \in Jobs :
    run[j] = "none" \/ (bulkOf[j] \in Bulks /\ ctx[bulkOf[j]] = "live") =>
        status[j] # "cancelled" /\ seen[j] # "cancelled" /\ ctx[j] # "cancelled"

BulkInv ==
    /\ BulkRuns
    /\ JoinedAreDone
    /\ LiveBulkIsActive
    /\ LiveIsNotCancelled

\* Nothing exists yet, so nothing has to be said of it.
LEMMA InitBulkInv == Init => BulkInv /\ TallyIsExact
<1> SUFFICES ASSUME Init PROVE BulkInv /\ TallyIsExact
  OBVIOUS
<1>0. Jobs \subseteq Ids /\ \A b \in Bulks : b \in Ids /\ b # NoBulk
  BY IdsAssumption DEF Ids
<1>1. \A b \in Bulks : SubJobs(b) = {}
  BY <1>0 DEF Init, SubJobs
<1>2. \A b \in Bulks : \A s : Ended(b, s) = {}
  BY <1>1 DEF Ended
<1>3. TallyIsExact
  BY <1>2, FS_EmptySet DEF TallyIsExact, Init
<1>4. BulkRuns /\ JoinedAreDone
  BY <1>0, <1>1 DEF Init, BulkRuns, JoinedAreDone
<1>5. LiveBulkIsActive /\ LiveIsNotCancelled
  BY <1>0 DEF Init, LiveBulkIsActive, LiveIsNotCancelled, Terminal
<1>6. QED
  BY <1>3, <1>4, <1>5 DEF BulkInv

\* Counters and ended sub-scans stay together when neither changes.
LEMMA TallyKept ==
  ASSUME TallyIsExact, UNCHANGED <<completed, failed>>,
         \A j \in Jobs : \A b \in Bulks :
            /\ (bulkOf'[j] = b /\ run'[j] = "done") <=> (bulkOf[j] = b /\ run[j] = "done")
            /\ bulkOf[j] = b /\ run[j] = "done" => status'[j] = status[j]
  PROVE  TallyIsExact'
<1>1. \A b \in Bulks : \A s : Ended(b, s)' = Ended(b, s)
  BY DEF Ended, SubJobs
<1>2. QED
  BY <1>1 DEF TallyIsExact

\* Ended sub-scans are finitely many.
LEMMA EndedFinite == \A b, s : IsFiniteSet(Ended(b, s)) /\ Cardinality(Ended(b, s)) \in Nat
  BY JobsAssumption, FS_Subset, FS_CardinalityType DEF Ended, SubJobs

\* A worker counts its sub-scan once, when it ends, with the status it keeps.
LEMMA CountTallies ==
  ASSUME TypeOK, TallyIsExact, NEW j \in Jobs, Count(j)
  PROVE  TallyIsExact'
<1>0. j \in Ids /\ run[j] = "counting" /\ run' = [run EXCEPT ![j] = "done"] /\ UNCHANGED bulkOf
  BY DEF Count, Step, Ids
<1>1. status' = status
  BY DEF Count, Step, TypeOK
<1>2. ASSUME NEW b \in Bulks, NEW s
      PROVE  Ended(b, s)' = IF bulkOf[j] = b /\ status[j] = s
                            THEN Ended(b, s) \cup {j} ELSE Ended(b, s)
  BY <1>0, <1>1 DEF Ended, SubJobs, TypeOK, Ids
<1>3. ASSUME NEW b \in Bulks, NEW s
      PROVE  Cardinality(Ended(b, s))' = Cardinality(Ended(b, s))
                + (IF bulkOf[j] = b /\ status[j] = s THEN 1 ELSE 0)
  <2>1. j \notin Ended(b, s)
    BY <1>0 DEF Ended
  <2>2. Cardinality(Ended(b, s) \cup {j}) = Cardinality(Ended(b, s)) + 1
    BY <2>1, EndedFinite, FS_AddElement
  <2>3. CASE bulkOf[j] = b /\ status[j] = s
    BY <1>2, <2>2, <2>3
  <2>4. CASE ~(bulkOf[j] = b /\ status[j] = s)
    <3>1. Ended(b, s)' = Ended(b, s)
      BY <1>2, <2>4
    <3>2. QED
      BY <2>4, <3>1, EndedFinite
  <2>5. QED
    BY <2>3, <2>4
<1>4. ASSUME NEW b \in Bulks
      PROVE  /\ completed'[b] = completed[b]
                   + (IF bulkOf[j] = b /\ status[j] = "complete" THEN 1 ELSE 0)
             /\ failed'[b] = failed[b]
                   + (IF bulkOf[j] = b /\ status[j] = "failed" THEN 1 ELSE 0)
  BY DEF Count, TypeOK
<1>5. QED
  BY <1>3, <1>4 DEF TallyIsExact

\* Every step keeps the tallies: a sub-scan that is over is not written to again.
LEMMA StepKeepsTally ==
  ASSUME IInv, TallyIsExact, [Next]_vars
  PROVE  TallyIsExact'
<1>0. /\ TypeOK
      /\ \A j \in Jobs : j \in Ids /\ j \notin Bulks
      /\ NoBulk \notin Bulks
  BY IdsAssumption DEF IInv, Ids
<1>1. CASE UNCHANGED vars
  BY <1>1, TallyKept DEF vars
<1>2. ASSUME NEW j \in Jobs, StartScan(j) PROVE TallyIsExact'
  BY <1>0, <1>2, TallyKept DEF StartScan, TypeOK
<1>3. ASSUME NEW j \in Jobs, Proceed(j) \/ ScanReturns(j) \/ ReadStatus(j) PROVE TallyIsExact'
  <2>1. CASE Count(j)
    BY <1>0, <2>1, CountTallies
  <2>2. CASE ReturnFromScan(j)
    BY <1>0, <2>2, TallyKept DEF ReturnFromScan, Step, TypeOK
  <2>3. CASE ScanReturns(j) \/ ReadStatus(j)
    BY <1>0, <2>3, TallyKept
    DEF ScanReturns, RemoveScanner, ScanFails, ScanSucceeds, ReadStatus, Step, TypeOK
  <2>4. CASE ScanUnavailable(j) \/ PullScanner(j) \/ BeginScanning(j)
    BY <1>0, <2>4, TallyKept DEF ScanUnavailable, PullScanner, BeginScanning, Step, TypeOK
  <2>5. CASE WriteBack(j) \/ WriteFailure(j) \/ Publish(j)
    BY <1>0, <2>5, TallyKept DEF WriteBack, WriteFailure, Publish, Step, TypeOK
  <2>6. QED
    BY <1>3, <2>1, <2>2, <2>3, <2>4, <2>5 DEF Proceed
<1>4. ASSUME NEW b \in Bulks, BulkStep(b) PROVE TallyIsExact'
  BY <1>0, <1>4, TallyKept DEF BulkStep, BeginBulk, FinishBulk, ReturnFromBulk, Step, TypeOK
<1>5. ASSUME NEW b \in Bulks, NEW S \in SUBSET Jobs, StartBulkScan(b, S) PROVE TallyIsExact'
  <2>1. \A j \in S : run[j] = "none" /\ run'[j] = "queued" /\ bulkOf[j] = NoBulk
    BY <1>0, <1>5 DEF StartBulkScan, IInv, HandlesInv, FreshIsFree
  <2>2. \A j \in Jobs \ S : UNCHANGED <<run[j], status[j], bulkOf[j]>>
    BY <1>0, <1>5 DEF StartBulkScan, TypeOK
  <2>3. UNCHANGED <<completed, failed>>
    BY <1>5 DEF StartBulkScan
  <2>4. QED
    BY <1>0, <2>1, <2>2, <2>3, TallyKept
<1>6. ASSUME NEW b \in Bulks, NEW h \in Hosts, HostStep(b, h) PROVE TallyIsExact'
  <2>1. CASE AbandonHost(b, h) \/ JoinHost(b, h)
    BY <2>1, TallyKept DEF AbandonHost, JoinHost
  <2>2. ASSUME NEW j \in Jobs, Launch(b, h, j) PROVE TallyIsExact'
    BY <1>0, <2>2, TallyKept DEF Launch, Queue, TypeOK
  <2>3. QED
    BY <1>6, <2>1, <2>2 DEF HostStep
<1>7. ASSUME NEW x \in Ids, Deadline(x) \/ Collect(x) PROVE TallyIsExact'
  BY <1>7, TallyKept DEF Deadline, Collect
<1>8. ASSUME NEW k \in Cancellers, NEW x \in Ids, CancelCheck(k, x) PROVE TallyIsExact'
  BY <1>8, TallyKept DEF CancelCheck
<1>9. ASSUME NEW k \in Cancellers, CancelContext(k) PROVE TallyIsExact'
  BY <1>9, TallyKept DEF CancelContext
<1>10. ASSUME NEW k \in Cancellers, CancelMark(k) PROVE TallyIsExact'
  <2>1. \A j \in Jobs : bulkOf[j] # NoBulk => status'[j] = status[j]
    BY <1>0, <1>10 DEF CancelMark, IInv, HandlesInv, TargetsAreSingle, TypeOK
  <2>2. QED
    BY <1>0, <1>10, <2>1, TallyKept DEF CancelMark
<1>11. QED
  BY <1>1, <1>2, <1>3, <1>4, <1>5, <1>6, <1>7, <1>8, <1>9, <1>10 DEF Next, CancelStep

\* A step of the goroutine of a scan keeps the invariant about bulk jobs if the
\* scan is not over and "cancelled" is what it read or what its context says.
LEMMA BulkInvOfOne ==
  ASSUME TypeOK, BulkInv, NEW j \in Jobs, NEW from, NEW to, NEW s, NEW v,
         Step(j, from, to, s),
         seen' = [seen EXCEPT ![j] = v],
         UNCHANGED <<ctx, bulkOf, loop>>,
         from \notin {"none", "done"}, to # "none",
         s = "cancelled" => "cancelled" \in {status[j], seen[j]},
         v = "cancelled" => "cancelled" \in {status[j], seen[j], ctx[j]}
  PROVE  BulkInv'
<1>0. \A i \in Jobs : i \in Ids /\ i \notin Bulks
  BY IdsAssumption DEF Ids
<1>1. /\ \A i \in Jobs : /\ run'[i] = IF i = j THEN to ELSE run[i]
                         /\ status'[i] = IF i = j THEN s ELSE status[i]
                         /\ seen'[i] = IF i = j THEN v ELSE seen[i]
      /\ \A b \in Bulks : run'[b] = run[b] /\ status'[b] = status[b]
      /\ \A b \in Bulks : SubJobs(b)' = SubJobs(b)
      /\ run[j] = from
  BY <1>0 DEF TypeOK, Step, Ids, SubJobs
<1>2. BulkRuns'
  BY <1>1 DEF BulkInv, BulkRuns
<1>3. JoinedAreDone'
  BY <1>1 DEF BulkInv, JoinedAreDone, SubJobs
<1>4. LiveBulkIsActive'
  BY <1>1 DEF BulkInv, LiveBulkIsActive
<1>5. LiveIsNotCancelled'
  BY <1>1 DEF BulkInv, LiveIsNotCancelled
<1>6. QED
  BY <1>2, <1>3, <1>4, <1>5 DEF BulkInv

\* The goroutine of a scan keeps the invariant about bulk jobs.
LEMMA ScanKeepsBulk ==
  ASSUME TypeOK, BulkInv, NEW j \in Jobs,
         Proceed(j) \/ ScanReturns(j) \/ ReadStatus(j)
  PROVE  BulkInv'
<1>0. seen = [seen EXCEPT ![j] = seen[j]]
  BY DEF TypeOK
<1>1. CASE ReadStatus(j)
  <2>1. PICK v : /\ seen' = [seen EXCEPT ![j] = v]
                 /\ v \in {status[j], seen[j], "torn"}
    BY <1>1 DEF ReadStatus
  <2>2. PICK from, to : /\ Step(j, from, to, status[j])
                        /\ from \notin {"none", "done"} /\ to # "none"
    BY <1>1 DEF ReadStatus
  <2>3. UNCHANGED <<ctx, bulkOf, loop>>
    BY <1>1 DEF ReadStatus
  <2>4. QED
    BY <2>1, <2>2, <2>3, BulkInvOfOne
<1>2. CASE WriteBack(j) \/ WriteFailure(j)
  <2>1. PICK from, to : /\ Step(j, from, to, seen[j])
                        /\ from \notin {"none", "done"} /\ to # "none"
    BY <1>2 DEF WriteBack, WriteFailure
  <2>2. seen' = [seen EXCEPT ![j] = "none"] /\ UNCHANGED <<ctx, bulkOf, loop>>
    BY <1>2 DEF WriteBack, WriteFailure
  <2>3. QED
    BY <2>1, <2>2, BulkInvOfOne
<1>3. CASE ScanFails(j)
  <2>1. PICK v : v = classifyScanFailure(ctx[j])
    OBVIOUS
  <2>2. /\ seen' = [seen EXCEPT ![j] = v]
        /\ UNCHANGED <<ctx, bulkOf, loop>>
        /\ v = "cancelled" => v = ctx[j]
    BY <1>3, <2>1 DEF ScanFails, classifyScanFailure
  <2>3. PICK from, to : /\ Step(j, from, to, status[j])
                        /\ from \notin {"none", "done"} /\ to # "none"
    BY <1>3 DEF ScanFails
  <2>4. QED
    BY <2>2, <2>3, BulkInvOfOne
<1>4. CASE RemoveScanner(j) \/ ScanSucceeds(j) \/ ReturnFromScan(j) \/ Count(j)
  <2>1. PICK from, to : /\ Step(j, from, to, status[j])
                        /\ from \notin {"none", "done"} /\ to # "none"
    BY <1>4 DEF RemoveScanner, ScanSucceeds, ReturnFromScan, Count
  <2>2. UNCHANGED <<seen, ctx, bulkOf, loop>>
    BY <1>4 DEF RemoveScanner, ScanSucceeds, ReturnFromScan, Count
  <2>3. QED
    BY <1>0, <2>1, <2>2, BulkInvOfOne
<1>5. CASE ScanUnavailable(j) \/ PullScanner(j) \/ BeginScanning(j) \/ Publish(j)
  <2>1. PICK from, to, s : /\ Step(j, from, to, s) /\ s # "cancelled"
                           /\ from \notin {"none", "done"} /\ to # "none"
    BY <1>5 DEF ScanUnavailable, PullScanner, BeginScanning, Publish
  <2>2. UNCHANGED <<seen, ctx, bulkOf, loop>>
    BY <1>5 DEF ScanUnavailable, PullScanner, BeginScanning, Publish
  <2>3. QED
    BY <1>0, <2>1, <2>2, BulkInvOfOne
<1>6. QED
  BY <1>1, <1>2, <1>3, <1>4, <1>5 DEF Proceed, ScanReturns

\* Starting jobs keeps the invariant about bulk jobs: what starts was untouched.
LEMMA StartKeepsBulk ==
  ASSUME IInv, BulkInv
  PROVE  /\ \A j \in Jobs : StartScan(j) => BulkInv'
         /\ \A b \in Bulks : \A S \in SUBSET Jobs : StartBulkScan(b, S) => BulkInv'
<1>0. /\ TypeOK
      /\ \A j \in Jobs : j \in Ids /\ j \notin Bulks
      /\ \A b \in Bulks : b \in Ids /\ b # NoBulk
  BY IdsAssumption DEF IInv, Ids
<1>1. ASSUME NEW j \in Jobs, StartScan(j) PROVE BulkInv'
  <2>1. /\ run[j] = "none" /\ bulkOf[j] = NoBulk
        /\ \A x \in Ids : x # j => run'[x] = run[x] /\ status'[x] = status[x]
        /\ run'[j] = "start"
        /\ UNCHANGED <<bulkOf, seen, ctx, loop>>
        /\ \A b \in Bulks : SubJobs(b)' = SubJobs(b)
    BY <1>0, <1>1 DEF StartScan, SubJobs, IInv, HandlesInv, FreshIsFree, TypeOK
  <2>2. BulkRuns' /\ JoinedAreDone'
    BY <1>0, <2>1 DEF BulkInv, BulkRuns, JoinedAreDone, SubJobs
  <2>3. LiveBulkIsActive' /\ LiveIsNotCancelled'
    BY <1>0, <2>1 DEF BulkInv, LiveBulkIsActive, LiveIsNotCancelled
  <2>4. QED
    BY <2>2, <2>3 DEF BulkInv
<1>2. ASSUME NEW b \in Bulks, NEW S \in SUBSET Jobs, StartBulkScan(b, S) PROVE BulkInv'
  <2>1. /\ run[b] = "none"
        /\ \A j \in S : run[j] = "none" /\ bulkOf[j] = NoBulk
        /\ \A j \in Jobs : bulkOf'[j] = IF j \in S THEN b ELSE bulkOf[j]
        /\ UNCHANGED <<seen, ctx, loop>>
    BY <1>0, <1>2 DEF StartBulkScan, IInv, HandlesInv, FreshIsFree
  <2>2. /\ \A x \in Ids : x \notin S \cup {b} => run'[x] = run[x] /\ status'[x] = status[x]
        /\ \A j \in S : run'[j] = "queued" /\ status'[j] = "pending"
        /\ run'[b] = IF S = {} THEN "done" ELSE "start"
        /\ S # {} => status'[b] = "pending"
    <3>1. CASE S = {}
      BY <1>0, <1>2, <3>1 DEF StartBulkScan, TypeOK
    <3>2. CASE S # {}
      <4>1. \A x \in Ids :
              /\ run'[x] = IF x \in S THEN "queued" ELSE IF x = b THEN "start" ELSE run[x]
              /\ status'[x] = IF x \in S \cup {b} THEN "pending" ELSE status[x]
        BY <1>2, <3>2 DEF StartBulkScan
      <4>2. QED
        BY <1>0, <3>2, <4>1
    <3>3. QED
      BY <3>1, <3>2
  <2>3. /\ SubJobs(b)' = S
        /\ \A c \in Bulks : c # b => SubJobs(c)' = SubJobs(c)
    BY <1>0, <2>1 DEF SubJobs, BulkInv, BulkRuns
  <2>4. BulkRuns'
    BY <1>0, <2>1, <2>2, <2>3 DEF BulkInv, BulkRuns
  <2>5. JoinedAreDone'
    <3>1. ASSUME NEW j \in S PROVE loop[b][HostOf[j]] # "done"
      BY <2>1, HostAssumption DEF BulkInv, BulkRuns
    <3>2. ASSUME NEW c \in Bulks, c # b, NEW j \in SubJobs(c) PROVE run'[j] = run[j]
      BY <1>0, <2>1, <2>2, <3>2 DEF SubJobs
    <3>3. QED
      BY <2>1, <2>3, <3>1, <3>2 DEF BulkInv, JoinedAreDone
  <2>6. LiveBulkIsActive'
    BY <1>0, <2>1, <2>2 DEF BulkInv, LiveBulkIsActive, Terminal
  <2>7. LiveIsNotCancelled'
    BY <1>0, <2>1, <2>2 DEF BulkInv, LiveIsNotCancelled
  <2>8. QED
    BY <2>4, <2>5, <2>6, <2>7 DEF BulkInv
<1>3. QED
  BY <1>1, <1>2

\* A bulk job's own goroutines keep it: they wait for what they have launched,
\* unless the bulk context is done.
LEMMA HostsKeepBulk ==
  ASSUME TypeOK, BulkInv, NEW b \in Bulks, BulkStep(b) \/ \E h \in Hosts : HostStep(b, h)
  PROVE  BulkInv'
<1>0. /\ \A j \in Jobs : j \in Ids /\ j \notin Bulks /\ HostOf[j] \in Hosts
      /\ b \in Ids /\ b # NoBulk
  BY IdsAssumption, HostAssumption DEF Ids
<1>1. CASE BulkStep(b)
  <2>1. /\ \A x \in Ids : x # b => run'[x] = run[x] /\ status'[x] = status[x]
        /\ UNCHANGED <<seen, ctx, bulkOf>>
        /\ \A c \in Bulks : SubJobs(c)' = SubJobs(c)
    BY <1>1 DEF BulkStep, BeginBulk, FinishBulk, ReturnFromBulk, Step, TypeOK, SubJobs
  <2>2. LiveIsNotCancelled'
    BY <1>0, <2>1 DEF BulkInv, LiveIsNotCancelled
  <2>3. CASE BeginBulk(b)
    <3>1. /\ run[b] = "start" /\ run'[b] = "looping" /\ status'[b] = "scanning"
          /\ \A c \in Bulks : c # b => loop'[c] = loop[c]
          /\ \A j \in SubJobs(b) : loop'[b][HostOf[j]] = "looping"
      BY <1>0, <2>3 DEF BeginBulk, Step, TypeOK, SubJobs, OnHost
    <3>2. BulkRuns' /\ JoinedAreDone' /\ LiveBulkIsActive'
      BY <1>0, <2>1, <3>1
      DEF BulkInv, BulkRuns, JoinedAreDone, LiveBulkIsActive, SubJobs, Terminal, Ids
    <3>3. QED
      BY <2>2, <3>2 DEF BulkInv
  <2>4. CASE FinishBulk(b) \/ ReturnFromBulk(b)
    <3>1. /\ run[b] \in {"looping", "cleanup"} /\ run'[b] \in {"cleanup", "done"}
          /\ run[b] = "looping" => \A h \in Hosts : loop[b][h] = "done"
          /\ loop' = loop
      BY <1>0, <2>4 DEF FinishBulk, ReturnFromBulk, Step, TypeOK
    <3>2. BulkRuns' /\ JoinedAreDone' /\ LiveBulkIsActive'
      BY <1>0, <2>1, <3>1
      DEF BulkInv, BulkRuns, JoinedAreDone, LiveBulkIsActive, SubJobs, Ids
    <3>3. QED
      BY <2>2, <3>2 DEF BulkInv
  <2>5. QED
    BY <1>1, <2>3, <2>4 DEF BulkStep
<1>2. ASSUME NEW h \in Hosts, AbandonHost(b, h) \/ JoinHost(b, h) PROVE BulkInv'
  <2>1. /\ loop[b][h] = "looping"
        /\ \A c \in Bulks, g \in Hosts :
             loop'[c][g] = IF c = b /\ g = h THEN "done" ELSE loop[c][g]
        /\ UNCHANGED <<run, status, seen, ctx, bulkOf>>
        /\ \A c \in Bulks : SubJobs(c)' = SubJobs(c)
    BY <1>2 DEF AbandonHost, JoinHost, TypeOK, SubJobs
  <2>2. ctx[b] = "live" => \A j \in SubJobs(b) : HostOf[j] = h => run[j] = "done"
    BY <1>2 DEF AbandonHost, JoinHost, Queue, Slots, OnHost
  <2>3. BulkRuns'
    BY <1>0, <2>1 DEF BulkInv, BulkRuns, SubJobs
  <2>4. JoinedAreDone'
    BY <1>0, <2>1, <2>2 DEF BulkInv, JoinedAreDone, SubJobs
  <2>5. LiveBulkIsActive' /\ LiveIsNotCancelled'
    BY <2>1 DEF BulkInv, LiveBulkIsActive, LiveIsNotCancelled
  <2>6. QED
    BY <2>3, <2>4, <2>5 DEF BulkInv
<1>3. ASSUME NEW h \in Hosts, NEW j \in Jobs, Launch(b, h, j) PROVE BulkInv'
  <2>1. /\ run[j] = "queued" /\ bulkOf[j] = b /\ loop[b][HostOf[j]] = "looping"
        /\ \A x \in Ids : /\ run'[x] = IF x = j THEN "start" ELSE run[x]
                          /\ ctx'[x] = IF x = j THEN ctx[b] ELSE ctx[x]
        /\ UNCHANGED <<seen, status, bulkOf, loop>>
        /\ \A c \in Bulks : SubJobs(c)' = SubJobs(c)
    BY <1>0, <1>3 DEF Launch, Queue, OnHost, SubJobs, TypeOK
  <2>2. \A c \in Bulks : run'[c] = run[c] /\ ctx'[c] = ctx[c]
    BY <1>0, <2>1 DEF Ids
  <2>3. BulkRuns' /\ LiveBulkIsActive'
    BY <2>1, <2>2 DEF BulkInv, BulkRuns, LiveBulkIsActive
  <2>4. JoinedAreDone'
    BY <1>0, <2>1, <2>2 DEF BulkInv, JoinedAreDone, SubJobs
  <2>5. LiveIsNotCancelled'
    BY <1>0, <2>1, <2>2 DEF BulkInv, LiveIsNotCancelled
  <2>6. QED
    BY <2>3, <2>4, <2>5 DEF BulkInv
<1>4. QED
  BY <1>1, <1>2, <1>3 DEF HostStep

\* A context that ends takes the launched sub-scans along, with its own reason.
LEMMA EndKeepsBulk ==
  ASSUME TypeOK, BulkInv, NEW x \in Ids, NEW why \in {"expired", "cancelled"}, End(x, why),
         run[x] # "none",
         x \in Jobs /\ why = "cancelled" => bulkOf[x] = NoBulk,
         UNCHANGED <<run, status, seen, bulkOf, loop>>
  PROVE  BulkInv'
<1>1. /\ \A y \in Ids : ctx'[y] = "live" => ctx[y] = "live"
      /\ \A c \in Bulks : SubJobs(c)' = SubJobs(c)
  BY EndType DEF TypeOK, SubJobs
<1>2. BulkRuns' /\ JoinedAreDone' /\ LiveBulkIsActive'
  BY <1>1 DEF BulkInv, BulkRuns, JoinedAreDone, LiveBulkIsActive, Ids
<1>3. LiveIsNotCancelled'
  <2> SUFFICES ASSUME NEW j \in Jobs, ctx'[j] = "cancelled", ctx[j] # "cancelled",
                      run[j] = "none" \/ (bulkOf[j] \in Bulks /\ ctx'[bulkOf[j]] = "live")
               PROVE  FALSE
    BY <1>1 DEF BulkInv, LiveIsNotCancelled, Ids
  <2>1. j \in {x} \cup Children(x) /\ why = "cancelled"
    BY DEF End, Ids
  <2>2. CASE j = x
    BY <2>1, <2>2, IdsAssumption
  <2>3. CASE j # x
    <3>1. x \in Bulks /\ bulkOf[j] = x /\ run[j] # "none"
      BY <2>1, <2>3 DEF Children, SubJobs, Running
    <3>2. ctx'[x] # "live"
      BY EndType
    <3>3. QED
      BY <3>1, <3>2
  <2>4. QED
    BY <2>2, <2>3
<1>4. QED
  BY <1>2, <1>3 DEF BulkInv

\* Every step keeps the invariant about bulk jobs.
LEMMA StepKeepsBulk ==
  ASSUME IInv, BulkInv, [Next]_vars
  PROVE  BulkInv'
<1>0. TypeOK
  BY DEF IInv
<1> DEFINE Same == UNCHANGED <<run, status, seen, ctx, bulkOf, loop>>
<1>1. ASSUME Same PROVE BulkInv'
  BY <1>1 DEF BulkInv, BulkRuns, JoinedAreDone, LiveBulkIsActive, LiveIsNotCancelled, SubJobs
<1>2. ASSUME NEW x \in Ids, Deadline(x) PROVE BulkInv'
  BY <1>0, <1>2, EndKeepsBulk DEF Deadline, Running
<1>3. ASSUME NEW x \in Ids, Collect(x) PROVE BulkInv'
  BY <1>1, <1>3 DEF Collect
<1>4. ASSUME NEW k \in Cancellers, NEW x \in Ids, CancelCheck(k, x) PROVE BulkInv'
  BY <1>1, <1>4 DEF CancelCheck
<1>5. ASSUME NEW k \in Cancellers, CancelContext(k) PROVE BulkInv'
  <2>1. PICK x \in Ids : /\ End(x, "cancelled") /\ run[x] # "none"
                         /\ x \in Jobs => bulkOf[x] = NoBulk
    BY <1>5 DEF CancelContext, IInv, HandlesInv, TargetsAreSingle
  <2>2. UNCHANGED <<run, status, seen, bulkOf, loop>>
    BY <1>5 DEF CancelContext
  <2>3. QED
    BY <1>0, <2>1, <2>2, EndKeepsBulk
<1>6. ASSUME NEW k \in Cancellers, CancelMark(k) PROVE BulkInv'
  <2>1. PICK x \in Ids : /\ x = cancel[k].id /\ ctx[x] # "live" /\ run[x] # "none"
                         /\ x \in Jobs => bulkOf[x] = NoBulk
    BY <1>6 DEF CancelMark, IInv, HandlesInv, TargetsAreSingle
  <2>2. /\ \A y \in Ids : y # x => status'[y] = status[y]
        /\ UNCHANGED <<run, seen, ctx, bulkOf, loop>>
        /\ \A c \in Bulks : SubJobs(c)' = SubJobs(c)
    BY <1>0, <1>6, <2>1 DEF CancelMark, TypeOK, SubJobs
  <2>3. BulkRuns' /\ JoinedAreDone'
    BY <2>2 DEF BulkInv, BulkRuns, JoinedAreDone
  <2>4. LiveBulkIsActive' /\ LiveIsNotCancelled'
    BY <2>1, <2>2, IdsAssumption DEF BulkInv, LiveBulkIsActive, LiveIsNotCancelled, Ids
  <2>5. QED
    BY <2>3, <2>4 DEF BulkInv
<1>7. CASE UNCHANGED vars
  BY <1>1, <1>7 DEF vars
<1>8. CASE Next
  BY <1>0, <1>2, <1>3, <1>4, <1>5, <1>6, <1>8, StartKeepsBulk, ScanKeepsBulk, HostsKeepBulk
  DEF Next, CancelStep
<1>9. QED
  BY <1>7, <1>8

\* The counters of a bulk job are exact at any moment (scanner.go:517-523).
THEOREM TalliesCorrect == Spec => []TallyIsExact
<1>1. TallyIsExact /\ IInv /\ [Next]_vars => TallyIsExact'
  BY StepKeepsTally
<1>2. QED
  BY <1>1, InitBulkInv, Invariance, PTL DEF Spec

\* The bulk invariant holds in every state a behaviour reaches.
THEOREM BulkInvariance == Spec => []BulkInv
<1>1. BulkInv /\ IInv /\ [Next]_vars => BulkInv'
  BY StepKeepsBulk
<1>2. QED
  BY <1>1, InitBulkInv, Invariance, PTL DEF Spec

\* A bulk job that ends undisturbed has all its sub-scans ended and counted
\* (the WaitGroups at scanner.go:496-530).
THEOREM BulksAreWhole == Spec => []UndisturbedBulkIsWhole
<1>1. ASSUME IInv, BulkInv, TallyIsExact PROVE UndisturbedBulkIsWhole
  <2> SUFFICES ASSUME NEW b \in Bulks, status[b] \in Terminal, ctx[b] = "live"
               PROVE  /\ \A j \in SubJobs(b) : run[j] = "done" /\ status[j] \in Terminal
                      /\ completed[b] + failed[b] = Cardinality(SubJobs(b))
    BY DEF UndisturbedBulkIsWhole
  <2>1. run[b] \in {"cleanup", "done"}
    BY <1>1 DEF BulkInv, BulkRuns, LiveBulkIsActive
  <2>2. \A j \in SubJobs(b) : run[j] = "done"
    BY <1>1, <2>1 DEF BulkInv, BulkRuns, JoinedAreDone
  <2>3. \A j \in SubJobs(b) : status[j] \in {"complete", "failed"}
    BY <1>1, <2>2
    DEF IInv, WritesInv, LateIsTerminal, Late, Terminal, BulkInv, LiveIsNotCancelled, SubJobs
  <2>4. /\ SubJobs(b) = Ended(b, "complete") \cup Ended(b, "failed")
        /\ Ended(b, "complete") \cap Ended(b, "failed") = {}
    BY <2>2, <2>3 DEF Ended
  <2>5. Cardinality(SubJobs(b)) =
            Cardinality(Ended(b, "complete")) + Cardinality(Ended(b, "failed"))
    <3>1. Cardinality(Ended(b, "complete") \cup Ended(b, "failed")) =
            Cardinality(Ended(b, "complete")) + Cardinality(Ended(b, "failed")) - Cardinality({})
      BY <2>4, EndedFinite, FS_Union
    <3>2. QED
      BY <2>4, <3>1, EndedFinite, FS_EmptySet
  <2>6. QED
    BY <1>1, <2>2, <2>3, <2>5 DEF TallyIsExact, Terminal
<1>2. QED
  BY <1>1, Invariance, BulkInvariance, TalliesCorrect, PTL
=============================================================================
