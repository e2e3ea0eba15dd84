------------------------------ MODULE ScanJobs ------------------------------
(***************************************************************************)
(* The life of vulnerability scans in internal/scanner/scanner.go: single  *)
(* scans, bulk scans and their sub-scans, cancellation over HTTP, context  *)
(* deadlines and the hourly garbage collection.                            *)
(*                                                                         *)
(* A job object is written by the goroutine that runs it (runScan), by     *)
(* CancelJob and, for a bulk job, by runBulkScan and its workers.  Every   *)
(* critical section under ScannerService.mu is one action, and so is       *)
(* every step between two of them that another goroutine can fall into:    *)
(* cancel() in CancelJob, the read of ctx.Err() before the status is       *)
(* written, the read of job.Status by onProgress, which takes no lock.     *)
(*                                                                         *)
(* Left out: progress and error texts with the heartbeat that only writes  *)
(* those, the content of a scan (it succeeds or it fails), and the         *)
(* notifications sent after a job has its final status.                    *)
(*                                                                         *)
(* Operators marked "Fault" are plausible mistakes in the operator that    *)
(* follows them; no action uses them.                                      *)
(***************************************************************************)
EXTENDS Naturals, FiniteSets

CONSTANTS
    Jobs,           \* ids of the scan jobs that are ever created
    Bulks,          \* ids of the bulk scan jobs that are ever created
    NoBulk,         \* what a single scan belongs to
    Hosts,          \* Docker hosts
    HostOf,         \* HostOf[j]: the host whose image j scans
    Cancellers,     \* HTTP requests that call CancelJob
    MaxConcurrentScansPerHost

ASSUME IdsAssumption == Jobs \cap Bulks = {} /\ NoBulk \notin Bulks
ASSUME JobsAssumption == IsFiniteSet(Jobs)
ASSUME HostAssumption == HostOf \in [Jobs -> Hosts]
ASSUME LimitAssumption == MaxConcurrentScansPerHost \in Nat \ {0}

VARIABLES
    status,     \* the Status field of every job object, single and bulk
    result,     \* job objects with a Result
    stored,     \* scans whose result row is in the database
    jobs,       \* keys of ScannerService.jobs and ScannerService.bulkJobs
    cancels,    \* keys of ScannerService.cancels
    ctx,        \* the context of every job: live, or why it is done
    bulkOf,     \* the bulk job a scan belongs to
    run,        \* where the goroutine of every job stands
    seen,       \* local to onProgress: the status it has read;
                \* local to a failing scan: the status it will write
    loop,       \* loop[b][h]: the goroutine of bulk job b for host h
    completed,  \* BulkScanJob.Completed
    failed,     \* BulkScanJob.Failed
    cancel      \* where each CancelJob call stands

vars == <<status, result, stored, jobs, cancels, ctx, bulkOf, run, seen, loop,
          completed, failed, cancel>>

Ids == Jobs \cup Bulks

Active == {"pending", "pulling_scanner", "scanning"}
Terminal == {"complete", "failed", "cancelled"}
\* "none" before the object exists.  "torn" is a string no case recognises,
\* from reading a Go string (two words) while another goroutine replaces it.
Status == Active \cup Terminal \cup {"none", "torn"}

RunState ==
    {"none",        \* no such job yet
     "queued",      \* a sub-scan no worker has picked up
     "start",       \* go runScan / go runBulkScan
     "pulling", "scanning", "reading", "reporting",
     "removing",    \* the scanner's container, before the runner returns
     "failing", "publishing",
     "looping",     \* runBulkScan in wg.Wait
     "cleanup",     \* deferred calls
     "counting",    \* the worker of a sub-scan, back from runScan
     "done"}

NoCancel == [pc |-> "idle", id |-> NoBulk]

SubJobs(b) == {j \in Jobs : bulkOf[j] = b}
OnHost(b, h) == {j \in SubJobs(b) : HostOf[j] = h}
Queue(b, h) == {j \in OnHost(b, h) : run[j] = "queued"}
\* The slots of the host's semaphore in use: sent to before the worker is
\* spawned, received from when the worker returns.
Slots(b, h) == {j \in OnHost(b, h) : run[j] \notin {"queued", "done"}}

-----------------------------------------------------------------------------
Init ==
    /\ status = [x \in Ids |-> "none"]
    /\ result = {}
    /\ stored = {}
    /\ jobs = {}
    /\ cancels = {}
    /\ ctx = [x \in Ids |-> "live"]
    /\ bulkOf = [j \in Jobs |-> NoBulk]
    /\ run = [x \in Ids |-> "none"]
    /\ seen = [j \in Jobs |-> "none"]
    /\ loop = [b \in Bulks |-> [h \in Hosts |-> "none"]]
    /\ completed = [b \in Bulks |-> 0]
    /\ failed = [b \in Bulks |-> 0]
    /\ cancel = [k \in Cancellers |-> NoCancel]

StartScan(j) ==
    /\ run[j] = "none"
    /\ run' = [run EXCEPT ![j] = "start"]
    /\ status' = [status EXCEPT ![j] = "pending"]
    /\ jobs' = jobs \cup {j}
    /\ cancels' = cancels \cup {j}
    /\ UNCHANGED <<result, stored, ctx, bulkOf, seen, loop, completed, failed, cancel>>

\* The images are listed before anything is created, so S is an input.  The
\* sub-scans get no entry in cancels.  Without images no goroutine starts.
StartBulkScan(b, S) ==
    /\ run[b] = "none"
    /\ \A j \in S : run[j] = "none"
    /\ bulkOf' = [j \in Jobs |-> IF j \in S THEN b ELSE bulkOf[j]]
    /\ jobs' = jobs \cup S \cup {b}
    /\ \/ /\ S = {}
          /\ status' = [status EXCEPT ![b] = "complete"]
          /\ run' = [run EXCEPT ![b] = "done"]
          /\ UNCHANGED cancels
       \/ /\ S # {}
          /\ status' = [x \in Ids |-> IF x \in S \cup {b} THEN "pending" ELSE status[x]]
          /\ run' = [x \in Ids |-> IF x \in S THEN "queued"
                                   ELSE IF x = b THEN "start" ELSE run[x]]
          /\ cancels' = cancels \cup {b}
    /\ UNCHANGED <<result, stored, ctx, seen, loop, completed, failed, cancel>>

-----------------------------------------------------------------------------
(* runScan.  A step of j's goroutine writes j's status and moves its run.  *)

Step(j, from, to, newStatus) ==
    /\ run[j] = from
    /\ run' = [run EXCEPT ![j] = to]
    /\ status' = [status EXCEPT ![j] = newStatus]

\* No Docker client, or none for the host: scanner.go:396-408.
ScanUnavailable(j) ==
    /\ Step(j, "start", "cleanup", "failed")
    /\ UNCHANGED <<result, stored, jobs, cancels, ctx, bulkOf, seen, loop,
                   completed, failed, cancel>>

PullScanner(j) ==
    /\ Step(j, "start", "pulling", "pulling_scanner")
    /\ UNCHANGED <<result, stored, jobs, cancels, ctx, bulkOf, seen, loop,
                   completed, failed, cancel>>

BeginScanning(j) ==
    /\ Step(j, "pulling", "scanning", "scanning")
    /\ UNCHANGED <<result, stored, jobs, cancels, ctx, bulkOf, seen, loop,
                   completed, failed, cancel>>

\* onProgress evaluates job.Status without the lock, one word at a time ...
ReadStatus(j) ==
    /\ \/ /\ Step(j, "scanning", "reading", status[j])
          /\ seen' = [seen EXCEPT ![j] = status[j]]
       \/ /\ Step(j, "reading", "reporting", status[j])
          /\ seen' = [seen EXCEPT ![j] = IF status[j] = @ THEN @ ELSE "torn"]
    /\ UNCHANGED <<result, stored, jobs, cancels, ctx, bulkOf, loop, completed,
                   failed, cancel>>

\* ... and updateJobProgress writes it back under the lock.
WriteBack(j) ==
    /\ Step(j, "reporting", "scanning", seen[j])
    /\ seen' = [seen EXCEPT ![j] = "none"]
    /\ UNCHANGED <<result, stored, jobs, cancels, ctx, bulkOf, loop, completed,
                   failed, cancel>>

\* Fault: the word of the context package, one "l" short of the status.
ClassifyAsCanceled(ctxErr) == IF ctxErr = "cancelled" THEN "canceled" ELSE "failed"

classifyScanFailure(ctxErr) == IF ctxErr = "cancelled" THEN "cancelled" ELSE "failed"

\* The runner's deferred removal of its container carries no context.
RemoveScanner(j) ==
    /\ Step(j, "scanning", "removing", status[j])
    /\ UNCHANGED <<result, stored, jobs, cancels, ctx, bulkOf, seen, loop,
                   completed, failed, cancel>>

\* Without a container there is nothing to remove.
ScanFails(j) ==
    /\ run[j] \in {"scanning", "removing"}
    /\ Step(j, run[j], "failing", status[j])
    /\ seen' = [seen EXCEPT ![j] = classifyScanFailure(ctx[j])]
    /\ UNCHANGED <<result, stored, jobs, cancels, ctx, bulkOf, loop, completed,
                   failed, cancel>>

\* Fault: the error path returns without writing a status.
FailSilently(j) ==
    /\ Step(j, "failing", "cleanup", status[j])
    /\ seen' = [seen EXCEPT ![j] = "none"]
    /\ UNCHANGED <<result, stored, jobs, cancels, ctx, bulkOf, loop, completed,
                   failed, cancel>>

WriteFailure(j) ==
    /\ Step(j, "failing", "cleanup", seen[j])
    /\ seen' = [seen EXCEPT ![j] = "none"]
    /\ UNCHANGED <<result, stored, jobs, cancels, ctx, bulkOf, loop, completed,
                   failed, cancel>>

\* The scanner's output is parsed and store.Add called, whose error is logged.
ScanSucceeds(j) ==
    /\ Step(j, "removing", "publishing", status[j])
    /\ stored' \in {stored, stored \cup {j}}
    /\ UNCHANGED <<result, jobs, cancels, ctx, bulkOf, seen, loop, completed,
                   failed, cancel>>

Publish(j) ==
    /\ Step(j, "publishing", "cleanup", "complete")
    /\ result' = result \cup {j}
    /\ UNCHANGED <<stored, jobs, cancels, ctx, bulkOf, seen, loop, completed,
                   failed, cancel>>

\* Fault: the deferred delete is forgotten.
ReturnKeepingHandle(j) ==
    /\ Step(j, "cleanup", IF bulkOf[j] = NoBulk THEN "done" ELSE "counting", status[j])
    /\ UNCHANGED <<result, stored, jobs, cancels, ctx, bulkOf, seen, loop,
                   completed, failed, cancel>>

\* The deferred delete of the cancel function; a sub-scan's worker goes on.
ReturnFromScan(j) ==
    /\ Step(j, "cleanup", IF bulkOf[j] = NoBulk THEN "done" ELSE "counting", status[j])
    /\ cancels' = cancels \ {j}
    /\ UNCHANGED <<result, stored, jobs, ctx, bulkOf, seen, loop, completed,
                   failed, cancel>>

-----------------------------------------------------------------------------
(* runBulkScan and its goroutines per host.                                *)

BeginBulk(b) ==
    /\ Step(b, "start", "looping", "scanning")
    /\ loop' = [loop EXCEPT ![b] =
                    [h \in Hosts |-> IF OnHost(b, h) = {} THEN "done" ELSE "looping"]]
    /\ UNCHANGED <<result, stored, jobs, cancels, ctx, bulkOf, seen, completed,
                   failed, cancel>>

\* A slot is free: spawn a worker, whose context is a child of the bulk one.
\* A done bulk context does not prevent it: select picks any ready case.
Launch(b, h, j) ==
    /\ loop[b][h] = "looping"
    /\ j \in Queue(b, h)
    /\ Cardinality(Slots(b, h)) < MaxConcurrentScansPerHost
    /\ run' = [run EXCEPT ![j] = "start"]
    /\ ctx' = [ctx EXCEPT ![j] = ctx[b]]
    /\ UNCHANGED <<status, result, stored, jobs, cancels, bulkOf, seen, loop,
                   completed, failed, cancel>>

\* case <-ctx.Done(): the goroutine returns past hostWg.Wait.
AbandonHost(b, h) ==
    /\ loop[b][h] = "looping"
    /\ Queue(b, h) # {}
    /\ ctx[b] # "live"
    /\ loop' = [loop EXCEPT ![b][h] = "done"]
    /\ UNCHANGED <<status, result, stored, jobs, cancels, ctx, bulkOf, run, seen,
                   completed, failed, cancel>>

\* Fault: hostWg.Wait is forgotten.
LeaveHost(b, h) ==
    /\ loop[b][h] = "looping"
    /\ Queue(b, h) = {}
    /\ loop' = [loop EXCEPT ![b][h] = "done"]
    /\ UNCHANGED <<status, result, stored, jobs, cancels, ctx, bulkOf, run, seen,
                   completed, failed, cancel>>

\* All launched, and hostWg.Wait returns.
JoinHost(b, h) ==
    /\ loop[b][h] = "looping"
    /\ Queue(b, h) = {}
    /\ Slots(b, h) = {}
    /\ loop' = [loop EXCEPT ![b][h] = "done"]
    /\ UNCHANGED <<status, result, stored, jobs, cancels, ctx, bulkOf, run, seen,
                   completed, failed, cancel>>

\* Fault: every sub-scan that did not complete counts as failed twice over,
\* once by the worker's switch and once by a default case.
CountTwice(j) ==
    /\ Step(j, "counting", "done", status[j])
    /\ completed' = [completed EXCEPT ![bulkOf[j]] = @ + IF status[j] = "complete" THEN 1 ELSE 0]
    /\ failed' = [failed EXCEPT ![bulkOf[j]] = @ + IF status[j] = "failed" THEN 2 ELSE 0]
    /\ UNCHANGED <<result, stored, jobs, cancels, ctx, bulkOf, seen, loop, cancel>>

\* Fault: only the worker of a complete sub-scan receives from the semaphore.
CountKeepingSlot(j) ==
    /\ status[j] = "complete"
    /\ Step(j, "counting", "done", status[j])
    /\ completed' = [completed EXCEPT ![bulkOf[j]] = @ + 1]
    /\ UNCHANGED <<result, stored, jobs, cancels, ctx, bulkOf, seen, loop, failed, cancel>>

\* The worker tallies its sub-scan and frees the slot.
Count(j) ==
    /\ Step(j, "counting", "done", status[j])
    /\ completed' = [completed EXCEPT ![bulkOf[j]] = @ + IF status[j] = "complete" THEN 1 ELSE 0]
    /\ failed' = [failed EXCEPT ![bulkOf[j]] = @ + IF status[j] = "failed" THEN 1 ELSE 0]
    /\ UNCHANGED <<result, stored, jobs, cancels, ctx, bulkOf, seen, loop, cancel>>

\* wg.Wait returns.
FinishBulk(b) ==
    /\ \A h \in Hosts : loop[b][h] = "done"
    /\ Step(b, "looping", "cleanup", IF status[b] = "cancelled" THEN "cancelled" ELSE "complete")
    /\ UNCHANGED <<result, stored, jobs, cancels, ctx, bulkOf, seen, loop,
                   completed, failed, cancel>>

ReturnFromBulk(b) ==
    /\ Step(b, "cleanup", "done", status[b])
    /\ cancels' = cancels \ {b}
    /\ UNCHANGED <<result, stored, jobs, ctx, bulkOf, seen, loop, completed,
                   failed, cancel>>

-----------------------------------------------------------------------------
(* Contexts: the first reason wins, and a done bulk context is done for    *)
(* the workers launched so far.                                            *)

Running(x) == run[x] \notin {"none", "queued", "done"}

Children(x) == IF x \in Bulks THEN {j \in SubJobs(x) : Running(j)} ELSE {}

End(x, why) ==
    ctx' = [y \in Ids |-> IF y \in {x} \cup Children(x) /\ ctx[y] = "live"
                          THEN why ELSE ctx[y]]

Deadline(x) ==
    /\ Running(x)
    /\ ctx[x] = "live"
    /\ End(x, "expired")
    /\ UNCHANGED <<status, result, stored, jobs, cancels, bulkOf, run, seen, loop,
                   completed, failed, cancel>>

-----------------------------------------------------------------------------
(* CancelJob: check under the lock, cancel() without it, mark under it.    *)

CancelCheck(k, x) ==
    /\ cancel[k] = NoCancel
    /\ x \in cancels
    /\ x \in jobs => status[x] \in Active
    /\ cancel' = [cancel EXCEPT ![k] = [pc |-> "granted", id |-> x]]
    /\ UNCHANGED <<status, result, stored, jobs, cancels, ctx, bulkOf, run, seen,
                   loop, completed, failed>>

CancelContext(k) ==
    /\ cancel[k].pc = "granted"
    /\ cancel' = [cancel EXCEPT ![k].pc = "marking"]
    /\ End(cancel[k].id, "cancelled")
    /\ UNCHANGED <<status, result, stored, jobs, cancels, bulkOf, run, seen, loop,
                   completed, failed>>

\* Fault: the status is not checked again under the second lock.
MarkUnchecked(k) ==
    LET x == cancel[k].id IN
    /\ cancel[k].pc = "marking"
    /\ cancel' = [cancel EXCEPT ![k] = NoCancel]
    /\ status' = IF x \in jobs THEN [status EXCEPT ![x] = "cancelled"] ELSE status
    /\ cancels' = cancels \ {x}
    /\ UNCHANGED <<result, stored, jobs, ctx, bulkOf, run, seen, loop, completed, failed>>

CancelMark(k) ==
    LET x == cancel[k].id IN
    /\ cancel[k].pc = "marking"
    /\ cancel' = [cancel EXCEPT ![k] = NoCancel]
    /\ status' = IF x \in jobs /\ status[x] \in Active
                 THEN [status EXCEPT ![x] = "cancelled"] ELSE status
    /\ cancels' = cancels \ {x}
    /\ UNCHANGED <<result, stored, jobs, ctx, bulkOf, run, seen, loop, completed, failed>>

-----------------------------------------------------------------------------
\* gcWorker drops a terminal job that is a day old; age is left open.
Collect(x) ==
    /\ x \in jobs
    /\ status[x] \in Terminal
    /\ jobs' = jobs \ {x}
    /\ cancels' = cancels \ {x}
    /\ UNCHANGED <<status, result, stored, ctx, bulkOf, run, seen, loop, completed,
                   failed, cancel>>

-----------------------------------------------------------------------------
\* What the goroutine of a scan does on its own, without waiting for anything.
Proceed(j) ==
    \/ ScanUnavailable(j) \/ PullScanner(j) \/ BeginScanning(j)
    \/ (run[j] = "reading" /\ ReadStatus(j))
    \/ WriteBack(j) \/ WriteFailure(j) \/ Publish(j) \/ ReturnFromScan(j) \/ Count(j)

ScanReturns(j) == RemoveScanner(j) \/ ScanFails(j) \/ ScanSucceeds(j)

HostStep(b, h) == AbandonHost(b, h) \/ JoinHost(b, h) \/ \E j \in Jobs : Launch(b, h, j)

BulkStep(b) == BeginBulk(b) \/ FinishBulk(b) \/ ReturnFromBulk(b)

CancelStep(k) == CancelContext(k) \/ CancelMark(k)

Next ==
    \/ \E j \in Jobs : StartScan(j) \/ Proceed(j) \/ ScanReturns(j)
                       \/ (run[j] = "scanning" /\ ReadStatus(j))
    \/ \E b \in Bulks : BulkStep(b) \/ (\E S \in SUBSET Jobs : StartBulkScan(b, S))
    \/ \E b \in Bulks, h \in Hosts : HostStep(b, h)
    \/ \E x \in Ids : Deadline(x) \/ Collect(x)
    \/ \E k \in Cancellers : CancelStep(k) \/ (\E x \in Ids : CancelCheck(k, x))

Spec == Init /\ [][Next]_vars

(***************************************************************************)
(* Goroutines are scheduled, timers fire, and a scan whose context is done *)
(* gets as far as the removal of its container: every Docker call before   *)
(* it carries the context.  It may report progress any number of times     *)
(* before it does, hence strong fairness.  Nothing is assumed of the       *)
(* daemon, which may never answer the removal, nor that anybody calls the  *)
(* service or that the collector runs.                                     *)
(***************************************************************************)
DoneScanReturns(j) == ctx[j] # "live" /\ run[j] = "scanning" /\ ScanReturns(j)

Fairness ==
    /\ \A j \in Jobs : WF_vars(Proceed(j)) /\ SF_vars(DoneScanReturns(j))
    /\ \A b \in Bulks : WF_vars(BulkStep(b))
    /\ \A b \in Bulks, h \in Hosts : WF_vars(HostStep(b, h))
    /\ \A x \in Ids : WF_vars(Deadline(x))
    /\ \A k \in Cancellers : WF_vars(CancelStep(k))

FairSpec == Spec /\ Fairness

-----------------------------------------------------------------------------
TypeOK ==
    /\ status \in [Ids -> Status]
    /\ result \subseteq Jobs
    /\ stored \subseteq Jobs
    /\ jobs \subseteq Ids
    /\ cancels \subseteq Ids
    /\ ctx \in [Ids -> {"live", "expired", "cancelled"}]
    /\ bulkOf \in [Jobs -> Bulks \cup {NoBulk}]
    /\ run \in [Ids -> RunState]
    /\ seen \in [Jobs -> Status]
    /\ loop \in [Bulks -> [Hosts -> {"none", "looping", "done"}]]
    /\ completed \in [Bulks -> Nat]
    /\ failed \in [Bulks -> Nat]
    /\ cancel \in [Cancellers -> [pc : {"idle", "granted", "marking"},
                                  id : Ids \cup {NoBulk}]]

(***************************************************************************)
(* A job shows a result exactly when it shows "complete", although         *)
(* cancellation, progress reports and deadlines race with the end of the   *)
(* scan: a cancellation that arrives while the result is published must    *)
(* not hide it (scanner.go:358-362), and a late progress report must not   *)
(* take the status back (scanner.go:415-417 against 462-465).              *)
(***************************************************************************)
ResultIffComplete == \A j \in Jobs : j \in result <=> status[j] = "complete"

(***************************************************************************)
(* The handle that cancels a job lives as long as its goroutine, no        *)
(* longer, and an active single scan keeps it until somebody uses it:      *)
(* cancels neither leaks nor loses entries (scanner.go:165-168, 358-390).  *)
(***************************************************************************)
CancelHandles ==
    /\ \A x \in cancels : Running(x)
    /\ \A j \in Jobs :
         /\ bulkOf[j] = NoBulk
         /\ Running(j)
         /\ ctx[j] = "live"
         /\ status[j] \in Active
         => j \in cancels

(***************************************************************************)
(* The counters of a bulk job are the numbers of its sub-scans that ended  *)
(* complete and failed: each is counted once, with the status it keeps     *)
(* (scanner.go:517-523 and the notification at 661-668).                   *)
(***************************************************************************)
Ended(b, s) == {j \in SubJobs(b) : run[j] = "done" /\ status[j] = s}

TallyIsExact ==
    \A b \in Bulks :
        /\ completed[b] = Cardinality(Ended(b, "complete"))
        /\ failed[b] = Cardinality(Ended(b, "failed"))

(***************************************************************************)
(* A bulk job that ends without having been cancelled and without hitting  *)
(* its deadline is whole: all its sub-scans are over and counted (the      *)
(* WaitGroups at scanner.go:496-530).  After a cancellation or a deadline  *)
(* this fails: the goroutine of a host returns while its workers run.      *)
(***************************************************************************)
UndisturbedBulkIsWhole ==
    \A b \in Bulks :
        status[b] \in Terminal /\ ctx[b] = "live" =>
            /\ \A j \in SubJobs(b) : run[j] = "done" /\ status[j] \in Terminal
            /\ completed[b] + failed[b] = Cardinality(SubJobs(b))

(***************************************************************************)
(* Every scan that is started, alone or by a bulk job's worker, ends with  *)
(* a terminal status whatever the Docker daemon does with its calls, but   *)
(* for the one without a context: once the removal of the scanner's        *)
(* container is answered, if it comes to it (grype.go:81, trivy.go:75).    *)
(***************************************************************************)
Removing(j) == run[j] = "removing"
AfterRemoval(j) == run[j] \in {"failing", "publishing"}

ScansEnd ==
    \A j \in Jobs :
        (Removing(j) ~> AfterRemoval(j))
            => (run[j] = "start" ~> (run[j] = "done" /\ status[j] \in Terminal))

\* Every bulk job ends with a terminal status, once the removals are answered.
BulksEnd ==
    (\A j \in Jobs : Removing(j) ~> AfterRemoval(j))
        => \A b \in Bulks : run[b] = "start" ~> (run[b] = "done" /\ status[b] \in Terminal)

-----------------------------------------------------------------------------
(* Two things the repository says of this code that it does not do.        *)

(***************************************************************************)
(* "Only cancel if the job is still in an active (non-terminal) state"     *)
(* (scanner.go:336): complete, failed and cancelled are terminal, and the  *)
(* API answers "Job cancelled" (scan_handlers.go:178).  But runScan and    *)
(* runBulkScan write their next status over a cancelled one.               *)
(***************************************************************************)
TerminalIsFinal ==
    [][\A x \in Ids : status[x] \in Terminal => status'[x] = status[x]]_vars

(***************************************************************************)
(* "Check if a scan is already running for this image ... already          *)
(* scanning" (autoscan.go:237-242) takes an active status in the job list  *)
(* for a running scan.  A sub-scan that an ended bulk job never launched   *)
(* stays pending, and is never collected.                                  *)
(***************************************************************************)
ActiveIsRunning ==
    \A j \in jobs \cap Jobs : status[j] \in Active =>
        \/ Running(j)
        \/ run[j] = "queued" /\ Running(bulkOf[j])
=============================================================================
