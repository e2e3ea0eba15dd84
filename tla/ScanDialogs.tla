----------------------------- MODULE ScanDialogs ------------------------------
(***************************************************************************)
(* The two dialogs that start vulnerability scans from the images page and *)
(* follow them by polling.  The dialog of one image exists only while it   *)
(* is open: what answers later finds no component.  The bulk dialog is     *)
(* always there, open or not, and an answer that comes late still reaches  *)
(* it.  Closing either forgets the job and does not cancel it.             *)
(*                                                                         *)
(* The choice of the scanner and what a result holds are left out; one job *)
(* of a bulk scan is the image it scans.                                   *)
(***************************************************************************)
EXTENDS Naturals, Sequences

CONSTANTS
    Images,
    Reached,                    \* the images a bulk scan finds at the hosts
    MaxJobs, MaxOpenings        \* bounds

None == 0
Terminal == {"complete", "failed", "cancelled"}

VARIABLES
    jobs,       \* at the server: [of, status, scanned, known] of every job so far
    asked,      \* the start requests that have not answered yet
    openings,   \* how many single-image dialogs there have been
    scan,       \* the ScanDialog that is open: [key, image, jobId, started, blocked]
    bulk,       \* the BulkScanDialog: [open, jobId, started, selected]
    seen        \* per dialog, the last answer to its query ["scanJob", jobId]

dialogVars == <<jobs, asked, openings, scan, bulk, seen>>

AllImages == "all images"
Job == [of : Images \cup {AllImages}, status : {"scanning"} \cup Terminal,
        scanned : SUBSET Images, known : BOOLEAN]
Answers == {"none", "job", "blocked", "error"}
Request == [key : 0 .. MaxOpenings, of : Images \cup {AllImages}, answer : Answers,
            job : 0 .. MaxJobs]
Unseen == [status |-> "unknown", scanned |-> {}]
NoDialog == [key |-> 0, image |-> AllImages, jobId |-> None, started |-> FALSE,
             blocked |-> FALSE]

DialogTypeOK ==
    /\ jobs \in Seq(Job)
    /\ asked \subseteq Request
    /\ openings \in 0 .. MaxOpenings
    /\ scan \in [key : 0 .. MaxOpenings, image : Images \cup {AllImages},
                 jobId : 0 .. MaxJobs, started : BOOLEAN, blocked : BOOLEAN]
    /\ bulk \in [open : BOOLEAN, jobId : 0 .. MaxJobs, started : BOOLEAN,
                 selected : Images \cup {AllImages}]
    /\ seen \in [{"scan", "bulk"} -> [status : {"unknown", "scanning"} \cup Terminal,
                                       scanned : SUBSET Images]]

DialogInit ==
    /\ jobs = << >>
    /\ asked = {}
    /\ openings = 0
    /\ scan = NoDialog
    /\ bulk = [open |-> FALSE, jobId |-> None, started |-> FALSE, selected |-> AllImages]
    /\ seen = [d \in {"scan", "bulk"} |-> Unseen]

-----------------------------------------------------------------------------
(* What the dialogs show.                                                  *)

\* The one panel the dialog of an image renders, in the order of its tests;
\* nothing between the start and the first answer to the poll.
Panel ==
    LET status == seen["scan"].status
    IN  CASE scan.blocked -> "already scanned"
          [] ~scan.blocked /\ ~scan.started -> "choose"
          [] ~scan.blocked /\ scan.started /\ status = "scanning" -> "scanning"
          [] ~scan.blocked /\ scan.started /\ status \in {"failed", "cancelled"} -> "failed"
          [] ~scan.blocked /\ scan.started /\ status = "complete" -> "results"
          [] OTHER -> "nothing"

\* The panel of the bulk dialog, and the rows with a "View" button in it.
BulkPanel ==
    IF ~bulk.started THEN "choose"
    ELSE IF seen["bulk"].status \in Terminal THEN "over" ELSE "scanning"
Viewable == IF bulk.started THEN seen["bulk"].scanned ELSE {}

\* isPending of the mutation of a dialog: key 0 is the bulk dialog.
Pending(key) == \E r \in asked : r.key = key

-----------------------------------------------------------------------------
(* The dialog of one image.                                                *)

\* setScanImage(image): a new component.
OpenScan(i) ==
    /\ scan.key = 0 /\ ~bulk.open
    /\ openings < MaxOpenings
    /\ openings' = openings + 1
    /\ scan' = [NoDialog EXCEPT !.key = openings + 1, !.image = i]
    /\ UNCHANGED <<jobs, asked, bulk, seen>>

\* handleClose(false) and setScanImage(null): the component is gone.
CloseScan ==
    /\ scan.key # 0
    /\ scan' = NoDialog
    /\ seen' = [seen EXCEPT !["scan"] = Unseen]
    /\ UNCHANGED <<jobs, asked, openings, bulk>>

\* handleStartScan, up to its await.
StartScan ==
    /\ scan.key # 0 /\ Panel = "choose" /\ ~Pending(scan.key)
    /\ asked' = asked \cup {[key |-> scan.key, of |-> scan.image, answer |-> "none",
                             job |-> None]}
    /\ UNCHANGED <<jobs, openings, scan, bulk, seen>>

\* Fault: the dialog that is open takes the answer to another.
ScanStartsAnywhere(r) ==
    /\ r \in asked /\ r.key # 0 /\ r.answer # "none"
    /\ asked' = asked \ {r}
    /\ IF scan.key = 0 \/ r.answer # "job"
       THEN UNCHANGED scan
       ELSE scan' = [scan EXCEPT !.jobId = r.job, !.started = TRUE]
    /\ UNCHANGED <<jobs, openings, bulk, seen>>

\* handleStartScan after its await.  Only a RescanBlockedError is told.
ScanStarts(r) ==
    /\ r \in asked /\ r.key # 0 /\ r.answer # "none"
    /\ asked' = asked \ {r}
    /\ IF r.key # scan.key
       THEN UNCHANGED scan
       ELSE scan' = [scan EXCEPT !.jobId = IF r.answer = "job" THEN r.job ELSE @,
                                 !.started = @ \/ r.answer = "job",
                                 !.blocked = @ \/ r.answer = "blocked"]
    /\ UNCHANGED <<jobs, openings, bulk, seen>>

\* "Retry" of the panel of a failed scan.
RetryScan ==
    /\ scan.key # 0 /\ Panel = "failed"
    /\ scan' = [scan EXCEPT !.started = FALSE, !.jobId = None]
    /\ seen' = [seen EXCEPT !["scan"] = Unseen]
    /\ UNCHANGED <<jobs, asked, openings, bulk>>

\* handleCancel of either dialog, behind a button of the panel of a scan
\* that runs: the server cancels what has not ended.
CancelShown(id) ==
    /\ id # None /\ jobs[id].known
    /\ \/ scan.jobId = id /\ Panel = "scanning"
       \/ bulk.open /\ bulk.jobId = id /\ seen["bulk"].status = "scanning"
    /\ jobs[id].status = "scanning"
    /\ jobs' = [jobs EXCEPT ![id].status = "cancelled"]
    /\ UNCHANGED <<asked, openings, scan, bulk, seen>>

-----------------------------------------------------------------------------
(* The bulk dialog.                                                        *)

OpenBulk ==
    /\ ~bulk.open /\ scan.key = 0
    /\ bulk' = [bulk EXCEPT !.open = TRUE]
    /\ UNCHANGED <<jobs, asked, openings, scan, seen>>

\* handleClose(false).
CloseBulk ==
    /\ bulk.open
    /\ bulk' = [open |-> FALSE, jobId |-> None, started |-> FALSE, selected |-> AllImages]
    /\ seen' = [seen EXCEPT !["bulk"] = Unseen]
    /\ UNCHANGED <<jobs, asked, openings, scan>>

\* handleStart, up to its await.
StartBulk ==
    /\ bulk.open /\ BulkPanel = "choose" /\ ~Pending(0)
    /\ asked' = asked \cup {[key |-> 0, of |-> AllImages, answer |-> "none", job |-> None]}
    /\ UNCHANGED <<jobs, openings, scan, bulk, seen>>

\* handleStart after its await, whether or not the dialog is still open.
BulkStarts(r) ==
    /\ r \in asked /\ r.key = 0 /\ r.answer # "none"
    /\ asked' = asked \ {r}
    /\ IF r.answer = "job"
       THEN bulk' = [bulk EXCEPT !.jobId = r.job, !.started = TRUE, !.selected = AllImages]
       ELSE UNCHANGED bulk
    /\ UNCHANGED <<jobs, openings, scan, seen>>

\* "View" of a row.
ViewResult(i) ==
    /\ bulk.open /\ i \in Viewable /\ i # bulk.selected
    /\ bulk' = [bulk EXCEPT !.selected = i]
    /\ UNCHANGED <<jobs, asked, openings, scan, seen>>

-----------------------------------------------------------------------------
(* Polling, and the server.                                                *)

Shown(dialog) == IF dialog = "scan" THEN scan.jobId ELSE bulk.jobId
Enabled(dialog) ==
    /\ Shown(dialog) # None
    /\ IF dialog = "scan" THEN scan.started ELSE bulk.started

\* Fault: goes on only after an answer that says so.
PollWhileScanning(dialog) ==
    /\ Enabled(dialog) /\ jobs[Shown(dialog)].known
    /\ seen[dialog].status = "scanning"
    /\ seen' = [seen EXCEPT ![dialog].status = jobs[Shown(dialog)].status]
    /\ UNCHANGED <<jobs, asked, openings, scan, bulk>>

\* useScanJob asks at once and then every two seconds, until an answer says
\* that the job has ended.  An error leaves the last answer as it is.
Poll(dialog) ==
    /\ Enabled(dialog) /\ jobs[Shown(dialog)].known
    /\ seen[dialog].status \notin Terminal
    /\ seen' = [seen EXCEPT ![dialog] = [status |-> jobs[Shown(dialog)].status,
                                        scanned |-> jobs[Shown(dialog)].scanned]]
    /\ UNCHANGED <<jobs, asked, openings, scan, bulk>>

\* POST /api/v1/scan or /scan/bulk: a job, a 409 for an image that has not
\* changed, or an error.
Accept(r) ==
    /\ r \in asked /\ r.answer = "none"
    /\ Len(jobs) < MaxJobs
    /\ jobs' = Append(jobs, [of |-> r.of, status |-> "scanning", scanned |-> {}, known |-> TRUE])
    /\ asked' = (asked \ {r}) \cup {[r EXCEPT !.answer = "job", !.job = Len(jobs) + 1]}
    /\ UNCHANGED <<openings, scan, bulk, seen>>
Refuse(r) ==
    /\ r \in asked /\ r.answer = "none"
    /\ \E a \in {"error"} \cup (IF r.of = AllImages THEN {} ELSE {"blocked"}) :
          asked' = (asked \ {r}) \cup {[r EXCEPT !.answer = a]}
    /\ UNCHANGED <<jobs, openings, scan, bulk, seen>>

\* What happens to a job that no dialog will ever show is left out.
Followed(id) == id \in {scan.jobId, bulk.jobId} \/ \E r \in asked : r.job = id

\* A bulk job has the result of one more image; a job ends.
Scanned(id, i) ==
    /\ Followed(id)
    /\ jobs[id].status = "scanning" /\ jobs[id].of = AllImages
    /\ i \notin jobs[id].scanned
    /\ jobs' = [jobs EXCEPT ![id].scanned = @ \cup {i}]
    /\ UNCHANGED <<asked, openings, scan, bulk, seen>>
Ends(id) ==
    /\ Followed(id)
    /\ jobs[id].status = "scanning"
    /\ \E s \in {"failed", "complete"} : jobs' = [jobs EXCEPT ![id].status = s]
    /\ UNCHANGED <<asked, openings, scan, bulk, seen>>

\* The server restarts and knows none of its jobs any more.
Restarts ==
    /\ \E id \in DOMAIN jobs : jobs[id].known /\ Followed(id)
    /\ jobs' = [id \in DOMAIN jobs |-> [jobs[id] EXCEPT !.known = FALSE]]
    /\ asked' = {[r EXCEPT !.answer = IF @ = "none" THEN "error" ELSE @] : r \in asked}
    /\ UNCHANGED <<openings, scan, bulk, seen>>

DialogNext ==
    \/ \E i \in Images : OpenScan(i) \/ ViewResult(i)
    \/ CloseScan \/ StartScan \/ RetryScan
    \/ OpenBulk \/ CloseBulk \/ StartBulk
    \/ \E r \in asked : ScanStarts(r) \/ BulkStarts(r) \/ Accept(r) \/ Refuse(r)
    \/ \E id \in DOMAIN jobs : CancelShown(id) \/ Ends(id)
    \/ \E id \in DOMAIN jobs, i \in Reached : Scanned(id, i)
    \/ \E d \in {"scan", "bulk"} : Poll(d)
    \/ Restarts

\* The timer of a query that is mounted fires, and scans end (the runners
\* have a timeout).
Fairness ==
    /\ \A d \in {"scan", "bulk"} : WF_dialogVars(Poll(d))
    /\ \A id \in 1 .. MaxJobs : WF_dialogVars(id \in DOMAIN jobs /\ Ends(id))

DialogSpec == DialogInit /\ [][DialogNext]_dialogVars /\ Fairness

-----------------------------------------------------------------------------
\* A dialog shows no other scan than the one it asked for: the job in the
\* dialog of an image is of that image, whichever answers were under way
\* when it was opened, and a result opened in the bulk dialog is one of the
\* bulk job shown with it (scan-dialog.tsx handleStartScan, images-table.tsx).
DialogsShowTheirOwn ==
    /\ scan.jobId # None => jobs[scan.jobId].of = scan.image
    /\ bulk.selected # AllImages =>
          bulk.jobId # None /\ bulk.selected \in seen["bulk"].scanned

\* A scan that a dialog started is followed to its end: unless the dialog
\* lets it go or the server has forgotten it, the dialog comes to show what
\* became of it (useScanJob's refetchInterval).
StartedIsFollowed ==
    \A d \in {"scan", "bulk"} :
        Enabled(d) ~> \/ ~Enabled(d) \/ seen[d].status \in Terminal
                      \/ ~jobs[Shown(d)].known
===============================================================================
