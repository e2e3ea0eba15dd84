------------------------------ MODULE SbomDialog ------------------------------
(***************************************************************************)
(* Generating an SBOM from the images page.  The dialog of an image exists *)
(* while it is open and polls the job it started; the page observes every  *)
(* job a dialog reported, also of dialogs that are gone, announces what    *)
(* completes and then asks again which images have an SBOM.                *)
(*                                                                         *)
(* A document is known by the job that wrote it and the format it is in.   *)
(***************************************************************************)
EXTENDS Naturals, Sequences

CONSTANTS
    Images, Formats,
    MaxJobs, MaxOpenings        \* bounds

None == 0
Terminal == {"complete", "failed", "cancelled"}

VARIABLES
    jobs,           \* at the server: [image, format, status, known] of every job so far
    asked,          \* the generate requests that have not answered yet
    downloads,      \* the downloads under way: [key, job, kind]
    openings,       \* how many dialogs there have been
    dialog,         \* the one that is open
    sbomJob,        \* per job, the last answer to ["sbomJob", id]
    activeSBOMJobIds,
    announced,      \* per job, how often it was announced
    sbomedImages,   \* the page's list of images that have an SBOM
    stale           \* that list has been invalidated

sbomVars == <<jobs, asked, downloads, openings, dialog, sbomJob, activeSBOMJobIds,
              announced, sbomedImages, stale>>

Ids == 1 .. MaxJobs
Keys == 0 .. MaxOpenings
NoDialog == [key |-> 0, image |-> "none", format |-> "none", jobId |-> None,
             started |-> FALSE, downloading |-> FALSE, data |-> None, blocked |-> FALSE,
             changed |-> FALSE]     \* a history: another format was selected while asking

SbomTypeOK ==
    /\ jobs \in Seq([image : Images, format : Formats, known : BOOLEAN,
                     status : {"generating"} \cup Terminal])
    /\ asked \subseteq [key : Keys, image : Images, format : Formats, job : {None} \cup Ids,
                        answer : {"none", "job", "blocked", "error"}]
    /\ downloads \subseteq [key : Keys, job : Ids, kind : {"view", "export"}]
    /\ openings \in Keys
    /\ dialog \in [key : Keys, image : Images \cup {"none"}, format : Formats \cup {"none"},
                   jobId : {None} \cup Ids, started : BOOLEAN, downloading : BOOLEAN,
                   data : {None} \cup Ids, blocked : BOOLEAN, changed : BOOLEAN]
    /\ sbomJob \in [Ids -> {"unknown", "generating"} \cup Terminal]
    /\ activeSBOMJobIds \subseteq Ids
    /\ announced \in [Ids -> 0 .. 2]
    /\ sbomedImages \subseteq Images
    /\ stale \in BOOLEAN

SbomInit ==
    /\ jobs = << >> /\ asked = {} /\ downloads = {} /\ openings = 0
    /\ dialog = NoDialog
    /\ sbomJob = [j \in Ids |-> "unknown"]
    /\ activeSBOMJobIds = {}
    /\ announced = [j \in Ids |-> 0]
    /\ sbomedImages = {}
    /\ stale = FALSE

Open == dialog.key # 0
Pending == \E r \in asked : r.key = dialog.key
Status == IF dialog.jobId = None THEN "unknown" ELSE sbomJob[dialog.jobId]

\* The panel the dialog renders, in the order of its tests: neither a job
\* that was cancelled nor one not yet heard of shows anything.
Panel ==
    IF dialog.blocked THEN "already generated"
    ELSE IF ~dialog.started THEN "choose"
    ELSE IF Status \in {"unknown", "cancelled"} THEN "nothing" ELSE Status

\* getSbomComponents reads the document as the format selected in the dialog.
ComponentsAreFound == jobs[dialog.data].format = dialog.format

-----------------------------------------------------------------------------
\* setSbomImage(image), behind the button of an image that has no SBOM yet.
OpenDialog(i) ==
    /\ ~Open /\ openings < MaxOpenings
    /\ i \notin sbomedImages
    /\ openings' = openings + 1
    /\ dialog' = [NoDialog EXCEPT !.key = openings + 1, !.image = i, !.format = "spdx-json"]
    /\ UNCHANGED <<jobs, asked, downloads, sbomJob, activeSBOMJobIds, announced,
                   sbomedImages, stale>>

\* handleClose(false) and setSbomImage(null): the component is gone.
CloseDialog ==
    /\ Open
    /\ dialog' = NoDialog
    /\ UNCHANGED <<jobs, asked, downloads, openings, sbomJob, activeSBOMJobIds, announced,
                   sbomedImages, stale>>

\* setFormat: the selection is not disabled while a request is under way.
SelectFormat(f) ==
    /\ Open /\ Panel = "choose" /\ f # dialog.format
    /\ dialog' = [dialog EXCEPT !.format = f, !.changed = @ \/ Pending]
    /\ UNCHANGED <<jobs, asked, downloads, openings, sbomJob, activeSBOMJobIds, announced,
                   sbomedImages, stale>>

\* handleGenerate up to its await; the button is disabled while one is pending.
Generate ==
    /\ Open /\ Panel = "choose" /\ ~Pending
    /\ dialog' = [dialog EXCEPT !.changed = FALSE]
    /\ asked' = asked \cup {[key |-> dialog.key, image |-> dialog.image, job |-> None,
                             format |-> dialog.format, answer |-> "none"]}
    /\ UNCHANGED <<jobs, downloads, openings, sbomJob, activeSBOMJobIds, announced,
                   sbomedImages, stale>>

\* The rest of it: the page is told of the job also when the dialog is gone.
Generated(r) ==
    /\ r \in asked /\ r.answer # "none"
    /\ asked' = asked \ {r}
    /\ activeSBOMJobIds' =
          IF r.answer = "job" THEN activeSBOMJobIds \cup {r.job} ELSE activeSBOMJobIds
    /\ dialog' =
          IF r.key # dialog.key THEN dialog
          ELSE [dialog EXCEPT !.jobId = IF r.answer = "job" THEN r.job ELSE @,
                              !.started = @ \/ r.answer = "job",
                              !.blocked = @ \/ r.answer = "blocked"]
    /\ UNCHANGED <<jobs, downloads, openings, sbomJob, announced, sbomedImages, stale>>

\* "Retry" of a failed job.
Retry ==
    /\ Open /\ Panel = "failed"
    /\ dialog' = [dialog EXCEPT !.started = FALSE, !.jobId = None]
    /\ UNCHANGED <<jobs, asked, downloads, openings, sbomJob, activeSBOMJobIds, announced,
                   sbomedImages, stale>>

-----------------------------------------------------------------------------
Polled(id) == id \in activeSBOMJobIds \/ (dialog.started /\ dialog.jobId = id)

\* One poll of a job's query, which the dialog and the page share, and the
\* two effects on its answer: the dialog fetches the document of a completed
\* job; useObservedSBOMJobs announces it, invalidates the list and lets the
\* job go.
Poll(id) ==
    /\ Polled(id) /\ jobs[id].known
    /\ sbomJob[id] \notin Terminal
    /\ sbomJob' = [sbomJob EXCEPT ![id] = jobs[id].status]
    /\ downloads' =
          IF jobs[id].status = "complete" /\ dialog.jobId = id /\ dialog.data = None
          THEN downloads \cup {[key |-> dialog.key, job |-> id, kind |-> "view"]}
          ELSE downloads
    /\ LET over == id \in activeSBOMJobIds /\ jobs[id].status \in Terminal
           done == over /\ jobs[id].status = "complete"
       IN  /\ announced' = IF done THEN [announced EXCEPT ![id] = @ + 1] ELSE announced
           /\ stale' = (stale \/ done)
           /\ activeSBOMJobIds' = IF over THEN activeSBOMJobIds \ {id} ELSE activeSBOMJobIds
    /\ UNCHANGED <<jobs, asked, openings, dialog, sbomedImages>>

\* handleDownload up to its await; the button is disabled while downloading.
Export ==
    /\ Open /\ Panel = "complete" /\ ~dialog.downloading
    /\ dialog' = [dialog EXCEPT !.downloading = TRUE]
    /\ downloads' = downloads \cup {[key |-> dialog.key, job |-> dialog.jobId,
                                     kind |-> "export"]}
    /\ UNCHANGED <<jobs, asked, openings, sbomJob, activeSBOMJobIds, announced,
                   sbomedImages, stale>>

\* A download answers; a document that does not come is not asked for again.
Downloaded(d) ==
    /\ d \in downloads
    /\ downloads' = downloads \ {d}
    /\ \/ d.key # dialog.key /\ UNCHANGED dialog
       \/ /\ d.key = dialog.key /\ d.kind = "export"
          /\ dialog' = [dialog EXCEPT !.downloading = FALSE]
       \/ /\ d.key = dialog.key /\ d.kind = "view"
          /\ \E came \in (IF jobs[d.job].known THEN BOOLEAN ELSE {FALSE}) :
                dialog' = IF came THEN [dialog EXCEPT !.data = d.job] ELSE dialog
    /\ UNCHANGED <<jobs, asked, openings, sbomJob, activeSBOMJobIds, announced,
                   sbomedImages, stale>>

\* useSBOMedImages is fetched again.
Refetch ==
    /\ stale
    /\ stale' = FALSE
    /\ sbomedImages' = {jobs[id].image : id \in {j \in DOMAIN jobs : jobs[j].status = "complete"}}
    /\ UNCHANGED <<jobs, asked, downloads, openings, dialog, sbomJob, activeSBOMJobIds,
                   announced>>

-----------------------------------------------------------------------------
(* The server.                                                             *)
Accept(r) ==
    /\ r \in asked /\ r.answer = "none" /\ Len(jobs) < MaxJobs
    /\ jobs' = Append(jobs, [image |-> r.image, format |-> r.format, known |-> TRUE,
                             status |-> "generating"])
    /\ asked' = (asked \ {r}) \cup {[r EXCEPT !.answer = "job", !.job = Len(jobs) + 1]}
    /\ UNCHANGED <<downloads, openings, dialog, sbomJob, activeSBOMJobIds, announced,
                   sbomedImages, stale>>
Refuse(r) ==
    /\ r \in asked /\ r.answer = "none"
    /\ \E a \in {"blocked", "error"} : asked' = (asked \ {r}) \cup {[r EXCEPT !.answer = a]}
    /\ UNCHANGED <<jobs, downloads, openings, dialog, sbomJob, activeSBOMJobIds, announced,
                   sbomedImages, stale>>
Ends(id) ==
    /\ jobs[id].known /\ jobs[id].status = "generating"
    /\ \E s \in Terminal : jobs' = [jobs EXCEPT ![id].status = s]
    /\ UNCHANGED <<asked, downloads, openings, dialog, sbomJob, activeSBOMJobIds, announced,
                   sbomedImages, stale>>
Restarts ==
    /\ \E id \in DOMAIN jobs : jobs[id].known
    /\ jobs' = [id \in DOMAIN jobs |-> [jobs[id] EXCEPT !.known = FALSE]]
    /\ asked' = {[r EXCEPT !.answer = IF @ = "none" THEN "error" ELSE @] : r \in asked}
    /\ UNCHANGED <<downloads, openings, dialog, sbomJob, activeSBOMJobIds, announced,
                   sbomedImages, stale>>

SbomNext ==
    \/ \E i \in Images : OpenDialog(i)
    \/ \E f \in Formats : SelectFormat(f)
    \/ CloseDialog \/ Generate \/ Retry \/ Export \/ Refetch \/ Restarts
    \/ \E r \in asked : Generated(r) \/ Accept(r) \/ Refuse(r)
    \/ \E d \in downloads : Downloaded(d)
    \/ \E id \in DOMAIN jobs : Poll(id) \/ Ends(id)

\* The timer of a mounted query fires, a request that was answered resumes
\* its handler, a job ends, an invalidated list that is on the page is asked
\* for again.
Fairness ==
    /\ \A k \in Keys : WF_sbomVars(\E r \in asked : r.key = k /\ Generated(r))
    /\ WF_sbomVars(Refetch)
    /\ \A id \in Ids : /\ WF_sbomVars(id \in DOMAIN jobs /\ Poll(id))
                       /\ WF_sbomVars(id \in DOMAIN jobs /\ Ends(id))

SbomSpec == SbomInit /\ [][SbomNext]_sbomVars /\ Fairness

-----------------------------------------------------------------------------
\* The document in the dialog is that of the job it shows, which is of the
\* dialog's image, it is read in the format it was written in unless another
\* was selected while the server was asked, and no job is announced twice
\* (sbom-dialog.tsx, useObservedSBOMJobs).
DocumentIsOfThisImage ==
    /\ dialog.jobId # None => jobs[dialog.jobId].image = dialog.image
    /\ dialog.data # None => /\ dialog.data = dialog.jobId
                             /\ ComponentsAreFound \/ dialog.changed
    /\ \A id \in Ids : announced[id] <= 1

\* What was generated is announced and its image marked, also when the
\* dialog was closed before the server answered or the job ended; only a
\* server that restarts can keep it from the page (onJobCreated).
GeneratedIsMarked ==
    \A id \in Ids :
        (IF id \in DOMAIN jobs THEN jobs[id].status = "complete" ELSE FALSE)
            ~> /\ id \in DOMAIN jobs
               /\ (announced[id] = 1 /\ jobs[id].image \in sbomedImages) \/ ~jobs[id].known
===============================================================================
