---------------------------- MODULE SbomArtifacts ----------------------------
(***************************************************************************)
(* Generated SBOMs: the files under /data/sbom, their rows in              *)
(* sbom_results, and image_sbom_state, by which a request for an unchanged *)
(* image is refused (internal/scanner/sbom.go, the SBOM part of            *)
(* internal/scanner/db.go, the handlers of internal/api/scan_handlers.go   *)
(* and the sweep of NewScannerService).                                    *)
(*                                                                         *)
(* File and row are written and deleted one after the other, by            *)
(* goroutines that race with each other and that a crash can stop between  *)
(* any two steps.  A second goroutine of a generation streams the          *)
(* container's output into the file; it may still be on its way when the   *)
(* first has given up.                                                     *)
(*                                                                         *)
(* The removal of a file and the status "failed" after it are one step:    *)
(* nobody can tell them apart after a crash, which forgets all jobs.  Left *)
(* out: the components of an SBOM (they live and die with the row), error  *)
(* texts, the collection of old jobs (ScanJobs).                           *)
(*                                                                         *)
(* Operators marked "Fault" are plausible mistakes in the operator that    *)
(* follows them; no action uses them.                                      *)
(***************************************************************************)
EXTENDS Naturals

CONSTANTS
    Generations,    \* requests for an SBOM, and the ids of their results
    Images,         \* host, image reference and format
    ImageOf,        \* ImageOf[g]: what g asks for
    Deleters,       \* HTTP requests that delete a result
    MaxVersion      \* bound: how often an image reference moves

ASSUME ImageAssumption == ImageOf \in [Generations -> Images]
ASSUME VersionAssumption == MaxVersion \in Nat

VARIABLES
    version,    \* the image id each reference stands for
    files,      \* the files in sbomDir, by result id
    rows,       \* the ids in sbom_results
    state,      \* image_sbom_state
    pc,         \* where each request and its job stand
    known,      \* the image id the request, later the job, has looked up
    syft,       \* the Syft container of each job
    content,    \* the image id whose packages Syft has listed
    stream,     \* the goroutine that writes the file
    awaits,     \* the channels the job's select still waits for
    expired,    \* jobs whose context is past its deadline
    delete      \* where each deletion stands

database == <<rows, state>>
jobs == <<pc, known, awaits, expired>>
container == <<syft, content>>
vars == <<version, files, database, jobs, container, stream, delete>>

Unknown == 0    \* no image id
NoState == [id |-> "none", version |-> Unknown]

\* From StartSBOMGeneration to the end of runSBOMGeneration.
Running == {"preparing", "creating", "waiting", "storing", "completing"}
Over == {"refused", "failed", "complete", "lost"}

-----------------------------------------------------------------------------
Init ==
    /\ version = [i \in Images |-> 1]
    /\ files = [g \in Generations |-> "none"]
    /\ rows = {}
    /\ state = [i \in Images |-> NoState]
    /\ pc = [g \in Generations |-> "none"]
    /\ known = [g \in Generations |-> Unknown]
    /\ syft = [g \in Generations |-> "none"]
    /\ content = [g \in Generations |-> Unknown]
    /\ stream = [g \in Generations |-> "none"]
    /\ awaits = [g \in Generations |-> {}]
    /\ expired = {}
    /\ delete = [d \in Deleters |-> [pc |-> "idle", id |-> "none"]]

Goto(g, p) == pc' = [pc EXCEPT ![g] = p]

-----------------------------------------------------------------------------
(* The handler and its gate.                                               *)

\* A forced request passes the gate; an image id that cannot be looked up
\* does too.
Request(g) ==
    /\ pc[g] = "none"
    /\ \/ Goto(g, "preparing") /\ UNCHANGED known
       \/ Goto(g, "asking") /\ known' = [known EXCEPT ![g] = version[ImageOf[g]]]
    /\ UNCHANGED <<version, files, database, awaits, expired, container, stream, delete>>

CanRegenerateSBOM(i, v) == state[i].version # v

\* Also when the query fails the generation starts.
Gate(g) ==
    /\ pc[g] = "asking"
    /\ \/ Goto(g, "preparing")
       \/ ~CanRegenerateSBOM(ImageOf[g], known[g]) /\ Goto(g, "refused")
    /\ UNCHANGED <<version, files, database, known, awaits, expired, container, stream, delete>>

-----------------------------------------------------------------------------
(* runSBOMGeneration.                                                      *)

Inspect(g) ==
    /\ pc[g] = "preparing"
    /\ known' = [known EXCEPT ![g] = version[ImageOf[g]]]
    /\ Goto(g, "creating")
    /\ UNCHANGED <<version, files, database, awaits, expired, container, stream, delete>>

\* No client, no such host, a failed inspection, pull, volume or container.
GiveUp(g) ==
    /\ pc[g] \in {"preparing", "creating"}
    /\ Goto(g, "failed")
    /\ UNCHANGED <<version, files, database, known, awaits, expired, container, stream, delete>>

\* ContainerStart, then the goroutine that streams the output.
StartContainer(g) ==
    /\ pc[g] = "creating"
    /\ Goto(g, "waiting")
    /\ syft' = [syft EXCEPT ![g] = "running"]
    /\ stream' = [stream EXCEPT ![g] = "opening"]
    /\ awaits' = [awaits EXCEPT ![g] = {"exit", "stream"}]
    /\ UNCHANGED <<version, files, database, known, expired, content, delete>>

\* The timer of context.WithTimeout.
Expire(g) ==
    /\ pc[g] \in Running
    /\ g \notin expired
    /\ expired' = expired \cup {g}
    /\ UNCHANGED <<version, files, database, pc, known, awaits, container, stream, delete>>

\* os.Remove and the status "failed".
Discard(g) ==
    /\ files' = [files EXCEPT ![g] = "none"]
    /\ Goto(g, "failed")
    /\ UNCHANGED <<version, database, known, awaits, expired, container, stream, delete>>

SeeExit(g) ==
    /\ pc[g] = "waiting"
    /\ "exit" \in awaits[g]
    /\ syft[g] \in {"zero", "nonzero"}
    /\ awaits' = [awaits EXCEPT ![g] = @ \ {"exit"}]
    /\ UNCHANGED <<version, files, database, pc, known, expired, container, stream, delete>>

WaitFails(g) ==
    /\ pc[g] = "waiting"
    /\ "exit" \in awaits[g]
    /\ Discard(g)

SeeStream(g) ==
    /\ pc[g] = "waiting"
    /\ "stream" \in awaits[g]
    /\ \/ /\ stream[g] = "ok"
          /\ awaits' = [awaits EXCEPT ![g] = @ \ {"stream"}]
          /\ UNCHANGED <<version, files, database, pc, known, expired, container, stream, delete>>
       \/ stream[g] = "failed" /\ Discard(g)

\* Fault: takes the deadline for a cancellation.
TimedOutAsCancelled(g) ==
    /\ pc[g] = "waiting"
    /\ g \in expired
    /\ awaits[g] # {}
    /\ files' = [files EXCEPT ![g] = "none"]
    /\ Goto(g, "cancelled")
    /\ UNCHANGED <<version, database, known, awaits, expired, container, stream, delete>>

\* Fault: looks at the deadline only after the stream.
TimedOutAfterStream(g) ==
    /\ pc[g] = "waiting"
    /\ g \in expired
    /\ awaits[g] = {"exit"}
    /\ Discard(g)

\* The select's ctx.Done() case, wherever the streaming goroutine is.
TimedOut(g) ==
    /\ pc[g] = "waiting"
    /\ g \in expired
    /\ awaits[g] # {}
    /\ Discard(g)

\* Fault: trusts what can be parsed, whatever the exit code.
CheckParsedOnly(g) ==
    /\ pc[g] = "waiting"
    /\ awaits[g] = {}
    /\ \/ Discard(g)
       \/ /\ Goto(g, "storing")
          /\ UNCHANGED <<version, files, database, known, awaits, expired, container, stream, delete>>

\* The exit code, the parse and the stat; all may fail.
CheckOutput(g) ==
    /\ pc[g] = "waiting"
    /\ awaits[g] = {}
    /\ \/ Discard(g)
       \/ /\ syft[g] = "zero" /\ files[g] = "whole"
          /\ Goto(g, "storing")
          /\ UNCHANGED <<version, files, database, known, awaits, expired, container, stream, delete>>

\* Fault: looks the image id up again when it stores.
StoreCurrentVersion(g) ==
    /\ pc[g] = "storing"
    /\ \/ Discard(g)
       \/ /\ rows' = rows \cup {g}
          /\ state' = [state EXCEPT ![ImageOf[g]] = [id |-> g, version |-> version[ImageOf[g]]]]
          /\ Goto(g, "completing")
          /\ UNCHANGED <<version, files, known, awaits, expired, container, stream, delete>>

\* InsertSBOMResult: one transaction for the row and the image's state.
Store(g) ==
    /\ pc[g] = "storing"
    /\ \/ Discard(g)
       \/ /\ rows' = rows \cup {g}
          /\ state' = [state EXCEPT ![ImageOf[g]] = [id |-> g, version |-> known[g]]]
          /\ Goto(g, "completing")
          /\ UNCHANGED <<version, files, known, awaits, expired, container, stream, delete>>

Complete(g) ==
    /\ pc[g] = "completing"
    /\ Goto(g, "complete")
    /\ UNCHANGED <<version, files, database, known, awaits, expired, container, stream, delete>>

-----------------------------------------------------------------------------
(* streamLogs, in its own goroutine, whether the job still runs or not.    *)

\* O_CREATE|O_TRUNC, in a context that was alive when the logs were requested.
OpenFile(g) ==
    /\ stream[g] = "opening"
    /\ stream' = [stream EXCEPT ![g] = "writing"]
    /\ files' = [files EXCEPT ![g] = "partial"]
    /\ UNCHANGED <<version, database, jobs, container, delete>>

\* The log ends with the container.  A file that was removed stays removed.
EndStream(g) ==
    /\ stream[g] = "writing"
    /\ syft[g] \in {"zero", "nonzero"}
    /\ stream' = [stream EXCEPT ![g] = "ok"]
    /\ files' = [files EXCEPT ![g] =
                    IF @ = "partial" /\ syft[g] = "zero" THEN "whole" ELSE @]
    /\ UNCHANGED <<version, database, jobs, container, delete>>

\* An error of the log, the directory, the file or the copy, or text on stderr.
StreamFails(g) ==
    /\ stream[g] \in {"opening", "writing"}
    /\ stream' = [stream EXCEPT ![g] = "failed"]
    /\ UNCHANGED <<version, files, database, jobs, container, delete>>

-----------------------------------------------------------------------------
(* Docker: the image reference moves on, Syft reads the image and exits.   *)

Pull(i) ==
    /\ version[i] < MaxVersion
    /\ version' = [version EXCEPT ![i] = @ + 1]
    /\ UNCHANGED <<files, database, jobs, container, stream, delete>>

SyftReads(g) ==
    /\ syft[g] = "running"
    /\ syft' = [syft EXCEPT ![g] = "read"]
    /\ content' = [content EXCEPT ![g] = version[ImageOf[g]]]
    /\ UNCHANGED <<version, files, database, jobs, stream, delete>>

SyftExits(g) ==
    /\ \/ syft[g] = "read" /\ syft' = [syft EXCEPT ![g] = "zero"]
       \/ syft[g] \in {"running", "read"} /\ syft' = [syft EXCEPT ![g] = "nonzero"]
    /\ UNCHANGED <<version, files, database, jobs, content, stream, delete>>

-----------------------------------------------------------------------------
(* DeleteSBOMHistory: load the row, delete it, remove its file.            *)

Load(d, g) ==
    /\ delete[d].pc = "idle"
    /\ g \in rows
    /\ delete' = [delete EXCEPT ![d] = [pc |-> "deleting", id |-> g]]
    /\ UNCHANGED <<version, files, database, jobs, container, stream>>

\* Fault: forgets image_sbom_state.
DeleteRowOnly(d) ==
    /\ delete[d].pc = "deleting"
    /\ rows' = rows \ {delete[d].id}
    /\ delete' = [delete EXCEPT ![d].pc = "removing"]
    /\ UNCHANGED <<version, files, state, jobs, container, stream>>

\* One transaction; when it fails the request does.
DeleteSBOMResult(d) ==
    /\ delete[d].pc = "deleting"
    /\ \/ /\ rows' = rows \ {delete[d].id}
          /\ state' = [i \in Images |-> IF state[i].id = delete[d].id THEN NoState ELSE state[i]]
          /\ delete' = [delete EXCEPT ![d].pc = "removing"]
       \/ delete' = [delete EXCEPT ![d].pc = "idle"] /\ UNCHANGED database
    /\ UNCHANGED <<version, files, jobs, container, stream>>

\* An error is logged, and the file stays.
RemoveFile(d) ==
    /\ delete[d].pc = "removing"
    /\ \/ files' = [files EXCEPT ![delete[d].id] = "none"]
       \/ UNCHANGED files
    /\ delete' = [delete EXCEPT ![d].pc = "idle"]
    /\ UNCHANGED <<version, database, jobs, container, stream>>

-----------------------------------------------------------------------------
(* The server dies and starts again.                                       *)

\* Which files are older than a day, can be inspected and looked up is open.
\* Fault: does not ask the database.
SweepByAge ==
    \E old \in SUBSET Generations :
        files' = [g \in Generations |-> IF g \in old THEN "none" ELSE files[g]]

SweepOrphanSBOMs ==
    \E old \in SUBSET Generations :
        files' = [g \in Generations |-> IF g \in old \ rows THEN "none" ELSE files[g]]

\* NewScannerService sweeps before anybody can ask it for something.
Restart ==
    /\ SweepOrphanSBOMs
    /\ pc' = [g \in Generations |->
                IF pc[g] \in Running \cup {"asking"} THEN "lost" ELSE pc[g]]
    /\ stream' = [g \in Generations |-> "none"]
    /\ awaits' = [g \in Generations |-> {}]
    /\ expired' = {}
    /\ delete' = [d \in Deleters |-> [pc |-> "idle", id |-> "none"]]
    /\ UNCHANGED <<version, database, known, container>>

-----------------------------------------------------------------------------
JobStep(g) ==
    \/ Inspect(g)
    \/ GiveUp(g)
    \/ StartContainer(g)
    \/ SeeExit(g)
    \/ WaitFails(g)
    \/ SeeStream(g)
    \/ TimedOut(g)
    \/ CheckOutput(g)
    \/ Store(g)
    \/ Complete(g)

StreamStep(g) == OpenFile(g) \/ EndStream(g) \/ StreamFails(g)

DeleteStep(d) == DeleteSBOMResult(d) \/ RemoveFile(d)

Next ==
    \/ \E g \in Generations :
         \/ Request(g)
         \/ Gate(g)
         \/ JobStep(g)
         \/ Expire(g)
         \/ StreamStep(g)
         \/ SyftReads(g)
         \/ SyftExits(g)
    \/ \E i \in Images : Pull(i)
    \/ \E d \in Deleters : DeleteStep(d) \/ \E g \in Generations : Load(d, g)
    \/ Restart

Spec == Init /\ [][Next]_vars

\* Goroutines run and timers fire.  A Docker call whose context is done
\* returns, so the job goes on, but nothing is assumed of Docker itself.
Fairness == \A g \in Generations :
    /\ WF_vars(Expire(g))
    /\ WF_vars(JobStep(g))

FairSpec == Spec /\ Fairness

-----------------------------------------------------------------------------
TypeOK ==
    /\ version \in [Images -> Nat]
    /\ files \in [Generations -> {"none", "partial", "whole"}]
    /\ rows \subseteq Generations
    /\ state \in [Images -> [id : Generations \cup {"none"}, version : Nat]]
    /\ pc \in [Generations -> {"none", "asking"} \cup Running \cup Over]
    /\ known \in [Generations -> Nat]
    /\ syft \in [Generations -> {"none", "running", "read", "zero", "nonzero"}]
    /\ content \in [Generations -> Nat]
    /\ stream \in [Generations -> {"none", "opening", "writing", "ok", "failed"}]
    /\ awaits \in [Generations -> SUBSET {"exit", "stream"}]
    /\ expired \subseteq Generations
    /\ delete \in [Deleters -> [pc : {"idle", "deleting", "removing"},
                                id : Generations \cup {"none"}]]

(***************************************************************************)
(* Every SBOM in the history can be downloaded: its file is there and      *)
(* whole, through crashes, timeouts, late streams, deletions that race and *)
(* the sweep (sbom.go:198-241, scan_handlers.go:734-747, scanner.go:60).   *)
(***************************************************************************)
RowHasFile == \A g \in rows : files[g] = "whole"

(***************************************************************************)
(* A request is refused only for an SBOM that exists and lists the image   *)
(* as it is: the state of an image names a row of that image, and what     *)
(* Syft listed is not older than the image id recorded with it, although   *)
(* the id is looked up before the container reads the image               *)
(* (sbom.go:73, db.go:502-507, 570-575, 873-882).                          *)
(***************************************************************************)
StateIsFounded ==
    \A i \in Images : state[i] # NoState =>
        LET g == state[i].id
        IN  /\ g \in rows
            /\ ImageOf[g] = i
            /\ state[i].version <= content[g]
            /\ content[g] <= version[i]

(***************************************************************************)
(* Every generation comes to its final status, although its container may  *)
(* never exit and its stream never finish (sbom.go:129-163).  The removal  *)
(* of the container, which has no context, comes after it (sbom.go:102).   *)
(***************************************************************************)
GenerationsEnd == \A g \in Generations : pc[g] \in Running ~> pc[g] \in Over
=============================================================================
