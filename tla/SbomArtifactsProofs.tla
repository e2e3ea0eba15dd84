------------------------- MODULE SbomArtifactsProofs -------------------------
(***************************************************************************)
(* Proofs about SbomArtifacts for any number of images, generations and    *)
(* deletions.                                                              *)
(*                                                                         *)
(* A row keeps its file because the three hands that can touch the file    *)
(* are away from it: the streaming goroutine has finished (the job waits   *)
(* for it), a deletion removes the file only after the row, and the sweep  *)
(* asks the database.  A refusal is founded because the image id is looked *)
(* up before the container exists that reads the image, and image          *)
(* references only move forward.                                           *)
(***************************************************************************)
EXTENDS SbomArtifacts, TLAPS

\* A job past its row, and one that the server's death has stopped somewhere.
Settled == {"completing", "complete", "lost"}

\* The job goes on only after the stream has ended well, and stores a file that
\* is whole.
StreamInv == \A g \in Generations :
    /\ pc[g] = "waiting" /\ "stream" \notin awaits[g] => stream[g] = "ok"
    /\ pc[g] = "storing" => stream[g] = "ok" /\ files[g] = "whole"

\* Nobody writes or removes the file of a row.
RowInv ==
    /\ \A g \in rows :
         /\ files[g] = "whole"
         /\ pc[g] \in Settled
         /\ stream[g] \in {"ok", "none"}
    /\ \A d \in Deleters : delete[d].pc # "idle" =>
         /\ delete[d].id \in Generations
         /\ pc[delete[d].id] \in Settled
         /\ delete[d].pc = "removing" => delete[d].id \notin rows

\* What is known of an image is not newer than what Syft then reads.
VersionInv == \A g \in Generations :
    /\ known[g] <= version[ImageOf[g]]
    /\ content[g] <= version[ImageOf[g]]
    /\ pc[g] \in {"none", "asking", "preparing", "creating"} => syft[g] = "none"
    /\ pc[g] = "storing" \/ g \in rows => syft[g] = "zero"
    /\ syft[g] \in {"read", "zero"} => known[g] <= content[g]

IInv == TypeOK /\ StreamInv /\ RowInv /\ VersionInv /\ StateIsFounded

-----------------------------------------------------------------------------
\* The empty history satisfies the invariant.
LEMMA InitIInv == Init => IInv
  BY ImageAssumption DEF Init, IInv, TypeOK, StreamInv, RowInv, VersionInv, StateIsFounded,
     NoState, Unknown, Running, Over

\* Every step keeps the types.
LEMMA StepKeepsType == TypeOK /\ [Next]_vars => TypeOK'
<1> SUFFICES ASSUME TypeOK, [Next]_vars PROVE TypeOK'
  OBVIOUS
<1> USE ImageAssumption, VersionAssumption DEF TypeOK, Running, Over, Goto, database, jobs, container
<1>1. CASE UNCHANGED vars
  BY <1>1 DEF vars
<1>2. ASSUME NEW g \in Generations, Request(g) \/ Gate(g) \/ Expire(g) PROVE TypeOK'
  BY <1>2 DEF Request, Gate, Expire
<1>3. ASSUME NEW g \in Generations, Discard(g) PROVE TypeOK'
  BY <1>3 DEF Discard
<1>4. ASSUME NEW g \in Generations, JobStep(g) PROVE TypeOK'
  <2>1. CASE Inspect(g)
    BY <2>1 DEF Inspect
  <2>2. CASE GiveUp(g)
    BY <2>2 DEF GiveUp
  <2>9. CASE SeeExit(g)
    BY <2>9 DEF SeeExit
  <2>8. CASE StartContainer(g)
    BY <2>8 DEF StartContainer
  <2>3. CASE WaitFails(g) \/ TimedOut(g)
    BY <2>3, <1>3 DEF WaitFails, TimedOut
  <2>4. CASE SeeStream(g)
    BY <2>4, <1>3 DEF SeeStream
  <2>5. CASE CheckOutput(g) \/ Complete(g)
    BY <2>5, <1>3 DEF CheckOutput, Complete
  <2>6. CASE Store(g)
    <3>1. CASE Discard(g)
      BY <3>1, <1>3
    <3>2. CASE ~Discard(g)
      <4>1. [id |-> g, version |-> known[g]] \in [id : Generations \cup {"none"}, version : Nat]
        OBVIOUS
      <4>2. state' \in [Images -> [id : Generations \cup {"none"}, version : Nat]]
        BY <2>6, <3>2, <4>1 DEF Store
      <4>3. QED
        BY <2>6, <3>2, <4>2 DEF Store
    <3>3. QED
      BY <3>1, <3>2
  <2>7. QED
    BY <1>4, <2>1, <2>2, <2>3, <2>4, <2>5, <2>6, <2>8, <2>9 DEF JobStep
<1>5. ASSUME NEW g \in Generations, StreamStep(g) PROVE TypeOK'
  <2>1. CASE OpenFile(g)
    BY <2>1 DEF OpenFile
  <2>2. CASE EndStream(g)
    BY <2>2 DEF EndStream
  <2>3. CASE StreamFails(g)
    BY <2>3 DEF StreamFails
  <2>4. QED
    BY <1>5, <2>1, <2>2, <2>3 DEF StreamStep
<1>6. ASSUME NEW g \in Generations, SyftReads(g) \/ SyftExits(g) PROVE TypeOK'
  <2>1. CASE SyftReads(g)
    BY <2>1 DEF SyftReads
  <2>2. CASE SyftExits(g)
    BY <2>2 DEF SyftExits
  <2>3. QED
    BY <1>6, <2>1, <2>2
<1>7. ASSUME NEW i \in Images, Pull(i) PROVE TypeOK'
  BY <1>7 DEF Pull
<1>8. ASSUME NEW d \in Deleters, DeleteStep(d) \/ \E g \in Generations : Load(d, g) PROVE TypeOK'
  <2>1. CASE DeleteSBOMResult(d)
    <3>1. NoState \in [id : Generations \cup {"none"}, version : Nat]
      BY DEF NoState, Unknown
    <3>2. state' \in [Images -> [id : Generations \cup {"none"}, version : Nat]]
      BY <2>1, <3>1 DEF DeleteSBOMResult
    <3>3. QED
      BY <2>1, <3>2 DEF DeleteSBOMResult
  <2>2. CASE RemoveFile(d)
    <3>1. /\ \/ files' = [files EXCEPT ![delete[d].id] = "none"]
             \/ files' = files
          /\ delete' = [delete EXCEPT ![d] = [@ EXCEPT !.pc = "idle"]]
          /\ UNCHANGED <<version, database, jobs, container, stream>>
      BY <2>2, SMTT(30) DEF RemoveFile
    <3>2. files' \in [Generations -> {"none", "partial", "whole"}]
      <4> HIDE DEF TypeOK
      <4>1. files \in [Generations -> {"none", "partial", "whole"}]
        BY DEF TypeOK
      <4>2. QED
        BY <3>1, <4>1
    <3>3. delete' \in [Deleters -> [pc : {"idle", "deleting", "removing"},
                                    id : Generations \cup {"none"}]]
      <4> HIDE DEF TypeOK
      <4>1. delete \in [Deleters -> [pc : {"idle", "deleting", "removing"},
                                     id : Generations \cup {"none"}]]
        BY DEF TypeOK
      <4>2. [delete[d] EXCEPT !.pc = "idle"]
               \in [pc : {"idle", "deleting", "removing"}, id : Generations \cup {"none"}]
        BY <4>1
      <4>3. QED
        BY <3>1, <4>1, <4>2
    <3>4. QED
      BY <3>1, <3>2, <3>3, SMTT(30)
  <2>3. CASE \E g \in Generations : Load(d, g)
    BY <2>3 DEF Load
  <2>4. QED
    BY <1>8, <2>1, <2>2, <2>3 DEF DeleteStep
<1>9. CASE Restart
  BY <1>9 DEF Restart, SweepOrphanSBOMs
<1>10. QED
  BY <1>1, <1>2, <1>4, <1>5, <1>6, <1>7, <1>8, <1>9 DEF Next

-----------------------------------------------------------------------------
\* The stream has ended well wherever the job has gone on.
LEMMA StepKeepsStream == TypeOK /\ RowInv /\ StreamInv /\ [Next]_vars => StreamInv'
<1> SUFFICES ASSUME TypeOK, RowInv, StreamInv, [Next]_vars PROVE StreamInv'
  OBVIOUS
<1> USE DEF TypeOK, StreamInv, Goto, database, jobs, container
<1>1. CASE UNCHANGED vars
  BY <1>1 DEF vars
<1>2. ASSUME NEW g \in Generations, Request(g) \/ Gate(g) \/ Expire(g) PROVE StreamInv'
  BY <1>2 DEF Request, Gate, Expire
<1>3. ASSUME NEW g \in Generations, Discard(g) PROVE StreamInv'
  BY <1>3 DEF Discard
<1>4. ASSUME NEW g \in Generations, JobStep(g) PROVE StreamInv'
  <2>1. CASE Inspect(g) \/ GiveUp(g) \/ Complete(g)
    BY <2>1 DEF Inspect, GiveUp, Complete
  <2>2. CASE StartContainer(g)
    BY <2>2 DEF StartContainer
  <2>3. CASE SeeExit(g)
    BY <2>3 DEF SeeExit
  <2>4. CASE WaitFails(g) \/ TimedOut(g)
    BY <2>4, <1>3 DEF WaitFails, TimedOut
  <2>5. CASE SeeStream(g)
    BY <2>5, <1>3 DEF SeeStream
  <2>6. CASE CheckOutput(g)
    BY <2>6, <1>3 DEF CheckOutput
  <2>7. CASE Store(g)
    BY <2>7, <1>3 DEF Store
  <2>8. QED
    BY <1>4, <2>1, <2>2, <2>3, <2>4, <2>5, <2>6, <2>7 DEF JobStep
<1>5. ASSUME NEW g \in Generations, StreamStep(g) PROVE StreamInv'
  BY <1>5 DEF StreamStep, OpenFile, EndStream, StreamFails
<1>6. ASSUME NEW g \in Generations, SyftReads(g) \/ SyftExits(g) PROVE StreamInv'
  BY <1>6 DEF SyftReads, SyftExits
<1>7. ASSUME NEW i \in Images, Pull(i) PROVE StreamInv'
  BY <1>7 DEF Pull
<1>8. ASSUME NEW d \in Deleters, DeleteStep(d) \/ \E g \in Generations : Load(d, g)
      PROVE  StreamInv'
  <2>1. CASE DeleteSBOMResult(d) \/ \E g \in Generations : Load(d, g)
    BY <2>1 DEF DeleteSBOMResult, Load
  <2>2. CASE RemoveFile(d)
    BY <2>2 DEF RemoveFile, RowInv, Settled
  <2>3. QED
    BY <1>8, <2>1, <2>2 DEF DeleteStep
<1>9. CASE Restart
  BY <1>9 DEF Restart, SweepOrphanSBOMs, Running
<1>10. QED
  BY <1>1, <1>2, <1>4, <1>5, <1>6, <1>7, <1>8, <1>9 DEF Next

\* The file of a row is out of everybody's reach.
LEMMA StepKeepsRows == TypeOK /\ StreamInv /\ RowInv /\ [Next]_vars => RowInv'
<1> SUFFICES ASSUME TypeOK, StreamInv, RowInv, [Next]_vars PROVE RowInv'
  OBVIOUS
<1> USE DEF TypeOK, RowInv, Settled, Goto, database, jobs, container
<1>1. CASE UNCHANGED vars
  BY <1>1 DEF vars
<1>2. ASSUME NEW g \in Generations, Request(g) \/ Gate(g) \/ Expire(g) PROVE RowInv'
  BY <1>2 DEF Request, Gate, Expire
<1>3. ASSUME NEW g \in Generations, Discard(g), pc[g] \notin Settled PROVE RowInv'
  BY <1>3 DEF Discard
<1>4. ASSUME NEW g \in Generations, JobStep(g) PROVE RowInv'
  <2>1. CASE Inspect(g) \/ GiveUp(g) \/ Complete(g)
    BY <2>1 DEF Inspect, GiveUp, Complete
  <2>2. CASE StartContainer(g)
    BY <2>2 DEF StartContainer
  <2>3. CASE SeeExit(g)
    BY <2>3 DEF SeeExit
  <2>4. CASE WaitFails(g) \/ TimedOut(g)
    BY <2>4, <1>3 DEF WaitFails, TimedOut
  <2>5. CASE SeeStream(g)
    BY <2>5, <1>3 DEF SeeStream
  <2>6. CASE CheckOutput(g)
    BY <2>6, <1>3 DEF CheckOutput
  <2>7. CASE Store(g)
    <3>1. CASE Discard(g)
      BY <2>7, <3>1, <1>3 DEF Store
    <3>2. CASE ~Discard(g)
      BY <2>7, <3>2 DEF Store, StreamInv
    <3>3. QED
      BY <3>1, <3>2
  <2>8. QED
    BY <1>4, <2>1, <2>2, <2>3, <2>4, <2>5, <2>6, <2>7 DEF JobStep
<1>5. ASSUME NEW g \in Generations, StreamStep(g) PROVE RowInv'
  BY <1>5 DEF StreamStep, OpenFile, EndStream, StreamFails
<1>6. ASSUME NEW g \in Generations, SyftReads(g) \/ SyftExits(g) PROVE RowInv'
  BY <1>6 DEF SyftReads, SyftExits
<1>7. ASSUME NEW i \in Images, Pull(i) PROVE RowInv'
  BY <1>7 DEF Pull
<1>8. ASSUME NEW d \in Deleters, DeleteStep(d) \/ \E g \in Generations : Load(d, g)
      PROVE  RowInv'
  <2>1. CASE DeleteSBOMResult(d)
    <3>1. /\ rows' \subseteq rows
          /\ UNCHANGED <<files, pc, stream>>
          /\ \A e \in Deleters : e # d => delete'[e] = delete[e]
          /\ delete[d].pc = "deleting"
          /\ delete'[d].id = delete[d].id
          /\ delete'[d].pc = "removing" => delete[d].id \notin rows'
      BY <2>1 DEF DeleteSBOMResult
    <3>2. QED
      BY <3>1
  <2>2. CASE RemoveFile(d)
    BY <2>2 DEF RemoveFile
  <2>3. ASSUME NEW g \in Generations, Load(d, g) PROVE RowInv'
    BY <2>3 DEF Load
  <2>4. QED
    BY <1>8, <2>1, <2>2, <2>3 DEF DeleteStep
<1>9. CASE Restart
  BY <1>9 DEF Restart, SweepOrphanSBOMs, Running
<1>10. QED
  BY <1>1, <1>2, <1>4, <1>5, <1>6, <1>7, <1>8, <1>9 DEF Next

\* Looked up first, read afterwards.
LEMMA StepKeepsVersions == TypeOK /\ RowInv /\ VersionInv /\ [Next]_vars => VersionInv'
<1> SUFFICES ASSUME TypeOK, RowInv, VersionInv, [Next]_vars PROVE VersionInv'
  OBVIOUS
<1> USE ImageAssumption DEF TypeOK, VersionInv, Goto, database, jobs, container
<1>1. CASE UNCHANGED vars
  BY <1>1 DEF vars
<1>2. ASSUME NEW g \in Generations, Request(g) \/ Gate(g) \/ Expire(g) PROVE VersionInv'
  BY <1>2 DEF Request, Gate, Expire
<1>3. ASSUME NEW g \in Generations, Discard(g) PROVE VersionInv'
  BY <1>3 DEF Discard
<1>4. ASSUME NEW g \in Generations, JobStep(g) PROVE VersionInv'
  <2>1. CASE Inspect(g)
    BY <2>1 DEF Inspect
  <2>9. CASE GiveUp(g) \/ Complete(g)
    BY <2>9 DEF GiveUp, Complete
  <2>2. CASE StartContainer(g)
    BY <2>2, VersionAssumption DEF StartContainer
  <2>3. CASE SeeExit(g)
    BY <2>3 DEF SeeExit
  <2>4. CASE WaitFails(g) \/ TimedOut(g)
    BY <2>4, <1>3 DEF WaitFails, TimedOut
  <2>5. CASE SeeStream(g)
    BY <2>5, <1>3 DEF SeeStream
  <2>6. CASE CheckOutput(g)
    BY <2>6, <1>3 DEF CheckOutput
  <2>7. CASE Store(g)
    BY <2>7, <1>3 DEF Store
  <2>8. QED
    BY <1>4, <2>1, <2>2, <2>3, <2>4, <2>5, <2>6, <2>7, <2>9 DEF JobStep
<1>5. ASSUME NEW g \in Generations, StreamStep(g) PROVE VersionInv'
  BY <1>5 DEF StreamStep, OpenFile, EndStream, StreamFails
<1>6. ASSUME NEW g \in Generations, SyftReads(g) \/ SyftExits(g) PROVE VersionInv'
  <2>1. CASE SyftReads(g)
    BY <2>1 DEF SyftReads
  <2>2. CASE SyftExits(g)
    BY <2>2 DEF SyftExits
  <2>3. QED
    BY <1>6, <2>1, <2>2
<1>7. ASSUME NEW i \in Images, Pull(i) PROVE VersionInv'
  BY <1>7 DEF Pull
<1>8. ASSUME NEW d \in Deleters, DeleteStep(d) \/ \E g \in Generations : Load(d, g)
      PROVE  VersionInv'
  BY <1>8 DEF DeleteStep, DeleteSBOMResult, RemoveFile, Load
<1>9. CASE Restart
  BY <1>9 DEF Restart, SweepOrphanSBOMs, Running
<1>10. QED
  BY <1>1, <1>2, <1>4, <1>5, <1>6, <1>7, <1>8, <1>9 DEF Next

\* The state of an image changes with its rows, and what its row lists does not.
LEMMA StepKeepsState == TypeOK /\ VersionInv /\ StateIsFounded /\ [Next]_vars => StateIsFounded'
<1> SUFFICES ASSUME TypeOK, VersionInv, StateIsFounded, [Next]_vars PROVE StateIsFounded'
  OBVIOUS
<1> USE ImageAssumption DEF TypeOK, StateIsFounded, Goto, database, jobs, container
<1>1. ASSUME UNCHANGED <<version, rows, state, content>> PROVE StateIsFounded'
  BY <1>1
<1>2. ASSUME NEW g \in Generations, Request(g) \/ Gate(g) \/ Expire(g) \/ Discard(g)
      PROVE  UNCHANGED <<version, rows, state, content>>
  BY <1>2 DEF Request, Gate, Expire, Discard
<1>3. ASSUME NEW g \in Generations, JobStep(g) PROVE StateIsFounded'
  <2>1. CASE Inspect(g) \/ GiveUp(g) \/ StartContainer(g) \/ SeeExit(g) \/ Complete(g)
    BY <2>1, <1>1 DEF Inspect, GiveUp, StartContainer, SeeExit, Complete
  <2>2. CASE WaitFails(g) \/ TimedOut(g) \/ SeeStream(g) \/ CheckOutput(g)
    BY <2>2, <1>1, <1>2 DEF WaitFails, TimedOut, SeeStream, CheckOutput
  <2>3. CASE Store(g)
    <3>1. CASE Discard(g)
      BY <3>1, <1>1, <1>2
    <3>2. CASE ~Discard(g)
      <4>1. known[g] <= content[g] /\ content[g] <= version[ImageOf[g]]
        BY <2>3 DEF Store, VersionInv
      <4>2. QED
        BY <2>3, <3>2, <4>1 DEF Store
    <3>3. QED
      BY <3>1, <3>2
  <2>4. QED
    BY <1>3, <2>1, <2>2, <2>3 DEF JobStep
<1>4. ASSUME NEW g \in Generations, StreamStep(g) \/ SyftExits(g) PROVE StateIsFounded'
  BY <1>4, <1>1 DEF StreamStep, OpenFile, EndStream, StreamFails, SyftExits
<1>5. ASSUME NEW g \in Generations, SyftReads(g) PROVE StateIsFounded'
  BY <1>5 DEF SyftReads, VersionInv
<1>6. ASSUME NEW i \in Images, Pull(i) PROVE StateIsFounded'
  BY <1>6 DEF Pull
<1>7. ASSUME NEW d \in Deleters, DeleteStep(d) \/ \E g \in Generations : Load(d, g)
      PROVE  StateIsFounded'
  <2>1. CASE RemoveFile(d) \/ \E g \in Generations : Load(d, g)
    BY <2>1, <1>1 DEF RemoveFile, Load
  <2>2. CASE DeleteSBOMResult(d)
    BY <2>2 DEF DeleteSBOMResult
  <2>3. QED
    BY <1>7, <2>1, <2>2 DEF DeleteStep
<1>8. CASE Restart \/ UNCHANGED vars
  BY <1>8, <1>1 DEF Restart, vars
<1>9. QED
  BY <1>1, <1>2, <1>3, <1>4, <1>5, <1>6, <1>7, <1>8 DEF Next

-----------------------------------------------------------------------------
\* The invariant holds in every state a behaviour reaches.
THEOREM Invariance == Spec => []IInv
<1>1. IInv /\ [Next]_vars => IInv'
  BY StepKeepsType, StepKeepsStream, StepKeepsRows, StepKeepsVersions, StepKeepsState DEF IInv
<1>2. QED
  BY <1>1, InitIInv, PTL DEF Spec

\* Files, rows, states and positions keep their types.
THEOREM TypeCorrect == Spec => []TypeOK
<1>1. IInv => TypeOK
  BY DEF IInv
<1>2. QED
  BY <1>1, Invariance, PTL

\* Every row has its whole file, through crashes, timeouts, racing deletions and
\* the sweep (sbom.go:198-241, scan_handlers.go:734-747, scanner.go:60-98).
THEOREM RowsHaveFiles == Spec => []RowHasFile
<1>1. IInv => RowHasFile
  BY DEF IInv, RowInv, RowHasFile
<1>2. QED
  BY <1>1, Invariance, PTL

\* A request is refused only for an SBOM that exists and lists the image as it
\* is (db.go:502-507, 570-575, 873-882).
THEOREM RefusalsAreFounded == Spec => []StateIsFounded
<1>1. IInv => StateIsFounded
  BY DEF IInv
<1>2. QED
  BY <1>1, Invariance, PTL
=============================================================================
