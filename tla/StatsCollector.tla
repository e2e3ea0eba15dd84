--------------------------- MODULE StatsCollector ---------------------------
(***************************************************************************)
(* The stored samples of container statistics: who writes them and who     *)
(* removes them.  Where alerts are disabled the collector of               *)
(* internal/containerstats samples all hosts; where they are enabled the   *)
(* alert monitor does, in the second half of its round (see AlertMonitor), *)
(* with a copy of the same pruning.  The difference that matters: the      *)
(* collector leases the Docker client, the monitor does not.               *)
(*                                                                         *)
(* Time is the age of things, up to the age at which nothing changes any   *)
(* more, so the clock has no bound.  A sample is its age.                  *)
(*                                                                         *)
(* Operators marked "Fault" are plausible mistakes in the operator that    *)
(* follows them; no action uses them.                                      *)
(***************************************************************************)
EXTENDS Naturals

CONSTANTS
    Retention, \* how long samples are kept
    PruneEvery \* how long between two prunes: an hour

TimeAssumption == Retention \in Nat \ {0} /\ PruneEvery \in Nat \ {0}

VARIABLES
    sampler,  \* who samples: "collector" or "monitor"
    loop,     \* where its goroutine stands
    closed,   \* stopCh
    waits,    \* Stop waits for the goroutine
    leased,   \* the lease of this round
    samples,  \* ages of the samples in container_stats
    lastPrune \* age of the last prune that succeeded

vars == <<sampler, loop, closed, waits, leased, samples, lastPrune>>

Old == Retention + 1
Never == PruneEvery + 1 \* the zero time
Ages == 0..Old

Init ==
    /\ sampler \in {"collector", "monitor"}
    /\ loop = "waiting"
    /\ closed = FALSE
    /\ waits = FALSE
    /\ leased = FALSE
    /\ samples \in SUBSET Ages
    /\ lastPrune = Never

-----------------------------------------------------------------------------
(* The loop.  When the ticker and stopCh are both ready, select takes any. *)

BeginRound ==
    /\ loop = "waiting"
    /\ loop' = "sampling"
    /\ leased' = (sampler = "collector")
    /\ UNCHANGED <<sampler, closed, waits, samples, lastPrune>>

\* A host that fails is skipped, and so is a sample that is not stored.
SampleHosts ==
    /\ loop = "sampling"
    /\ loop' = "pruning"
    /\ samples' \in {samples, samples \cup {0}}
    /\ UNCHANGED <<sampler, closed, waits, leased, lastPrune>>

\* Fault: only when there has been no prune since the start.
DueOnce == lastPrune = Never

Due == lastPrune >= PruneEvery

\* collectOnce returns its lease, whatever it did.
EndRound(age, kept) ==
    /\ loop = "pruning"
    /\ loop' = "waiting"
    /\ leased' = FALSE
    /\ lastPrune' = age
    /\ samples' = kept
    /\ UNCHANGED <<sampler, closed, waits>>

PruneContainerStats == Due /\ EndRound(0, {a \in samples : a <= Retention})
PruneFails == Due /\ EndRound(lastPrune, samples)
NothingDue == ~Due /\ EndRound(lastPrune, samples)

End ==
    /\ loop = "waiting"
    /\ closed
    /\ loop' = "ended"
    /\ UNCHANGED <<sampler, closed, waits, leased, samples, lastPrune>>

-----------------------------------------------------------------------------
(* main's deferred Stop, and the clock.                                    *)

Stop ==
    /\ ~closed
    /\ closed' = TRUE
    /\ waits' = TRUE
    /\ UNCHANGED <<sampler, loop, leased, samples, lastPrune>>

StopReturns ==
    /\ waits
    /\ loop = "ended"
    /\ waits' = FALSE
    /\ UNCHANGED <<sampler, loop, closed, leased, samples, lastPrune>>

Tick ==
    /\ samples' = {IF a < Old THEN a + 1 ELSE Old : a \in samples}
    /\ lastPrune' = IF lastPrune < PruneEvery THEN lastPrune + 1 ELSE lastPrune
    /\ UNCHANGED <<sampler, loop, closed, waits, leased>>

-----------------------------------------------------------------------------
Round == BeginRound \/ SampleHosts \/ PruneFails \/ NothingDue

Next == Round \/ PruneContainerStats \/ End \/ Stop \/ StopReturns \/ Tick

Spec == Init /\ [][Next]_vars

\* Time passes, the goroutine runs, and a select that finds stopCh closed again
\* and again takes it.  The database answers from time to time: a prune that is
\* tried again and again succeeds.
Fairness ==
    /\ WF_vars(Tick)
    /\ WF_vars(Round)
    /\ SF_vars(PruneContainerStats)
    /\ SF_vars(End)
    /\ WF_vars(StopReturns)

FairSpec == Spec /\ Fairness

-----------------------------------------------------------------------------
TypeOK ==
    /\ sampler \in {"collector", "monitor"}
    /\ loop \in {"waiting", "sampling", "pruning", "ended"}
    /\ closed \in BOOLEAN
    /\ waits \in BOOLEAN
    /\ leased \in BOOLEAN
    /\ samples \subseteq Ages
    /\ lastPrune \in 0..Never

(***************************************************************************)
(* The table of samples does not grow for ever: what is older than the     *)
(* retention goes, in either mode, although prunes fail, as long as the    *)
(* server is not shut down (collector.go:101-107, monitor.go:260-266).     *)
(***************************************************************************)
OldSamplesGo == Old \in samples ~> (Old \notin samples \/ closed)

(***************************************************************************)
(* The shutdown waits for the round under way and no longer                *)
(* (collector.go:52-60), and the goroutine keeps no lease                  *)
(* (collector.go:79-84).                                                   *)
(***************************************************************************)
StopEnds == waits ~> (~waits /\ ~leased)

SamplesComeAndGo == OldSamplesGo /\ StopEnds
=============================================================================
