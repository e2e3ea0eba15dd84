----------------------------- MODULE MCScanJobs -----------------------------
(* Model values and host assignments for checking ScanJobs.                *)
EXTENDS ScanJobs, TLC

CONSTANT h1

\* All images on one host, where they compete for its slots.
OneHost == [j \in Jobs |-> h1]

\* Sound for invariants and box properties: all jobs are on one host.
Symmetry == Permutations(Jobs) \cup Permutations(Cancellers) \cup Permutations(Bulks)
=============================================================================
