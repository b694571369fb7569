----------------------------- MODULE MCJobQueue -----------------------------
(***************************************************************************)
(* Instances of JobQueue for TLC.                                          *)
(***************************************************************************)
EXTENDS JobQueue, TLC

CONSTANTS j1, j2, w1, w2, k1, none

TwoJobs == {j1, j2}
OneJob == {j1}
TwoWorkers == {w1, w2}
OneKey == {k1}
NoRows == {}
SecondRow == {j2}
NoKeys == {}

\* both rows carry the same idempotency key, or none does
SameKey == [j \in Jobs |-> k1]
Keyless == [j \in Jobs |-> none]

WorkerSymmetry == Permutations({w1, w2})
JobSymmetry == Permutations({j1, j2}) \cup WorkerSymmetry
=============================================================================
