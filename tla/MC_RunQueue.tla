---------------------------- MODULE MC_RunQueue -----------------------------
(* Small instances of RunQueue: few rows, people and workers, enough for a  *)
(* row to be shared, claimed late, lost, cancelled late and deleted.        *)
EXTENDS RunQueue, TLC

CONSTANTS u1, u2, w1, w2, f1, f2

TwoRuns == 1..2
SymmetricRequests == Permutations({u1, u2}) \cup Permutations({f1, f2})
SymmetricFingerprints == Permutations({f1, f2})
=============================================================================
