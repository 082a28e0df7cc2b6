----------------------------- MODULE MCService -----------------------------
(* Small instances of Service for TLC, with the count of lost jobs: one    *)
(* worker or two, a photo, and one that cannot be decoded (jobs are told   *)
(* apart by their ids).                                                    *)
EXTENDS ServiceLoss, TLC

CONSTANTS w1, w2, a, corrupt

\* Worker tasks are interchangeable.
WorkerSymmetry == Permutations({w1, w2})
=============================================================================
