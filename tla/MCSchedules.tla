---------------------------- MODULE MCSchedules ----------------------------
(* Instances of Schedules for TLC. *)
EXTENDS Schedules, TLC

CONSTANTS t1, t2, acc, w1, w2

OneAccount == [t \in Tasks |-> acc]
WorkerSymmetry == Permutations(Workers)
=============================================================================
