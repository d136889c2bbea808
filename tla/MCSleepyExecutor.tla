-------------------------- MODULE MCSleepyExecutor --------------------------
(* Model-checking instance of SleepyExecutor. *)
EXTENDS SleepyExecutor, TLC

TaskSymmetry == Permutations(Tasks)
=============================================================================
