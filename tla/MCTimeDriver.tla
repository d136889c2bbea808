---------------------------- MODULE MCTimeDriver ----------------------------
(* Model-checking instance of TimeDriver: tasks are interchangeable in the *)
(* safety properties.                                                      *)
EXTENDS TimeDriver, TLC

TaskSymmetry == Permutations(Tasks)
=============================================================================
