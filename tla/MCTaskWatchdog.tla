--------------------------- MODULE MCTaskWatchdog ---------------------------
(* Model-checking instance of TaskWatchdog: 3 configurations (plain, with   *)
(* retries and a bounded setup phase, with an unbounded one).               *)
EXTENDS TaskWatchdog, TLC

MCConfigs ==
    {[timeout |-> 2, retries |-> 0, setup |-> None],
     [timeout |-> 1, retries |-> 1, setup |-> 3],
     [timeout |-> 1, retries |-> 9, setup |-> Unbounded]}

IdSymmetry == Permutations(Ids)
=============================================================================
