--------------------------- MODULE MCTaskScheduler ---------------------------
(* The tasks of the run of TaskScheduler: six, so that an element moved    *)
(* into a gap in one branch of the heap may come from another branch and   *)
(* belong further up.                                                      *)
EXTENDS TaskScheduler, TLC

CONSTANTS t1, t2, t3, t4, t5, t6

SixTasks == {t1, t2, t3, t4, t5, t6}
Symmetry == Permutations(SixTasks)
=============================================================================
