---------------------------- MODULE MCTaskBoard ----------------------------
(***************************************************************************)
(* Constants of TaskBoard for model checking: the operations clients use   *)
(* in each run, and the symmetry of task ids and requests.                 *)
(***************************************************************************)
EXTENDS TaskBoard, TLC

CONSTANTS t1, t2, t3, t4, r1, r2

OneTask    == {t1}
TwoTasks   == {t1, t2}
FourTasks  == {t1, t2, t3, t4}
NoTask     == {}

OneRequest  == {r1}
TwoRequests == {r1, r2}

(* Whatever writes the row of a task. *)
RowOperations ==
  {"update", "move", "complete", "block", "unblock", "wont_do", "approve", "reject",
   "session"}

SequentialOperations == AllOperations \ {"seen", "session"}

(* What decides whether a task exists, in which project, and what it is
   joined to; and what touches a task without changing its status. *)
ExistenceOperations ==
  {"update", "seen", "transfer", "delete", "add_dependency"}

ReportOperations == {"update", "block"}


(* Every task id is like every other, and every request like every other. *)
RequestSymmetry == Permutations(TwoRequests)
=============================================================================
