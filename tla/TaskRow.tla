------------------------------ MODULE TaskRow ------------------------------
(***************************************************************************)
(* A row of the tasks table and what each operation of the task service    *)
(* does to the copy of it that it has read.  The service never updates a   *)
(* task in place: it reads the row, checks it, builds a new row and writes *)
(* every column of it back, so an operation is a guard on a row and a      *)
(* function from rows to rows.                                             *)
(*                                                                         *)
(* Abstractions: free text (title, descriptions, resolution, the text of   *)
(* a reason or a summary) is reduced to whether it is present where the    *)
(* code tests that; a nullable timestamp is whether it is set; the four    *)
(* token counters, which are handled alike, are one.  The position of a    *)
(* task within its column, which no guard reads, is left out.              *)
(***************************************************************************)
EXTENDS Naturals

Columns == {"backlog", "todo", "in_progress", "done", "blocked"}

Row == [col           : Columns,
        isBlocked     : BOOLEAN,
        blockedReason : BOOLEAN,  \* blocked_reason is not empty
        wontDo        : BOOLEAN,  \* wont_do_requested
        startedAt     : BOOLEAN,  \* started_at is not NULL
        completedAt   : BOOLEAN,  \* completed_at is not NULL
        summary       : BOOLEAN,  \* completion_summary is not empty
        seenAt        : BOOLEAN,  \* seen_at is not NULL
        seenByHuman   : BOOLEAN,  \* a column only MarkTaskSeen writes
        session       : BOOLEAN,  \* session_id is not empty
        tokens        : Nat]

(* What CreateTask and BulkCreateTasks insert. *)
NewRow(c) ==
  [col |-> c, isBlocked |-> FALSE, blockedReason |-> FALSE, wontDo |-> FALSE,
   startedAt |-> FALSE, completedAt |-> FALSE, summary |-> FALSE,
   seenAt |-> FALSE, seenByHuman |-> FALSE, session |-> FALSE, tokens |-> 0]

(* What MoveTaskToProject inserts in the target project: the flags of the
   source row are dropped, its token counters are carried over. *)
TransferredRow(row) == [NewRow("todo") EXCEPT !.tokens = row.tokens]

---------------------------------------------------------------------------
(* UpdateTask and UpdateTaskFiles: any task, in any state. *)
Updated(row, usage) == [row EXCEPT !.tokens = row.tokens + usage]

(* Mutant: the won't-do request survives leaving the blocked column. *)
UnblockedPending(row) ==
  IF row.col = "blocked"
  THEN [row EXCEPT !.isBlocked = FALSE, !.blockedReason = FALSE]
  ELSE row

(* MoveTask first undoes what being in the blocked column means ... *)
Unblocked(row) ==
  IF row.col = "blocked"
  THEN [row EXCEPT !.isBlocked = FALSE, !.blockedReason = FALSE, !.wontDo = FALSE]
  ELSE row

(* ... and then asks for a blocked reason if the target is that column. *)
CanMove(row, target) == target = "blocked" => Unblocked(row).blockedReason

Moved(row, target) ==
  [Unblocked(row) EXCEPT
     !.col       = target,
     !.isBlocked = Unblocked(row).isBlocked \/ target = "blocked",
     !.startedAt = row.startedAt \/ target = "in_progress"]

(* Mutant: a completion is accepted in any column. *)
CanCompleteAnywhere(row, known) == TRUE

(* CompleteTask and RejectWontDo look the column of the row up twice and
   ignore the errors: if the board gives neither answer the column is not
   known, and is not checked. *)
CanComplete(row, known) == ~row.isBlocked /\ (known => row.col = "in_progress")

(* Mutant: the usage reported with the completion is dropped. *)
CompletedForFree(row, usage) ==
  [row EXCEPT !.col = "done", !.completedAt = TRUE, !.summary = TRUE]

Completed(row, usage) ==
  [row EXCEPT !.col = "done", !.completedAt = TRUE, !.summary = TRUE,
              !.tokens = row.tokens + usage]

CanBlock(row) == ~row.isBlocked

Blocked(row) ==
  [row EXCEPT !.col = "blocked", !.isBlocked = TRUE, !.blockedReason = TRUE]

CanUnblock(row) == row.col = "blocked"

CanRequestWontDo(row) == ~row.wontDo

WontDoRequested(row) ==
  [row EXCEPT !.col = "blocked", !.isBlocked = TRUE, !.wontDo = TRUE]

(* The column is not looked at, and the request itself stays on the row. *)
CanApproveWontDo(row) == row.wontDo

WontDoApproved(row) ==
  [row EXCEPT !.col = "done", !.isBlocked = FALSE, !.blockedReason = FALSE,
              !.completedAt = TRUE, !.summary = TRUE]

CanRejectWontDo(row, known) == row.wontDo /\ (known => row.col = "blocked")

WontDoRejected(row) ==
  [row EXCEPT !.col = "todo", !.isBlocked = FALSE, !.blockedReason = FALSE,
              !.wontDo = FALSE]

(* The two columns MarkTaskSeen sets, when seen_at is still NULL. *)
Seen(row) ==
  IF row.seenAt THEN row ELSE [row EXCEPT !.seenAt = TRUE, !.seenByHuman = TRUE]

(* An UPDATE by the task repository writes every column but seen_by_human. *)
WrittenOver(old, new) == [new EXCEPT !.seenByHuman = old.seenByHuman]

---------------------------------------------------------------------------
(* What a row must look like whichever operations produced it. *)

(* is_blocked says the same as the column ("1 when in blocked column"). *)
BlockedFlagIsColumn(row) == row.isBlocked <=> row.col = "blocked"

(* A blocked task says why: a reason, or a pending won't-do request; and a
   reason never outlives the blocked state, else MoveTask would let the
   task back into the blocked column without one. *)
BlockedHasCause(row) ==
  /\ row.col = "blocked" => row.blockedReason \/ row.wontDo
  /\ row.blockedReason => row.col = "blocked"

(* A task in progress has a start time, from which its duration is computed. *)
InProgressIsStarted(row) == row.col = "in_progress" => row.startedAt

(* completed_at and the completion summary come together, and a won't-do
   flag outside the blocked column belongs to a task that was completed. *)
CompletionIsWhole(row) ==
  /\ row.completedAt <=> row.summary
  /\ row.wontDo /\ row.col # "blocked" => row.completedAt

RowConsistent(row) ==
  /\ BlockedFlagIsColumn(row)
  /\ BlockedHasCause(row)
  /\ InProgressIsStarted(row)
  /\ CompletionIsWhole(row)
=============================================================================
