----------------------------- MODULE TaskBoard -----------------------------
(***************************************************************************)
(* The task board of the server: the tasks and task_dependencies tables    *)
(* and the HTTP requests that work on them.  A request is a goroutine that *)
(* talks to the database one statement at a time, without a transaction    *)
(* around its statements and without a version on the rows, so each action *)
(* below is one statement, or a read and the checks made on what it        *)
(* returned, and the statements of several requests interleave.            *)
(*                                                                         *)
(* A request that is refused by its first read has changed nothing and is  *)
(* a stuttering step.  With one element in Requests the requests run one   *)
(* after the other.                                                        *)
(***************************************************************************)
EXTENDS Naturals, FiniteSets, TaskRow, DependencyGraph

CONSTANTS
  Tasks,       \* the task ids that can be allocated, over all projects
  Existing,    \* the tasks that are in todo when the model starts
  Requests,    \* the handlers that can be running at the same time
  Operations,  \* the operations clients ask for
  MaxUsage,    \* the largest token usage a client reports at once
  MaxReported, \* bound: no more usage is reported for a task beyond this
  MaxInteger   \* the largest value of an INTEGER column

ASSUME TaskBoardAssumption ==
  /\ Tasks # {}
  /\ Existing \subseteq Tasks
  /\ MaxUsage \in Nat
  /\ MaxReported \in Nat
  /\ MaxInteger \in Nat

VARIABLES
  live,       \* the ids of the rows in the tasks table
  used,       \* the ids that were ever allocated (they are UUIDs: never again)
  row,        \* the rows; what row holds for an id that is not live is junk
  deps,       \* the rows of task_dependencies
  req,        \* the requests being served
  reported,   \* history: the token usage accepted for a task
  origin      \* history: the task a row was transferred from, over projects

vars == <<live, used, row, deps, req, reported, origin>>

AllOperations ==
  {"create", "bulk_create", "update", "delete", "move", "complete", "block",
   "unblock", "wont_do", "approve", "reject", "seen", "session", "transfer",
   "add_dependency", "remove_dependency"}

(* What a request does next. *)
Steps ==
  {"idle",          \* no request
   "check_deps",    \* HasUnresolvedDependencies, before a start
   "write",         \* the UPDATE of the whole row
   "comment",       \* the comment on the status change
   "estimate",      \* CompleteTask's handler: UpdateTask with the estimate
   "unblock",       \* UnblockTask: its check passed, MoveTask comes
   "approve",       \* WontDo's handler: ApproveWontDo comes
   "mark",          \* the UPDATE of seen_at
   "delete",        \* the DELETE
   "recreate",      \* MoveTaskToProject: the INSERT in the target project
   "check_cycle",   \* AddDependency: the recursive query
   "link"}          \* the INSERTs into task_dependencies that are left

Request == [step  : Steps,
            op    : AllOperations \cup {"none"},
            task  : Tasks,
            row   : Row,                       \* the row to write
            usage : 0 .. MaxUsage,             \* the usage counted in it
            edges : SUBSET (Tasks \X Tasks)]   \* the dependencies to insert

AnyTask == CHOOSE t \in Tasks : TRUE

Idle == [step |-> "idle", op |-> "none", task |-> AnyTask,
         row |-> NewRow("todo"), usage |-> 0, edges |-> {}]

Init ==
  /\ live = Existing
  /\ used = Existing
  /\ row = [t \in Tasks |-> NewRow("todo")]
  /\ deps = {}
  /\ req = [r \in Requests |-> Idle]
  /\ reported = [t \in Tasks |-> 0]
  /\ origin = [t \in Tasks |-> t]

---------------------------------------------------------------------------
(* Starting, continuing and ending a request. *)

Free(r, op) == req[r].step = "idle" /\ op \in Operations

Start(r, step, op, t, newRow, usage, edges) ==
  req' = [req EXCEPT ![r] = [step |-> step, op |-> op, task |-> t,
                             row |-> newRow, usage |-> usage, edges |-> edges]]

Goto(r, step) == req' = [req EXCEPT ![r].step = step]

(* What the request still has to do does not use the row it has read. *)
Followup(r, step) ==
  Start(r, step, req[r].op, req[r].task, NewRow("todo"), 0, {})

Finish(r) == req' = [req EXCEPT ![r] = Idle]

board == <<live, used, row, deps, reported, origin>>

(* FindByID returns the row the guards below are evaluated on. *)
Found(t) == t \in live

HasUnresolvedDependencies(t) ==
  \E d \in Tasks : <<t, d>> \in deps /\ row[d].col # "done"

---------------------------------------------------------------------------
(* Creating tasks.  CreateTask inserts one row; nothing it read before
   matters here (what it computes from it is the position). *)
CreateTask(r, t, c) ==
  /\ Free(r, "create")
  /\ t \notin used
  /\ live' = live \cup {t}
  /\ used' = used \cup {t}
  /\ row' = [row EXCEPT ![t] = NewRow(c)]
  /\ UNCHANGED <<deps, req, reported, origin>>

(* One transaction inserts all the tasks; their dependencies on older tasks
   follow, one statement each, in "link" steps. *)
BulkCreateTasks(r, new, backlog, edges) ==
  /\ Free(r, "bulk_create")
  /\ new # {} /\ new \cap used = {}
  /\ live' = live \cup new
  /\ used' = used \cup new
  /\ row' = [t \in Tasks |->
               IF t \in new
               THEN NewRow(IF t \in backlog THEN "backlog" ELSE "todo")
               ELSE row[t]]
  /\ IF edges = {} THEN UNCHANGED req
     ELSE Start(r, "link", "bulk_create", AnyTask, NewRow("todo"), 0, edges)
  /\ UNCHANGED <<deps, reported, origin>>

---------------------------------------------------------------------------
(* The operations that read a row and will write it back as a whole. *)

(* Bound: clients stop reporting usage for a task at some point. *)
Reports(t, usage) == usage > 0 => reported[t] < MaxReported

UpdateTask(r, t, usage) ==
  /\ Free(r, "update") /\ Found(t) /\ Reports(t, usage)
  /\ Start(r, "write", "update", t, Updated(row[t], usage), usage, {})
  /\ UNCHANGED board

MoveTask(r, t, target) ==
  /\ Free(r, "move") /\ Found(t)
  /\ CanMove(row[t], target)
  /\ Start(r, IF target = "in_progress" THEN "check_deps" ELSE "write",
           "move", t, Moved(row[t], target), 0, {})
  /\ UNCHANGED board

CompleteTask(r, t, usage) ==
  /\ Free(r, "complete") /\ Found(t) /\ Reports(t, usage)
  /\ \E known \in BOOLEAN : CanComplete(row[t], known)
  /\ Start(r, "write", "complete", t, Completed(row[t], usage), usage, {})
  /\ UNCHANGED board

BlockTask(r, t) ==
  /\ Free(r, "block") /\ Found(t)
  /\ CanBlock(row[t])
  /\ Start(r, "write", "block", t, Blocked(row[t]), 0, {})
  /\ UNCHANGED board

(* UnblockTask looks at the column and then calls MoveTask, which reads the
   row again. *)
UnblockTask(r, t) ==
  /\ Free(r, "unblock") /\ Found(t)
  /\ CanUnblock(row[t])
  /\ Start(r, "unblock", "unblock", t, NewRow("todo"), 0, {})
  /\ UNCHANGED board

(* The wont-do endpoint, which a human's click, a human's comment and the
   wont_do_task tool of an agent all end up in: RequestWontDo now, and
   ApproveWontDo when that has returned. *)
WontDo(r, t) ==
  /\ Free(r, "wont_do") /\ Found(t)
  /\ CanRequestWontDo(row[t])
  /\ Start(r, "write", "wont_do", t, WontDoRequested(row[t]), 0, {})
  /\ UNCHANGED board

ApproveWontDo(r, t) ==
  /\ Free(r, "approve") /\ Found(t)
  /\ CanApproveWontDo(row[t])
  /\ Start(r, "write", "approve", t, WontDoApproved(row[t]), 0, {})
  /\ UNCHANGED board

RejectWontDo(r, t) ==
  /\ Free(r, "reject") /\ Found(t)
  /\ \E known \in BOOLEAN : CanRejectWontDo(row[t], known)
  /\ Start(r, "write", "reject", t, WontDoRejected(row[t]), 0, {})
  /\ UNCHANGED board

(* The second reads: the operation goes on with the row as it is by now, or
   the request fails. *)
Reload(r, step, ok, op, newRow) ==
  /\ req[r].step = step
  /\ IF Found(req[r].task) /\ ok
     THEN Start(r, "write", op, req[r].task, newRow, 0, {})
     ELSE Finish(r)
  /\ UNCHANGED board

(* Mutant: an unblocked task goes straight back to work. *)
ContinueUnblockResumes(r) ==
  LET old == row[req[r].task] IN
  Reload(r, "unblock", CanMove(old, "in_progress"), "unblock", Moved(old, "in_progress"))

ContinueUnblock(r) ==
  LET old == row[req[r].task] IN
  Reload(r, "unblock", CanMove(old, "todo"), "unblock", Moved(old, "todo"))

ContinueWontDo(r) ==
  LET old == row[req[r].task] IN
  Reload(r, "approve", CanApproveWontDo(old), "approve", WontDoApproved(old))

(* Mutant: the estimate's update reports the usage of the completion again. *)
ContinueEstimateAgain(r) ==
  Reload(r, "estimate", TRUE, "update", Updated(row[req[r].task], MaxUsage))

ContinueEstimate(r) ==
  Reload(r, "estimate", TRUE, "update", Updated(row[req[r].task], 0))

(* Mutant: the answer about the dependencies is ignored. *)
CheckDependenciesIgnored(r) ==
  /\ req[r].step = "check_deps"
  /\ Goto(r, "write")
  /\ UNCHANGED board

(* MoveTask to in_progress: the dependencies are looked at once, between the
   read of the row and its write. *)
CheckDependencies(r) ==
  /\ req[r].step = "check_deps"
  /\ IF HasUnresolvedDependencies(req[r].task) THEN Finish(r) ELSE Goto(r, "write")
  /\ UNCHANGED board

(* Mutant: the database stores any counter. *)
WritableUnbounded(q) == q.task \in live

(* The UPDATE of the task repository.  It finds no row if the task has been
   deleted, and fails if a counter does not fit the column; addClamped stops
   at the largest Go int, far beyond MaxInteger, so it is a plain sum here. *)
Writable(q) == q.task \in live /\ q.row.tokens <= MaxInteger

(* Mutant: an INSERT ... ON CONFLICT DO UPDATE instead of an UPDATE. *)
WriteRowUpserts(r) ==
  LET q == req[r] IN
  /\ q.step = "write"
  /\ live' = live \cup {q.task}
  /\ row' = [row EXCEPT ![q.task] = q.row]
  /\ Finish(r)
  /\ UNCHANGED <<used, deps, reported, origin>>

WriteRow(r) ==
  LET q == req[r] IN
  /\ q.step = "write" /\ Writable(q)
  /\ row' = [row EXCEPT ![q.task] = WrittenOver(row[q.task], q.row)]
  /\ reported' = [reported EXCEPT ![q.task] = @ + q.usage]
  /\ \/ q.op \in {"block", "wont_do", "approve", "reject"} /\ Followup(r, "comment")
     \/ q.op = "complete" /\ Followup(r, "estimate")  \* the request had an estimate
     \/ q.op \in {"update", "move", "unblock", "complete"} /\ Finish(r)
  /\ UNCHANGED <<live, used, deps, origin>>

WriteFails(r) ==
  /\ req[r].step = "write" /\ ~Writable(req[r])
  /\ Finish(r)
  /\ UNCHANGED board

(* The INSERT of a comment on the change of status, into a table that is not
   part of this module; its failure is logged and ignored. *)
PostComment(r) ==
  /\ req[r].step = "comment"
  /\ IF req[r].op = "wont_do" THEN Goto(r, "approve") ELSE Finish(r)
  /\ UNCHANGED board

---------------------------------------------------------------------------
(* The operations that update single columns in place. *)

MarkTaskSeen(r, t) ==
  /\ Free(r, "seen") /\ Found(t)
  /\ Start(r, "mark", "seen", t, NewRow("todo"), 0, {})
  /\ UNCHANGED board

MarkSeenRow(r) ==
  /\ req[r].step = "mark"
  /\ row' = [row EXCEPT ![req[r].task] =
                IF req[r].task \in live THEN Seen(@) ELSE @]
  /\ Finish(r)
  /\ UNCHANGED <<live, used, deps, reported, origin>>

(* One statement, and no complaint if there is no such task. *)
UpdateTaskSession(r, t, session) ==
  /\ Free(r, "session") /\ t \in live
  /\ row' = [row EXCEPT ![t].session = session]
  /\ UNCHANGED <<live, used, deps, req, reported, origin>>

---------------------------------------------------------------------------
(* Deleting a task, and moving it to another project: a DELETE here and an
   INSERT of a new task there. *)

DeleteTask(r, t) ==
  /\ Free(r, "delete") /\ Found(t)
  /\ Start(r, "delete", "delete", t, NewRow("todo"), 0, {})
  /\ UNCHANGED board

MoveTaskToProject(r, t) ==
  /\ Free(r, "transfer") /\ Found(t)
  /\ Start(r, "delete", "transfer", t, TransferredRow(row[t]), 0, {})
  /\ UNCHANGED board

(* Mutant: the DELETE that affected no row is taken for a success. *)
DeleteRowUnchecked(r) ==
  LET t == req[r].task IN
  /\ req[r].step = "delete"
  /\ live' = live \ {t}
  /\ deps' = WithoutTask(deps, t)
  /\ IF req[r].op = "transfer" THEN Goto(r, "recreate") ELSE Finish(r)
  /\ UNCHANGED <<used, row, reported, origin>>

DeleteRow(r) ==
  LET t == req[r].task IN
  /\ req[r].step = "delete"
  /\ \/ /\ t \in live
        /\ live' = live \ {t}
        /\ deps' = WithoutTask(deps, t)
        /\ row' = [row EXCEPT ![t] = NewRow("todo")]
        /\ IF req[r].op = "transfer" THEN Goto(r, "recreate") ELSE Finish(r)
     \/ /\ t \notin live
        /\ Finish(r)
        /\ UNCHANGED <<live, row, deps>>
  /\ UNCHANGED <<used, reported, origin>>

RecreateTask(r, t) ==
  LET q == req[r] IN
  /\ q.step = "recreate"
  /\ t \notin used
  /\ live' = live \cup {t}
  /\ used' = used \cup {t}
  /\ row' = [row EXCEPT ![t] = q.row]
  /\ reported' = [reported EXCEPT ![t] = reported[q.task]]
  /\ origin' = [origin EXCEPT ![t] = origin[q.task]]
  /\ Finish(r)
  /\ UNCHANGED <<deps>>

---------------------------------------------------------------------------
(* Dependencies. *)

AddDependency(r, t, d) ==
  /\ Free(r, "add_dependency")
  /\ t # d /\ Found(t) /\ Found(d)
  /\ Start(r, "check_cycle", "add_dependency", t, NewRow("todo"), 0, {<<t, d>>})
  /\ UNCHANGED board

(* Mutant: AddDependency trusts that its caller has looked for a cycle. *)
CheckCycleSkipped(r) ==
  /\ req[r].step = "check_cycle"
  /\ Goto(r, "link")
  /\ UNCHANGED board

CheckCycle(r) ==
  /\ req[r].step = "check_cycle"
  /\ IF \E e \in req[r].edges : WouldCreateCycle(Tasks, deps, e[1], e[2])
     THEN Finish(r)
     ELSE Goto(r, "link")
  /\ UNCHANGED board

(* Mutant: task_dependencies without its foreign keys. *)
InsertableAnywhere(e) == e[1] # e[2] /\ e \notin deps

(* The INSERT; the table refuses an unknown task, a self-reference and an
   edge it already has, and the rest of a bulk request is then given up. *)
Insertable(e) == e[1] \in live /\ e[2] \in live /\ e[1] # e[2] /\ e \notin deps

InsertDependency(r, e) ==
  /\ req[r].step = "link" /\ e \in req[r].edges
  /\ IF Insertable(e)
     THEN /\ deps' = deps \cup {e}
          /\ IF req[r].edges = {e} THEN Finish(r)
             ELSE req' = [req EXCEPT ![r].edges = @ \ {e}]
     ELSE UNCHANGED deps /\ Finish(r)
  /\ UNCHANGED <<live, used, row, reported, origin>>

RemoveDependency(r, e) ==
  /\ Free(r, "remove_dependency")
  /\ e \in deps
  /\ deps' = deps \ {e}
  /\ UNCHANGED <<live, used, row, req, reported, origin>>

---------------------------------------------------------------------------
(* A statement can fail or time out, the client can hang up and cancel the
   context, the server can die: a request may end after any of its steps. *)
Abort(r) ==
  /\ req[r].step # "idle"
  /\ Finish(r)
  /\ UNCHANGED board

Begin(r) ==
  \/ \E t \in Tasks :
       \/ \E c \in {"todo", "backlog"} : CreateTask(r, t, c)
       \/ \E u \in 0 .. MaxUsage : UpdateTask(r, t, u) \/ CompleteTask(r, t, u)
       \/ \E c \in Columns : MoveTask(r, t, c)
       \/ BlockTask(r, t)
       \/ UnblockTask(r, t)
       \/ WontDo(r, t)
       \/ ApproveWontDo(r, t)
       \/ RejectWontDo(r, t)
       \/ MarkTaskSeen(r, t)
       \/ \E s \in BOOLEAN : UpdateTaskSession(r, t, s)
       \/ DeleteTask(r, t)
       \/ MoveTaskToProject(r, t)
       \/ \E d \in Tasks : AddDependency(r, t, d) \/ RemoveDependency(r, <<t, d>>)
  \/ \E new \in SUBSET (Tasks \ used) :
       \E backlog \in SUBSET new, edges \in SUBSET (new \X live) :
         BulkCreateTasks(r, new, backlog, edges)

Proceed(r) ==
  \/ ContinueUnblock(r)
  \/ ContinueWontDo(r)
  \/ ContinueEstimate(r)
  \/ CheckDependencies(r)
  \/ WriteRow(r)
  \/ WriteFails(r)
  \/ PostComment(r)
  \/ MarkSeenRow(r)
  \/ DeleteRow(r)
  \/ \E t \in Tasks : RecreateTask(r, t)
  \/ CheckCycle(r)
  \/ \E e \in Tasks \X Tasks : InsertDependency(r, e)

Next == \E r \in Requests : Begin(r) \/ Proceed(r) \/ Abort(r)

Spec == Init /\ [][Next]_vars

---------------------------------------------------------------------------
(* Type correctness: rows, requests and edges have their types, and no      *)
(* stored counter exceeds its column (pg_tasks.go Update fails instead).    *)
TypeOK ==
  /\ live \subseteq used /\ used \subseteq Tasks
  /\ row \in [Tasks -> Row]
  /\ \A t \in live : row[t].tokens <= MaxInteger
  /\ deps \subseteq Tasks \X Tasks
  /\ req \in [Requests -> Request]
  /\ reported \in [Tasks -> Nat]
  /\ origin \in [Tasks -> Tasks]

(* Whatever requests interleave, every row is one that a single request     *)
(* could have written: lost updates lose whole rows and never mix two       *)
(* states.  is_blocked agrees with the column (domain/types.go: "1 when in  *)
(* blocked column"), a blocked task says why and only a blocked task does,  *)
(* a task in progress has the start time its duration is computed from, and *)
(* completed_at, the summary and the won't-do flag fit together.            *)
RowsConsistent == \A t \in live : RowConsistent(row[t])

(* A row never claims more tokens than were reported for the task: lost     *)
(* updates can only lose usage, no interleaving or retry counts one twice.  *)
NeverOverCounted == \A t \in live : row[t].tokens <= reported[t]

(* MoveTaskToProject never leaves a task in two projects, even when several *)
(* requests move it, because the DELETE comes first and only one succeeds.  *)
NeverDuplicated == \A s, t \in live : origin[s] = origin[t] => s = t

(* The edges of task_dependencies join existing, different tasks, also when *)
(* a task is deleted between the checks of AddDependency and its INSERT.    *)
DependenciesJoinTasks ==
  \A e \in deps : e[1] \in live /\ e[2] \in live /\ e[1] # e[2]

(* A deleted task stays deleted: a request that read it before cannot bring *)
(* it back with its write (Update affects no row and reports not found).    *)
DeletedStaysDeleted == [][\A t \in used \ live : t \notin live']_vars

---------------------------------------------------------------------------
(* The properties below hold when requests run one after the other.         *)

(* No chain of dependencies comes back to where it started: AddDependency   *)
(* refuses an edge that would close a cycle.                                *)
DependenciesAcyclic == Acyclic(Tasks, deps)

(* A step that brings a task into in_progress finds its dependencies done   *)
(* (MoveTask: "cannot move task to in_progress: dependencies not resolved").*)
StartsAfterDependencies ==
  [][\A t \in live \cap live' :
       row[t].col # "in_progress" /\ row'[t].col = "in_progress"
         => ~HasUnresolvedDependencies(t)]_vars

(* Only a decision about the block takes a task out of the blocked column:  *)
(* unblocking or moving it, or the answer to a won't-do request.  No report *)
(* on the task (an update, a completion) does.                              *)
BlockIsLiftedExplicitly ==
  [][\A t \in live \cap live' :
       row[t].col = "blocked" /\ row'[t].col # "blocked"
         => \E r \in Requests : /\ req[r].task = t
                                /\ req[r].op \in {"move", "unblock", "approve", "reject"}
                                /\ req'[r] # req[r]]_vars

(* Every accepted report of token usage is in the row (UpdateTask and       *)
(* CompleteTask add to the counters), also after a move to another project. *)
TokensAccounted == \A t \in live : row[t].tokens = reported[t]

(* All of it together: the requests, one after the other, behave like the   *)
(* atomic operations of TaskLifecycle.                                      *)
Lifecycle == INSTANCE TaskLifecycle WITH
  Usage  <- 0 .. MaxUsage,
  status <- [t \in Tasks |-> IF t \in live THEN row[t].col ELSE "absent"],
  spent  <- [t \in Tasks |-> row[t].tokens]

RefinesLifecycle == Lifecycle!Spec

=============================================================================
