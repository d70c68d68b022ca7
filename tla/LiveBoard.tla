----------------------------- MODULE LiveBoard -----------------------------
(***************************************************************************)
(* The task board with the dashboards that watch it.  Around every request *)
(* of TaskBoard there is an HTTP handler, which broadcasts an event when   *)
(* the service has done what was asked, and never when it returned an      *)
(* error.  A page of a dashboard reacts to an event by loading what it     *)
(* shows once more, one SELECT for each column and project, while other    *)
(* requests go on; it does not wait for a load that is already on its way. *)
(*                                                                         *)
(* Abstractions: of a task, a page shows the column it is in.  Events that *)
(* no page with tasks reacts to (wip_slot_available, notification) are     *)
(* left out.  The order of the events is that of the hub (see Hub); the    *)
(* connection to the dashboard stays up unless the server restarts.        *)
(*                                                                         *)
(* Bounds: an event waits while MaxEvents are on the way to the page, and  *)
(* the page lets an event wait while MaxLoads are.  The backlog column,    *)
(* which the first task in it creates, exists from the start.              *)
(***************************************************************************)
EXTENDS TaskBoard, Sequences, SequencesExt

CONSTANTS
  Agents,      \* the requests that are made by the sidecars of agents
  ProjectOf,   \* the project a task belongs to
  ChildrenOf,  \* the projects directly below a project, in the order they are read
  Workloads,   \* what clients do in a behaviour: [operations, on : the tasks
               \* they use, to : the columns they move tasks to, requests,
               \* page : [kind, project]]
  MaxEvents,
  MaxLoads

ASSUME LiveBoardAssumption ==
  /\ Agents \subseteq Requests
  /\ MaxEvents \in Nat /\ MaxLoads \in Nat
  /\ \A p \in DOMAIN ChildrenOf : ChildrenOf[p] \in Seq(DOMAIN ChildrenOf)
  /\ \A w \in Workloads :
       /\ w.requests \subseteq Requests \ Agents
       /\ w.to \subseteq Columns
       /\ w.page.kind \in {"kanban", "backlog", "none"}
       /\ w.page.project \in DOMAIN ChildrenOf

VARIABLES
  workload,    \* what clients do in this behaviour, and the page that is open
  handler,     \* the handlers of the requests
  inbox,       \* the events that are on the way to the page
  loads,       \* the loads that are on their way, the oldest first
  shown,       \* the pairs of a column and a task that it shows
  unread,      \* the projects that are missing from the answer it shows
  stale,       \* it does not show the answer to its last load
  missed       \* history: tasks that may have changed since the last load was
               \* begun without an event it reacts to

pageVars == <<inbox, loads, shown, unread, stale>>
liveVars == <<vars, workload, handler, pageVars, missed>>

---------------------------------------------------------------------------
(* The page. *)

page == workload.page

Offered(op) == op \in workload.operations

KanbanColumns == <<"backlog", "todo", "in_progress", "done", "blocked">>

Projects(p) == <<p>> \o ChildrenOf[p]

(* GetBoard reads column by column, and within a column project by project;
   the backlog page asks ListTasks for one column. *)
Statements(pg) ==
  LET columns  == CASE pg.kind = "kanban"  -> KanbanColumns
                    [] pg.kind = "backlog" -> <<"backlog">>
                    [] pg.kind = "none"    -> <<>>
      projects == Projects(pg.project)
      n        == Len(projects)
  IN  [i \in 1 .. Len(columns) * n |->
         [column  |-> columns[((i - 1) \div n) + 1],
          project |-> projects[((i - 1) % n) + 1]]]

(* What a SELECT on one column of one project returns. *)
Listed(stmt) ==
  {<<stmt.column, t>> : t \in {u \in live : /\ row[u].col = stmt.column
                                            /\ ProjectOf[u] = stmt.project}}

ListedNow(pg) == UNION {Listed(stmt) : stmt \in ToSet(Statements(pg))}

(* The events a page reacts to with a load.  The kanban page shows the tasks
   of the projects below too, but its set of their ids is never filled. *)
Reloads(pg, e) ==
  \/ /\ pg.kind = "kanban"
     /\ e.project = pg.project
     /\ e.type \notin {"task_seen", "wont_do_rejected"}
  \/ /\ pg.kind = "backlog"
     /\ e.type \in {"task_created", "task_updated", "task_moved", "task_deleted"}

NewLoad ==
  [left |-> Statements(page), found |-> {}, skipped |-> {}, overtaken |-> FALSE]

(* Mutant: a page that is loading already does not load again. *)
ReceiveWhileLoading ==
  /\ inbox # <<>>
  /\ inbox' = Tail(inbox)
  /\ IF Reloads(page, Head(inbox)) /\ loads = <<>>
     THEN loads' = Append(loads, NewLoad) /\ missed' = {}
     ELSE UNCHANGED <<loads, missed>>
  /\ UNCHANGED <<vars, workload, handler, shown, unread, stale>>

Receive ==
  /\ inbox # <<>> /\ Len(loads) < MaxLoads
  /\ inbox' = Tail(inbox)
  /\ IF Reloads(page, Head(inbox))
     THEN loads' = Append(loads, NewLoad) /\ missed' = {}
     ELSE UNCHANGED loads /\ missed' = missed \cup {Head(inbox).task}
  /\ UNCHANGED <<vars, workload, handler, shown, unread, stale>>

(* A statement on a project that is left out finds nothing. *)
RowsRead(load) ==
  IF Head(load.left).project \in load.skipped THEN {} ELSE Listed(Head(load.left))

ReadStatement(i) ==
  /\ loads[i].left # <<>>
  /\ loads' = [loads EXCEPT ![i].left = Tail(@),
                            ![i].found = @ \cup RowsRead(loads[i])]
  /\ UNCHANGED <<vars, workload, handler, inbox, shown, unread, stale, missed>>

Skip(i, projects) == loads' = [loads EXCEPT ![i].skipped = @ \cup projects]

(* Errors about the projects below are ignored, and the answer is given
   without them: GetBoard's, when it cannot list these projects before it
   reads the first column, and ListTasks', when the one on such a project
   fails. *)
ReadChildrenFails(i) ==
  LET below   == ToSet(ChildrenOf[page.project])
      current == Head(loads[i].left).project
  IN  /\ Offered("fail") /\ loads[i].left # <<>>
      /\ \/ page.kind = "kanban" /\ loads[i].left = Statements(page) /\ Skip(i, below)
         \/ page.kind = "backlog" /\ current \in below /\ Skip(i, {current})
      /\ UNCHANGED <<vars, workload, handler, inbox, shown, unread, stale, missed>>

(* Load i is over: whatever was asked before it is overtaken. *)
LoadsAfter(i) ==
  [j \in 1 .. Len(loads) - 1 |->
     IF j < i THEN [loads[j] EXCEPT !.overtaken = TRUE] ELSE loads[j + 1]]

(* The page shows whichever answer comes last. *)
ShowAnswer(i) ==
  /\ loads[i].left = <<>>
  /\ shown' = loads[i].found
  /\ unread' = loads[i].skipped
  /\ stale' = loads[i].overtaken
  /\ loads' = LoadsAfter(i)
  /\ UNCHANGED <<vars, workload, handler, inbox, missed>>

(* The kanban page ignores the error, the backlog page shows no task. *)
LoadFails(i) ==
  /\ Offered("fail")
  /\ loads' = LoadsAfter(i)
  /\ \/ page.kind = "kanban" /\ stale' = (stale \/ ~loads[i].overtaken) /\ UNCHANGED shown
     \/ page.kind = "backlog" /\ stale' = TRUE /\ shown' = {}
  /\ UNCHANGED <<vars, workload, handler, inbox, unread, missed>>

---------------------------------------------------------------------------
(* The handlers.  A handler serves an operation, then announces it, and then
   an agent has its answer, "ok" or "error". *)

NoHandler == [op |-> "none", tasks |-> <<>>, stage |-> "idle"]

EventType(op) ==
  CASE op = "create"                             -> "task_created"
    [] op \in {"update", "reorder"}              -> "task_updated"
    [] op \in {"delete", "transfer"}             -> "task_deleted"
    [] op \in {"move", "block"}                  -> "task_moved"
    [] op = "complete"                           -> "task_completed"
    [] op = "unblock"                            -> "task_unblocked"
    [] op \in {"wont_do", "approve"}             -> "task_wont_do"
    [] op = "reject"                             -> "wont_do_rejected"
    [] op = "seen"                               -> "task_seen"

Event(type, t) == [type |-> type, task |-> t, project |-> ProjectOf[t]]

(* What the page is told.  A transfer is announced in both projects; a new
   dependency and a session are not announced at all. *)
Announcements(h) ==
  IF page.kind = "none" \/ h.op \in {"session", "add_dependency"} THEN <<>>
  ELSE <<Event(EventType(h.op), h.tasks[1])>>
       \o IF h.op = "transfer" THEN <<Event("task_created", h.tasks[2])>> ELSE <<>>

Answer(r, outcome) ==
  handler' = [handler EXCEPT ![r] =
                IF r \in Agents THEN [@ EXCEPT !.stage = outcome] ELSE NoHandler]

Succeed(r) ==
  /\ handler' = [handler EXCEPT ![r].stage = "announce",
                                ![r].tasks = @ \o SetToSeq(live' \ live)]
  /\ UNCHANGED missed

(* The error is the whole answer: what was written before it stays. *)
Fail(r) ==
  /\ Answer(r, "error")
  /\ missed' = missed \cup (IF page.kind = "none" THEN {} ELSE ToSet(handler[r].tasks))

(* One operator for each handler that only passes the request on: what the
   service does until its first pause. *)
HandleCreate(r, t) == \E c \in {"todo", "backlog"} : CreateTask(r, t, c)
HandleDelete(r, t) == DeleteTask(r, t)
HandleMove(r, t) == \E c \in workload.to : MoveTask(r, t, c)
HandleMoveToProject(r, t) == MoveTaskToProject(r, t)
HandleComplete(r, t) == CompleteTask(r, t, 0)
HandleUnblock(r, t) == UnblockTask(r, t)
HandleApproveWontDo(r, t) == ApproveWontDo(r, t)
HandleRejectWontDo(r, t) == RejectWontDo(r, t)
HandleMarkSeen(r, t) == MarkTaskSeen(r, t)
HandleSession(r, t) == \E s \in BOOLEAN : UpdateTaskSession(r, t, s)
HandleAddDependency(r, t) ==
  \E d \in Tasks : ProjectOf[d] = ProjectOf[t] /\ AddDependency(r, t, d)

(* Positions are written, which neither a page nor a query sorts by. *)
HandleReorder(r, t) == t \in live /\ UNCHANGED vars

(* The routes. *)
Handles(r, op, t) ==
  \/ op = "create" /\ HandleCreate(r, t)
  \/ op = "update" /\ UpdateTask(r, t, 0)
  \/ op = "delete" /\ HandleDelete(r, t)
  \/ op = "move" /\ HandleMove(r, t)
  \/ op = "transfer" /\ HandleMoveToProject(r, t)
  \/ op = "reorder" /\ HandleReorder(r, t)
  \/ op = "complete" /\ HandleComplete(r, t)
  \/ op = "block" /\ BlockTask(r, t)
  \/ op = "unblock" /\ HandleUnblock(r, t)
  \/ op = "wont_do" /\ WontDo(r, t)
  \/ op = "approve" /\ HandleApproveWontDo(r, t)
  \/ op = "reject" /\ HandleRejectWontDo(r, t)
  \/ op = "seen" /\ HandleMarkSeen(r, t)
  \/ op = "session" /\ HandleSession(r, t)
  \/ op = "add_dependency" /\ HandleAddDependency(r, t)

Serve(r, op, t) ==
  /\ Offered(op) /\ t \in workload.on /\ handler[r].stage = "idle"
  /\ Handles(r, op, t)
  /\ handler' = [handler EXCEPT ![r] =
                   [op |-> op, tasks |-> <<t>>,
                    stage |-> IF req'[r].step = "idle" THEN "announce" ELSE "serving"]]
  /\ UNCHANGED <<workload, pageVars, missed>>

(* CompleteTask's handler ignores what becomes of the estimate, and the
   service logs that a comment could not be written. *)
ErrorIgnored(r) ==
  \/ handler[r].op = "complete" /\ (req[r].step = "estimate" \/ req[r].op = "update")
  \/ req[r].step = "comment" /\ req[r].op # "wont_do"

(* The last step of the request is a statement that works. *)
LastStepWorks(r) ==
  \/ ErrorIgnored(r)
  \/ req[r].step = "write" /\ Writable(req[r])
  \/ req[r].step \in {"mark", "delete"} /\ Found(req[r].task)
  \/ req[r].step = "recreate"
  \/ req[r].step = "link" /\ \E e \in req[r].edges : Insertable(e)

Outcome(r, works) ==
  IF req'[r].step # "idle" THEN UNCHANGED <<handler, missed>>
  ELSE IF works THEN Succeed(r) ELSE Fail(r)

Advance(r) ==
  /\ handler[r].stage = "serving"
  /\ Proceed(r)
  /\ \A t \in live' \ live : ProjectOf[t] # ProjectOf[handler[r].tasks[1]]
  /\ Outcome(r, LastStepWorks(r))
  /\ UNCHANGED <<workload, pageVars>>

Quit(r) ==
  /\ Offered("fail")
  /\ handler[r].stage = "serving"
  /\ Abort(r)
  /\ Outcome(r, ErrorIgnored(r))
  /\ UNCHANGED <<workload, pageVars>>

(* The database did it, but the service was not told in time. *)
AnswerLost(r) ==
  /\ Offered("fail")
  /\ handler[r].stage = "announce"
  /\ Fail(r)
  /\ UNCHANGED <<vars, workload, pageVars>>

Announce(r) ==
  /\ handler[r].stage = "announce"
  /\ Len(inbox) + Len(Announcements(handler[r])) <= MaxEvents
  /\ inbox' = inbox \o Announcements(handler[r])
  /\ Answer(r, "ok")
  /\ UNCHANGED <<vars, workload, loads, shown, unread, stale, missed>>

(* The server dies and is started again.  The dashboard connects once more,
   but loads nothing; its loads have failed. *)
Restart ==
  /\ Offered("restart")
  /\ req' = [r \in Requests |-> Idle]
  /\ handler' = [r \in Requests |->
                   IF r \in Agents /\ handler[r].stage # "idle"
                   THEN [handler[r] EXCEPT !.stage = "error"] ELSE NoHandler]
  /\ inbox' = <<>> /\ loads' = <<>>
  /\ missed' = Tasks
  /\ UNCHANGED <<board, workload, shown, unread, stale>>

---------------------------------------------------------------------------
LiveInit ==
  /\ Init
  /\ workload \in Workloads
  /\ handler = [r \in Requests |-> NoHandler]
  /\ inbox = <<>> /\ loads = <<>>
  /\ shown = ListedNow(page)
  /\ unread = {}
  /\ stale = FALSE
  /\ missed = {}

PageNext ==
  \/ Receive
  \/ \E i \in 1 .. Len(loads) : 
       ReadStatement(i) \/ ReadChildrenFails(i) \/ ShowAnswer(i) \/ LoadFails(i)

HandlerNext ==
  \/ \E r \in Requests : Advance(r) \/ Quit(r) \/ AnswerLost(r) \/ Announce(r)
  \/ \E r \in workload.requests : \E op \in workload.operations, t \in Tasks : Serve(r, op, t)
  \/ Restart

---------------------------------------------------------------------------
Quiet ==
  /\ \A r \in Requests : handler[r].stage \notin {"serving", "announce"}
  /\ inbox = <<>> /\ loads = <<>>

(* When nothing is under way any more, a page shows every task where it is: *)
(* a load that was torn by a concurrent write (a task in two columns, or in *)
(* none) is followed by one that is not.  Excepted are a page that shows an *)
(* answer that was overtaken or none, the projects that an answer was given *)
(* without, and the tasks of handlers that answered with an error after a   *)
(* write, or whose event the page does not react to.                        *)
PageCurrent ==
  Quiet /\ ~stale =>
    \A t \in Tasks \ missed, c \in Columns :
      ProjectOf[t] \notin unread =>
        (<<c, t>> \in shown <=> <<c, t>> \in ListedNow(page))
=============================================================================
