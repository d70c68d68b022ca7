------------------------------ MODULE Sidecar ------------------------------
(***************************************************************************)
(* The sidecars of the agents: each serves one agent, whose tool calls it  *)
(* turns into requests to the task board, one after the other, through the *)
(* proxy of the daemon.  A tool ends with the first request that fails,    *)
(* and the agent is told of the error alone.                               *)
(*                                                                         *)
(* Together with the dashboard's requests, its pages and the query for the *)
(* next tasks, this is the task board with all its clients.                *)
(*                                                                         *)
(* Assumption: the daemon's token is accepted, and the chat has no         *)
(* feature; otherwise every request, or every creation of a task, fails,   *)
(* which CallFails allows.  The summary files that the tools write into    *)
(* the worktree are left out: nothing reads them back.                     *)
(***************************************************************************)
EXTENDS NextTasks

CONSTANTS
  ProxyProject,  \* the project to which the proxy of an agent directs its requests
  Batches,       \* the arguments of bulk_create_tasks: for each task of the
                 \* batch its depends_on, <<"ref", i>> or <<"id", t>>
  LinkLists      \* the arguments of bulk_add_dependencies: lists of edges

VARIABLE tool    \* the tool calls of the agents

allVars == <<liveVars, query, tool>>

NoTool == [name |-> "none", batch |-> <<>>, created |-> <<>>, left |-> {},
           links |-> <<>>, stage |-> "idle"]

Running(a, name) == tool[a].name = name /\ tool[a].stage = "running"

Call(a, name, batch, links) ==
  /\ Offered(name)
  /\ tool[a].stage # "running"
  /\ tool' = [tool EXCEPT ![a] = [NoTool EXCEPT !.name = name, !.batch = batch,
                                                !.links = links, !.stage = "running"]]
  /\ UNCHANGED liveVars

EndTool(a, stage) == tool' = [tool EXCEPT ![a].stage = stage]

Answered(a, op, outcome) == handler[a].op = op /\ handler[a].stage = outcome

Forward(a, op, t) == ProjectOf[t] = ProxyProject[a] /\ Serve(a, op, t)

(* The sidecar has read the answer to its request. *)
Take(a) ==
  /\ handler' = [handler EXCEPT ![a] = NoHandler]
  /\ UNCHANGED <<vars, workload, pageVars, missed>>

---------------------------------------------------------------------------
(* bulk_create_tasks: a task, its dependencies, the next task. *)

BulkCreateTool(a, batch) == Call(a, "bulk_tool", batch, <<>>)

Count(a) == Len(tool[a].created)

CreateNext(a, t) ==
  /\ Running(a, "bulk_tool")
  /\ tool[a].left = {} /\ Count(a) < Len(tool[a].batch)
  /\ Forward(a, "create", t)
  /\ row'[t].col = "todo"
  /\ UNCHANGED tool

TakeCreated(a) ==
  /\ Running(a, "bulk_tool") /\ Answered(a, "create", "ok")
  /\ tool' = [tool EXCEPT ![a].created = Append(@, handler[a].tasks[1]),
                          ![a].left = tool[a].batch[Count(a) + 1]]
  /\ Take(a)

(* A reference to a task that has not been created yet stays as it is, and
   is no id of any task. *)
Resolve(a, dep) ==
  IF dep[1] = "id" THEN {dep[2]}
  ELSE {tool[a].created[i] : i \in {dep[2]} \cap 1 .. Count(a)}

AddNext(a) ==
  /\ Running(a, "bulk_tool")
  /\ \E dep \in tool[a].left, d \in Tasks :
       /\ d \in Resolve(a, dep)
       /\ Forward(a, "add_dependency", tool[a].created[Count(a)])
       /\ req'[a].edges = {<<tool[a].created[Count(a)], d>>}
       /\ tool' = [tool EXCEPT ![a].left = @ \ {dep}]

TakeAdded(a) ==
  /\ Answered(a, "add_dependency", "ok")
  /\ UNCHANGED tool
  /\ Take(a)

BatchDone(a) ==
  /\ Running(a, "bulk_tool") /\ handler[a].stage = "idle"
  /\ tool[a].left = {} /\ Count(a) = Len(tool[a].batch)
  /\ EndTool(a, "ok")
  /\ UNCHANGED liveVars

---------------------------------------------------------------------------
(* bulk_add_dependencies, and the tools that are a single request. *)

BulkAddTool(a, links) == Call(a, "link_tool", <<>>, links)

AddLink(a) ==
  /\ Running(a, "link_tool") /\ tool[a].links # <<>>
  /\ LET e == Head(tool[a].links) IN
       /\ Forward(a, "add_dependency", e[1])
       /\ req'[a].edges = {e}
  /\ tool' = [tool EXCEPT ![a].links = Tail(@)]

LinksDone(a) ==
  /\ Running(a, "link_tool") /\ handler[a].stage = "idle" /\ tool[a].links = <<>>
  /\ EndTool(a, "ok")
  /\ UNCHANGED liveVars

OperationOf == [run_task |-> "move", complete_task |-> "complete",
                block_task |-> "block", wont_do_task |-> "wont_do"]

TaskTool(a, name) == Call(a, name, <<>>, <<>>)

CallTask(a, t) ==
  /\ tool[a].name \in DOMAIN OperationOf /\ tool[a].stage = "running"
  /\ Forward(a, OperationOf[tool[a].name], t)
  /\ tool[a].name = "run_task" => req'[a].row.col = "in_progress"
  /\ UNCHANGED tool

TakeDone(a) ==
  /\ tool[a].name \in DOMAIN OperationOf
  /\ Answered(a, OperationOf[tool[a].name], "ok")
  /\ EndTool(a, "ok")
  /\ Take(a)

---------------------------------------------------------------------------
(* The request is refused before it changes anything, by the proxy or by the
   first checks of the service, or the proxy is gone. *)
CallFails(a) ==
  /\ tool[a].stage = "running" /\ handler[a].stage = "idle"
  /\ EndTool(a, "error")
  /\ UNCHANGED liveVars

(* Mutant: an error is logged, and the tool goes on. *)
TakeErrorGoesOn(a) ==
  /\ tool[a].stage = "running" /\ handler[a].stage = "error"
  /\ UNCHANGED tool
  /\ Take(a)

TakeError(a) ==
  /\ tool[a].stage = "running" /\ handler[a].stage = "error"
  /\ EndTool(a, "error")
  /\ Take(a)

AgentNext(a) ==
  \/ \E batch \in Batches : BulkCreateTool(a, batch)
  \/ \E links \in LinkLists : BulkAddTool(a, links)
  \/ \E name \in DOMAIN OperationOf : TaskTool(a, name)
  \/ \E t \in Tasks : CreateNext(a, t) \/ CallTask(a, t)
  \/ TakeCreated(a)
  \/ AddNext(a)
  \/ TakeAdded(a)
  \/ BatchDone(a)
  \/ AddLink(a)
  \/ LinksDone(a)
  \/ TakeDone(a)
  \/ CallFails(a)
  \/ TakeError(a)

AllInit ==
  /\ LiveInit
  /\ query = NoQuery
  /\ tool = [a \in Agents |-> NoTool]

AllNext ==
  \/ HandlerNext /\ Watch /\ UNCHANGED tool
  \/ PageNext /\ UNCHANGED <<query, tool>>
  \/ QueryNext /\ UNCHANGED tool
  \/ (\E a \in Agents : AgentNext(a)) /\ Watch

ClientSpec == AllInit /\ [][AllNext]_allVars

---------------------------------------------------------------------------
(* A batch is created from its first task on: whenever a tool call stops,   *)
(* every task but the last has all its dependencies, on the tasks they were *)
(* written for, and if the agent is told of no error the last one has them  *)
(* too.  So the agent that repeats a batch repeats a part of it and not     *)
(* tasks whose dependencies were dropped.                                   *)
Attached(a, i) ==
  \A dep \in tool[a].batch[i] :
    /\ dep[1] = "ref" => dep[2] < i
    /\ LET d == IF dep[1] = "id" THEN dep[2] ELSE tool[a].created[dep[2]]
           t == tool[a].created[i]
       IN  t \in live /\ d \in live => <<t, d>> \in deps

BatchInOrder ==
  \A a \in Agents :
    /\ \A i \in 1 .. Count(a) - 1 : Attached(a, i)
    /\ tool[a].name = "bulk_tool" /\ tool[a].stage = "ok" =>
         /\ Count(a) = Len(tool[a].batch)
         /\ \A i \in 1 .. Count(a) : Attached(a, i)
=============================================================================
