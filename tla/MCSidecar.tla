----------------------------- MODULE MCSidecar -----------------------------
(***************************************************************************)
(* Constants of Sidecar for model checking: two projects, one below the    *)
(* other, and a workload for each group of operations that meet.           *)
(***************************************************************************)
EXTENDS Sidecar

CONSTANTS t1, t2, t3, t4, t5, r1, r2, a1

Family == [main |-> <<"sub">>, sub |-> <<>>]

Place == t1 :> "sub" @@ t2 :> "sub" @@ t3 :> "main" @@ t4 :> "main" @@ t5 :> "sub"
SubOnly == a1 :> "sub"
Urgency == t1 :> 100 @@ t2 :> 300 @@ t3 :> 100 @@ t4 :> 300 @@ t5 :> 100
Age == t1 :> 2 @@ t2 :> 4 @@ t3 :> 3 @@ t4 :> 1 @@ t5 :> 5
Assigned == t1 :> "" @@ t2 :> "coder" @@ t3 :> "coder" @@ t4 :> "tester" @@ t5 :> ""

Ask(project, role, count, below) ==
  [project |-> project, role |-> role, count |-> count, below |-> below]

Queries == {Ask("main", "coder", 2, TRUE), Ask("main", "", 3, TRUE), Ask("sub", "coder", 1, FALSE)}

(* The second task depends on the first and on a task of the board; the
   first of the second batch refers to a task that comes later. *)
TwoBatches ==
  {<<{}, {<<"ref", 1>>, <<"id", t1>>}>>, <<{<<"ref", 2>>}, {}>>}

TwoLists == {<< <<t2, t1>>, <<t5, t2>> >>, << <<t1, t2>>, <<t2, t5>> >>}

Work(operations, on, to, requests, kind, project) ==
  [operations |-> operations, on |-> on, to |-> to, requests |-> requests,
   page |-> [kind |-> kind, project |-> project]]

AllWorkloads ==
  {Work({"move", "complete"}, {t1}, {"in_progress"}, {r1}, "kanban", "sub"),
   Work({"create", "delete", "fail"}, {t1, t2}, {}, {r1}, "kanban", "sub"),
   Work({"transfer", "delete", "restart"}, {t1, t3}, {}, {r1}, "kanban", "main"),
   Work({"block", "unblock"}, {t1}, {}, {r1, r2}, "kanban", "sub"),
   Work({"wont_do", "reject"}, {t1}, {}, {r1}, "kanban", "sub"),
   Work({"wont_do", "approve", "fail"}, {t1}, {}, {r1}, "kanban", "sub"),
   Work({"update", "reorder"}, {t1}, {}, {r1}, "kanban", "sub"),
   Work({"create", "delete", "fail"}, {t3, t4}, {}, {r1}, "kanban", "main"),
   Work({"move", "fail"}, {t1}, {"todo", "backlog"}, {r1}, "backlog", "main"),
   Work({"seen", "session", "move"}, {t1}, {"done"}, {r1}, "kanban", "sub"),
   Work({"create", "move", "transfer"}, {t1, t4}, {"todo", "backlog"}, {r1}, "backlog", "main"),
   Work({"next", "create", "move", "add_dependency"}, {t1, t2}, {"done", "todo"}, {r1}, "none", "main"),
   Work({"next", "create", "transfer", "fail"}, {t1, t2, t3, t4}, {}, {r1}, "none", "main"),
   Work({"bulk_tool", "create", "add_dependency", "fail"}, {t1, t2, t5}, {}, {r1}, "none", "main"),
   Work({"link_tool", "create", "add_dependency"}, {t1, t2, t5}, {}, {r1}, "none", "main"),
   Work({"run_task", "complete_task", "block_task", "wont_do_task",
         "move", "complete", "block", "wont_do"}, {t1}, Columns, {r1}, "none", "main")}


OtherRequests == Permutations({r1, r2})
=============================================================================
