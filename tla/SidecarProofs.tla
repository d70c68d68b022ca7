--------------------------- MODULE SidecarProofs ---------------------------
(***************************************************************************)
(* The task board with all its clients: the page of a dashboard is right   *)
(* about everything it could hear of, the batches of the agents are        *)
(* created in order, the next tasks are ranked, and the board keeps what   *)
(* TaskBoardProofs proves of it while the server runs on.                  *)
(*                                                                         *)
(* A step of the composed system is reduced twice: LiveKinds says which    *)
(* step of the handlers or of the page it is, whoever took it, and         *)
(* LiveStepsOnBoard that this is a step of TaskBoard or a restart.         *)
(***************************************************************************)
EXTENDS Sidecar, TaskBoardProofs, FiniteSetTheorems, SequenceTheorems

(* The sequence that lists no task or one.                                  *)
LEMMA ListedSets ==
  /\ SetToSeq({}) = <<>> /\ ToSet(<<>>) = {}
  /\ \A t : SetToSeq({t}) = <<t>> /\ ToSet(<<t>>) = {t}
<1>1. SetToSeq({}) = <<>>
  <2>1. Cardinality({}) = 0 /\ 1 .. 0 = {}
    BY FS_EmptySet
  <2>2. (\A f \in [1 .. 0 -> {}] : f = <<>>) /\ <<>> \in [1 .. 0 -> {}]
    BY <2>1
  <2>3. IsInjective(<<>>)
    BY DEF IsInjective
  <2>4. QED
    BY <2>1, <2>2, <2>3 DEF SetToSeq
<1>2. ASSUME NEW t PROVE SetToSeq({t}) = <<t>>
  <2>1. Cardinality({t}) = 1
    BY FS_Singleton
  <2>2. \A f \in [1 .. 1 -> {t}] : f = <<t>>
    OBVIOUS
  <2>3. <<t>> \in [1 .. 1 -> {t}] /\ IsInjective(<<t>>)
    BY DEF IsInjective
  <2>4. QED
    BY <2>1, <2>2, <2>3 DEF SetToSeq
<1>3. ToSet(<<>>) = {}
  BY DEF ToSet
<1>4. ASSUME NEW t PROVE ToSet(<<t>>) = {t}
  <2>1. DOMAIN <<t>> = {1} /\ <<t>>[1] = t
    OBVIOUS
  <2>2. QED
    BY <2>1 DEF ToSet
<1>5. QED
  BY <1>1, <1>2, <1>3, <1>4

(* What is left of a sequence, and what is put at its end.                  *)
LEMMA SeqFacts ==
  ASSUME NEW S, NEW s \in Seq(S)
  PROVE  /\ s # <<>> => /\ Tail(s) \in Seq(S) /\ Head(s) \in S
                        /\ ToSet(s) = {Head(s)} \cup ToSet(Tail(s))
         /\ s = <<>> => ToSet(s) = {}
         /\ \A x \in S : Append(s, x) \in Seq(S)
<1>1. ASSUME s # <<>> PROVE ToSet(s) = {Head(s)} \cup ToSet(Tail(s))
  <2>1. /\ Len(s) \in Nat \ {0} /\ Head(s) = s[1] /\ DOMAIN s = 1 .. Len(s)
        /\ Tail(s) \in Seq(S) /\ Len(Tail(s)) = Len(s) - 1
        /\ \A i \in 1 .. Len(s) - 1 : Tail(s)[i] = s[i + 1]
    BY <1>1
  <2>2. ASSUME NEW x \in ToSet(s) PROVE x \in {Head(s)} \cup ToSet(Tail(s))
    <3>1. PICK i \in 1 .. Len(s) : x = s[i]
      BY <2>1, <2>2 DEF ToSet
    <3>2. CASE i = 1
      BY <2>1, <3>1, <3>2
    <3>3. CASE i # 1
      <4>1. i - 1 \in 1 .. Len(s) - 1 /\ Tail(s)[i - 1] = x
        BY <2>1, <3>1, <3>3
      <4>2. i - 1 \in DOMAIN Tail(s)
        BY <2>1, <4>1
      <4>3. QED
        BY <4>1, <4>2 DEF ToSet
    <3>4. QED
      BY <3>2, <3>3
  <2>3. ASSUME NEW x \in ToSet(Tail(s)) PROVE x \in ToSet(s)
    <3>1. PICK i \in 1 .. Len(s) - 1 : x = s[i + 1]
      BY <2>1, <2>3 DEF ToSet
    <3>2. i + 1 \in 1 .. Len(s)
      BY <2>1
    <3>3. QED
      BY <2>1, <3>1, <3>2 DEF ToSet
  <2>4. Head(s) \in ToSet(s)
    BY <2>1 DEF ToSet
  <2>5. QED
    BY <2>2, <2>3, <2>4
<1>2. QED
  BY <1>1 DEF ToSet

---------------------------------------------------------------------------
(* How a request is begun by its handler, and how it goes on.               *)
ServedOps ==
  {"create", "update", "delete", "move", "transfer", "reorder", "complete", "block",
   "unblock", "wont_do", "approve", "reject", "seen", "session", "add_dependency"}

Immediate == {"create", "reorder", "session"}

(* A request and the operation it was begun for. *)
Serves(q, op, t) ==
  /\ q.step # "idle" /\ q.task = t
  /\ op \in ServedOps \ Immediate
  /\ q.op = "transfer" <=> op = "transfer"
  /\ q.op = "transfer" => q.step \in {"delete", "recreate"}
  /\ q.step = "recreate" => q.op = "transfer"
  /\ op = "add_dependency" <=> q.step \in {"check_cycle", "link"}
  /\ op = "add_dependency" => \E d \in Tasks : q.edges = {<<t, d>>}

(* The steps of a request that do not end it. *)
Onward(q, p) ==
  /\ p.task = q.task
  /\ \/ /\ q.step \in {"unblock", "approve", "estimate"} /\ p.step = "write"
        /\ p.op # "transfer"
     \/ q.step = "check_deps" /\ p.step = "write" /\ p.op = q.op
     \/ q.step = "write" /\ p.step \in {"comment", "estimate"} /\ p.op = q.op
     \/ q.step = "comment" /\ p.step = "approve" /\ p.op = q.op
     \/ q.step = "delete" /\ p.step = "recreate" /\ p.op = q.op /\ q.op = "transfer"
     \/ q.step = "check_cycle" /\ p.step = "link" /\ p.op = q.op /\ p.edges = q.edges
     \/ q.step = "link" /\ p.step = "link" /\ \E e \in q.edges : q.edges # {e}

(* The request that is not the only one to change. *)
OthersKept(r) == \A s \in Requests \ {r} : req'[s] = req[s]

(* A request that takes a step ends or goes on, and no other request moves. *)
LEMMA ProceedOnward ==
  ASSUME TypeInv, NEW r \in Requests, Proceed(r) \/ Abort(r)
  PROVE  /\ OthersKept(r)
         /\ req'[r] = Idle \/ (Proceed(r) /\ Onward(req[r], req'[r]))
<1>0. req \in [Requests -> Request] /\ req[r] \in Request
  BY DEF TypeInv, TypeOK
<1>q. PICK q : q = req[r]
  OBVIOUS
<1>p. PICK p : p = req'[r]
  OBVIOUS
<1>k. SUFFICES ASSUME TRUE
               PROVE  OthersKept(r) /\ (p = Idle \/ (Proceed(r) /\ Onward(q, p)))
  BY <1>q, <1>p DEF Onward
<1>f. ASSUME Finish(r) PROVE OthersKept(r) /\ p = Idle
  BY <1>f, <1>p, <1>0 DEF Finish, OthersKept
<1>s. ASSUME NEW step, NEW op, NEW t, NEW new, NEW usage, NEW edges,
             Start(r, step, op, t, new, usage, edges)
      PROVE  /\ OthersKept(r)
             /\ p.step = step /\ p.op = op /\ p.task = t /\ p.edges = edges
  BY <1>s, <1>p, <1>0 DEF Start, OthersKept
<1>g. ASSUME NEW step, Goto(r, step)
      PROVE  /\ OthersKept(r)
             /\ p.step = step /\ p.op = q.op /\ p.task = q.task /\ p.edges = q.edges
  BY <1>g, <1>q, <1>p, <1>0 DEF Goto, OthersKept, Request
<1>1. CASE ContinueUnblock(r)
  BY <1>1, <1>f, <1>s, <1>q DEF ContinueUnblock, Reload, Onward, Proceed
<1>2. CASE ContinueWontDo(r)
  BY <1>2, <1>f, <1>s, <1>q DEF ContinueWontDo, Reload, Onward, Proceed
<1>3. CASE ContinueEstimate(r)
  BY <1>3, <1>f, <1>s, <1>q DEF ContinueEstimate, Reload, Onward, Proceed
<1>4. CASE CheckDependencies(r)
  BY <1>4, <1>f, <1>g, <1>q DEF CheckDependencies, Onward, Proceed
<1>5. CASE WriteRow(r)
  BY <1>5, <1>f, <1>s, <1>q DEF WriteRow, Followup, Onward, Proceed
<1>6. CASE WriteFails(r) \/ MarkSeenRow(r) \/ Abort(r)
  BY <1>6, <1>f DEF WriteFails, MarkSeenRow, Abort
<1>7. CASE PostComment(r)
  BY <1>7, <1>f, <1>g, <1>q DEF PostComment, Onward, Proceed
<1>8. CASE DeleteRow(r)
  BY <1>8, <1>f, <1>g, <1>q DEF DeleteRow, Onward, Proceed
<1>9. CASE \E t \in Tasks : RecreateTask(r, t)
  BY <1>9, <1>f DEF RecreateTask
<1>10. CASE CheckCycle(r)
  BY <1>10, <1>f, <1>g, <1>q DEF CheckCycle, Onward, Proceed
<1>11. CASE \E e \in Tasks \X Tasks : InsertDependency(r, e)
  <2>1. PICK e \in Tasks \X Tasks : InsertDependency(r, e)
    BY <1>11
  <2>2. CASE Finish(r)
    BY <2>2, <1>f
  <2>3. CASE ~Finish(r)
    <3>1. /\ req[r].step = "link" /\ e \in req[r].edges /\ req[r].edges # {e}
          /\ req' = [req EXCEPT ![r].edges = @ \ {e}]
      BY <2>1, <2>3 DEF InsertDependency
    <3>2. req'[r] = [req[r] EXCEPT !.edges = @ \ {e}] /\ OthersKept(r)
      BY <3>1, <1>0 DEF OthersKept
    <3>3. req'[r].step = req[r].step /\ req'[r].task = req[r].task
      BY <3>2, <1>0 DEF Request
    <3>4. QED
      BY <3>1, <3>2, <3>3, <1>11, <1>q, <1>p DEF Onward, Proceed
  <2>4. QED
    BY <2>2, <2>3
<1>12. QED
  BY <1>1, <1>2, <1>3, <1>4, <1>5, <1>6, <1>7, <1>8, <1>9, <1>10, <1>11 DEF Proceed

(* A request that goes on still serves what it was begun for.               *)
LEMMA OnwardServes ==
  ASSUME NEW q, NEW p, NEW op, NEW t, Serves(q, op, t), Onward(q, p)
  PROVE  Serves(p, op, t)
BY DEF Serves, Onward

(* Whether a task is there, and its column, stay.                           *)
Same(t) == (t \in live' <=> t \in live) /\ row'[t].col = row[t].col

(* What a step of a request does to the board: only its own task can leave  *)
(* or change its column, and a task appears only when one is recreated.     *)
LEMMA ProceedTouches ==
  ASSUME TypeInv, NEW r \in Requests, Proceed(r) \/ Abort(r)
  PROVE  /\ \A t \in Tasks \ {req[r].task} : t \notin live' \ live => Same(t)
         /\ req[r].step \in {"check_cycle", "link"} => \A t \in Tasks : Same(t)
         /\ \/ live' \ live = {}
            \/ /\ req[r].step = "recreate" /\ req'[r] = Idle
               /\ \E t \in Tasks \ used : live' \ live = {t}
         /\ req[r].step = "recreate" /\ Proceed(r) =>
              req'[r] = Idle /\ \E t \in Tasks \ used : live' \ live = {t}
<1>0. /\ req \in [Requests -> Request] /\ req[r] \in Request /\ req[r].task \in Tasks
      /\ row \in [Tasks -> Row] /\ live \subseteq used /\ used \subseteq Tasks
  BY DEF TypeInv, TypeOK, Request
<1>r. ASSUME Proceed(r), req[r].step = "recreate"
      PROVE  \E t \in Tasks : RecreateTask(r, t)
  BY <1>r DEF Proceed, ContinueUnblock, ContinueWontDo, ContinueEstimate, Reload,
              CheckDependencies, WriteRow, WriteFails, PostComment, MarkSeenRow, DeleteRow,
              CheckCycle, InsertDependency
<1>5. ASSUME NEW t \in Tasks, RecreateTask(r, t)
      PROVE  /\ req[r].step = "recreate" /\ req'[r] = Idle
             /\ t \notin used /\ live' \ live = {t}
             /\ \A x \in Tasks \ {t} : Same(x)
  <2>1. /\ req[r].step = "recreate" /\ t \notin used /\ live' = live \cup {t}
        /\ row' = [row EXCEPT ![t] = req[r].row]
        /\ req'[r] = Idle
    BY <1>5, <1>0 DEF RecreateTask, Finish
  <2>2. live' \ live = {t}
    BY <2>1, <1>0
  <2>3. \A x \in Tasks \ {t} : Same(x)
    BY <2>1, <1>0 DEF Same
  <2>4. QED
    BY <2>1, <2>2, <2>3
<1>c. CASE \E t \in Tasks : RecreateTask(r, t)
  BY <1>c, <1>5
<1>d. CASE ~\E t \in Tasks : RecreateTask(r, t)
  <2> SUFFICES /\ \A t \in Tasks \ {req[r].task} : Same(t)
               /\ req[r].step \in {"check_cycle", "link"} => \A t \in Tasks : Same(t)
               /\ live' \ live = {}
    BY <1>d, <1>r
  <2>b. ASSUME UNCHANGED <<live, row>>
        PROVE  (\A t \in Tasks : Same(t)) /\ live' \ live = {}
    BY <2>b DEF Same
  <2>1. CASE ReadStep(r)
    BY <2>1, <2>b, ReadStepsPrepare DEF TypeInv, Prepared, board
  <2>2. CASE WriteRow(r)
    BY <2>2, <1>0 DEF WriteRow, Same
  <2>3. CASE MarkSeenRow(r)
    <3>1. \A old \in Row : Seen(old).col = old.col
      BY DEF Seen, Row
    <3>2. QED
      BY <2>3, <3>1, <1>0 DEF MarkSeenRow, Same
  <2>4. CASE DeleteRow(r)
    BY <2>4, <1>0 DEF DeleteRow, Same
  <2>5. CASE \E e \in Tasks \X Tasks : InsertDependency(r, e)
    BY <2>5, <2>b DEF InsertDependency
  <2>6. QED
    BY <1>d, <2>1, <2>2, <2>3, <2>4, <2>5 DEF Proceed, ReadStep
<1>e. QED
  BY <1>c, <1>d

(* No edge between tasks that stay is taken away, no id is given back, and  *)
(* no task that was deleted comes back.                                     *)
EdgesKept ==
  /\ used \subseteq used' /\ live' \cap used \subseteq live
  /\ \A e \in deps : e[1] \in live' /\ e[2] \in live' => e \in deps'

(* A row that goes takes its edges along, and nothing else takes an edge.   *)
LEMMA ProceedKeepsEdges ==
  ASSUME TypeInv, NEW r \in Requests, Proceed(r) \/ Abort(r)
  PROVE  EdgesKept
<1>0. live \subseteq used
  BY DEF TypeInv, TypeOK
<1>1. CASE ReadStep(r)
  BY <1>1, <1>0, ReadStepsPrepare DEF TypeInv, Prepared, board, EdgesKept
<1>2. CASE WriteRow(r) \/ MarkSeenRow(r)
  BY <1>2, <1>0 DEF WriteRow, MarkSeenRow, EdgesKept
<1>3. CASE DeleteRow(r)
  BY <1>3, <1>0 DEF DeleteRow, WithoutTask, EdgesKept
<1>4. CASE \E t \in Tasks : RecreateTask(r, t)
  BY <1>4, <1>0 DEF RecreateTask, EdgesKept
<1>5. CASE \E e \in Tasks \X Tasks : InsertDependency(r, e)
  BY <1>5, <1>0 DEF InsertDependency, EdgesKept
<1>6. QED
  BY <1>1, <1>2, <1>3, <1>4, <1>5 DEF Proceed, ReadStep

---------------------------------------------------------------------------
(* The handlers: what they know of the requests they have begun.            *)
HandlerRecord ==
  [op    : ServedOps \cup {"none"},
   tasks : Seq(Tasks),
   stage : {"idle", "serving", "announce", "ok", "error"}]

(* Serving, a handler has a request for its task; a transfer that is to be  *)
(* announced has two tasks to name; and a task that was created is known.   *)
HandlerOK(r) ==
  /\ handler[r].stage # "serving" => req[r].step = "idle"
  /\ handler[r].stage = "serving" =>
       /\ handler[r].tasks = <<req[r].task>>
       /\ Serves(req[r], handler[r].op, req[r].task)
  /\ handler[r].stage = "announce" =>
       /\ handler[r].op \in ServedOps
       /\ Len(handler[r].tasks) = IF handler[r].op = "transfer" THEN 2 ELSE 1
  /\ handler[r].stage # "idle" /\ handler[r].op = "create" =>
       Len(handler[r].tasks) > 0 /\ handler[r].tasks[1] \in used

HandlerInv ==
  /\ workload \in Workloads
  /\ handler \in [Requests -> HandlerRecord]
  /\ \A r \in Requests : HandlerOK(r)

(* The first step of a request.                                             *)
LEMMA HandlesStarts ==
  ASSUME TypeInv, HandlerInv, NEW r \in Requests, NEW op, NEW t \in Tasks,
         req[r].step = "idle", Handles(r, op, t)
  PROVE  /\ op \in ServedOps /\ OthersKept(r)
         /\ Begin(r) \/ UNCHANGED vars
         /\ EdgesKept
         /\ \/ /\ op \in Immediate /\ req'[r].step = "idle"
               /\ \A x \in Tasks \ {t} : Same(x)
               /\ op = "session" => Same(t)
               /\ op = "create" => t \in used'
            \/ /\ UNCHANGED board
               /\ Serves(req'[r], op, t)
<1>0. /\ req \in [Requests -> Request] /\ req[r] \in Request
      /\ row \in [Tasks -> Row] /\ live \subseteq used /\ used \subseteq Tasks
      /\ 0 \in 0 .. MaxUsage /\ workload.to \subseteq Columns
  BY TaskBoardAssumption, LiveBoardAssumption DEF TypeInv, TypeOK, HandlerInv
<1>p. PICK p : p = req'[r]
  OBVIOUS
<1>k. SUFFICES ASSUME TRUE
               PROVE  /\ op \in ServedOps /\ OthersKept(r) /\ EdgesKept
                      /\ Begin(r) \/ UNCHANGED vars
                      /\ \/ /\ op \in Immediate /\ p.step = "idle"
                            /\ \A x \in Tasks \ {t} : Same(x)
                            /\ op = "session" => Same(t)
                            /\ op = "create" => t \in used'
                         \/ UNCHANGED board /\ Serves(p, op, t)
  BY <1>p DEF Serves
<1>b. ASSUME UNCHANGED board PROVE EdgesKept
  BY <1>b, <1>0 DEF board, EdgesKept
<1>s. ASSUME NEW step, NEW o, NEW new, NEW usage, NEW edges,
             Start(r, step, o, t, new, usage, edges)
      PROVE  OthersKept(r) /\ p.step = step /\ p.op = o /\ p.task = t /\ p.edges = edges
  BY <1>s, <1>p, <1>0 DEF Start, OthersKept
<1>1. CASE op = "create" /\ HandleCreate(r, t)
  <2>1. PICK c \in {"todo", "backlog"} : CreateTask(r, t, c)
    BY <1>1 DEF HandleCreate
  <2>2. EdgesKept /\ (\A x \in Tasks \ {t} : Same(x)) /\ t \in used'
    BY <2>1, <1>0 DEF CreateTask, EdgesKept, Same
  <2>3. OthersKept(r) /\ p.step = "idle"
    BY <2>1, <1>p, <1>0 DEF CreateTask, OthersKept, Free
  <2>4. Begin(r)
    BY <2>1 DEF Begin
  <2>5. QED
    BY <1>1, <2>2, <2>3, <2>4 DEF ServedOps, Immediate
<1>2. CASE op = "reorder" /\ HandleReorder(r, t)
  BY <1>2, <1>p, <1>0 DEF HandleReorder, vars, OthersKept, EdgesKept, Same, ServedOps, Immediate
<1>3. CASE op = "session" /\ HandleSession(r, t)
  <2>1. PICK s \in BOOLEAN : UpdateTaskSession(r, t, s)
    BY <1>3 DEF HandleSession
  <2>2. [row[t] EXCEPT !.session = s].col = row[t].col
    BY <1>0 DEF Row
  <2>3. EdgesKept /\ \A x \in Tasks : Same(x)
    BY <2>1, <2>2, <1>0 DEF UpdateTaskSession, EdgesKept, Same
  <2>4. OthersKept(r) /\ p.step = "idle"
    BY <2>1, <1>p, <1>0 DEF UpdateTaskSession, OthersKept, Free
  <2>5. Begin(r)
    BY <2>1 DEF Begin
  <2>6. QED
    BY <1>3, <2>3, <2>4, <2>5 DEF ServedOps, Immediate
<1>4. CASE \/ op = "update" /\ UpdateTask(r, t, 0)
           \/ op = "complete" /\ HandleComplete(r, t)
           \/ op = "block" /\ BlockTask(r, t)
           \/ op = "unblock" /\ HandleUnblock(r, t)
           \/ op = "wont_do" /\ WontDo(r, t)
           \/ op = "approve" /\ HandleApproveWontDo(r, t)
           \/ op = "reject" /\ HandleRejectWontDo(r, t)
           \/ op = "seen" /\ HandleMarkSeen(r, t)
           \/ op = "delete" /\ HandleDelete(r, t)
           \/ op = "transfer" /\ HandleMoveToProject(r, t)
  <2>1. Begin(r)
    BY <1>4, <1>0 DEF Begin, HandleComplete, HandleUnblock, HandleApproveWontDo,
          HandleRejectWontDo, HandleMarkSeen, HandleDelete, HandleMoveToProject
  <2>2. UNCHANGED board
    BY <1>4 DEF UpdateTask, HandleComplete, CompleteTask, BlockTask, HandleUnblock, UnblockTask,
          WontDo, HandleApproveWontDo, ApproveWontDo, HandleRejectWontDo, RejectWontDo,
          HandleMarkSeen, MarkTaskSeen, HandleDelete, DeleteTask, HandleMoveToProject,
          MoveTaskToProject
  <2>3. OthersKept(r) /\ op \in ServedOps /\ Serves(p, op, t)
    BY <1>4, <1>s DEF UpdateTask, HandleComplete, CompleteTask, BlockTask, HandleUnblock,
          UnblockTask, WontDo, HandleApproveWontDo, ApproveWontDo, HandleRejectWontDo,
          RejectWontDo, HandleMarkSeen, MarkTaskSeen, HandleDelete, DeleteTask,
          HandleMoveToProject, MoveTaskToProject, Serves, ServedOps, Immediate
  <2>4. QED
    BY <2>1, <2>2, <2>3, <1>b
<1>5. CASE op = "move" /\ HandleMove(r, t)
  <2>1. PICK c \in Columns : MoveTask(r, t, c)
    BY <1>5, <1>0 DEF HandleMove
  <2>2. Begin(r) /\ UNCHANGED board
    BY <2>1 DEF Begin, MoveTask
  <2>3. OthersKept(r) /\ op \in ServedOps /\ Serves(p, op, t)
    BY <1>5, <2>1, <1>s DEF MoveTask, Serves, ServedOps, Immediate
  <2>4. QED
    BY <2>2, <2>3, <1>b
<1>6. CASE op = "add_dependency" /\ HandleAddDependency(r, t)
  <2>1. PICK d \in Tasks : AddDependency(r, t, d)
    BY <1>6 DEF HandleAddDependency
  <2>2. Begin(r) /\ UNCHANGED board
    BY <2>1 DEF Begin, AddDependency
  <2>3. OthersKept(r) /\ op \in ServedOps /\ Serves(p, op, t)
    BY <1>6, <2>1, <1>s DEF AddDependency, Serves, ServedOps, Immediate
  <2>4. QED
    BY <2>2, <2>3, <1>b
<1>7. QED
  BY <1>1, <1>2, <1>3, <1>4, <1>5, <1>6 DEF Handles

(* The later steps of a request, and what its handler makes of the last: it *)
(* will announce all tasks that were touched, or it has failed.             *)
LEMMA ServedStep ==
  ASSUME TypeInv, HandlerInv, NEW r \in Requests, Advance(r) \/ Quit(r)
  PROVE  /\ handler[r].stage = "serving" /\ UNCHANGED <<workload, pageVars>>
         /\ OthersKept(r)
         /\ \/ /\ Serves(req'[r], handler[r].op, req[r].task)
               /\ UNCHANGED <<handler, missed>> /\ live' \ live = {}
            \/ req'[r] = Idle /\ Fail(r) /\ live' \ live = {}
            \/ /\ req'[r] = Idle /\ UNCHANGED missed
               /\ \E s \in Seq(Tasks) :
                    /\ handler' = [handler EXCEPT ![r].stage = "announce", ![r].tasks = @ \o s]
                    /\ live' \ live = ToSet(s)
                    /\ Len(s) = IF handler[r].op = "transfer" THEN 1 ELSE 0
<1>q. PICK q : q = req[r]
  OBVIOUS
<1>p. PICK p : p = req'[r]
  OBVIOUS
<1>n. PICK new : new = live' \ live
  OBVIOUS
<1>0. /\ handler[r].stage = "serving" /\ Serves(q, handler[r].op, q.task)
      /\ UNCHANGED <<workload, pageVars>> /\ (Proceed(r) \/ Abort(r))
  BY <1>q DEF Advance, Quit, HandlerInv, HandlerOK
<1>1. OthersKept(r) /\ (p = Idle \/ (Proceed(r) /\ Onward(q, p)))
  BY <1>0, <1>p, <1>q, ProceedOnward DEF Onward
<1>2. /\ new = {} \/ (q.step = "recreate" /\ p = Idle /\ \E t \in Tasks : new = {t})
      /\ q.step = "recreate" /\ Proceed(r) => p = Idle /\ \E t \in Tasks : new = {t}
  BY <1>0, <1>n, <1>p, <1>q, ProceedTouches
<1>3. Idle.step = "idle"
  BY DEF Idle
<1>4. CASE p.step # "idle"
  <2>1. Onward(q, p) /\ new = {}
    BY <1>1, <1>2, <1>3, <1>4
  <2>2. Serves(p, handler[r].op, q.task)
    BY <1>0, <2>1, OnwardServes
  <2>3. UNCHANGED <<handler, missed>>
    BY <1>4, <1>p DEF Advance, Quit, Outcome
  <2>4. QED
    BY <1>0, <1>1, <2>1, <2>2, <2>3, <1>n, <1>p, <1>q DEF Serves
<1>5. CASE p.step = "idle"
  <2>1. p = Idle
    BY <1>1, <1>5 DEF Onward
  <2>2. \/ Proceed(r) /\ (IF LastStepWorks(r) THEN Succeed(r) ELSE Fail(r))
        \/ Abort(r) /\ (IF ErrorIgnored(r) THEN Succeed(r) ELSE Fail(r))
    BY <1>5, <1>p DEF Advance, Quit, Outcome
  <2>3. ErrorIgnored(r) => handler[r].op # "transfer" /\ q.step # "recreate"
    BY <1>0, <1>q DEF ErrorIgnored, Serves
  <2>4. Abort(r) => new = {}
    BY <1>n DEF Abort, board
  <2>5. CASE Fail(r) /\ new = {}
    BY <2>1, <2>5, <1>0, <1>1, <1>n, <1>p
  <2>6. ASSUME Succeed(r), NEW s \in Seq(Tasks), SetToSeq(new) = s, new = ToSet(s),
               Len(s) = IF handler[r].op = "transfer" THEN 1 ELSE 0
        PROVE  /\ UNCHANGED missed
               /\ handler' = [handler EXCEPT ![r].stage = "announce", ![r].tasks = @ \o s]
    BY <2>6, <1>n DEF Succeed
  <2>7. ASSUME new = {}
        PROVE  \E s \in Seq(Tasks) : SetToSeq(new) = s /\ new = ToSet(s) /\ Len(s) = 0
    <3>1. <<>> \in Seq(Tasks) /\ Len(<<>>) = 0
      OBVIOUS
    <3>2. SetToSeq(new) = <<>> /\ new = ToSet(<<>>)
      BY <2>7, ListedSets
    <3>3. QED
      BY <3>1, <3>2
  <2>8. ASSUME NEW t \in Tasks, new = {t}
        PROVE  \E s \in Seq(Tasks) : SetToSeq(new) = s /\ new = ToSet(s) /\ Len(s) = 1
    <3>1. <<t>> \in Seq(Tasks) /\ Len(<<t>>) = 1
      OBVIOUS
    <3>2. SetToSeq(new) = <<t>> /\ new = ToSet(<<t>>)
      BY <2>8, ListedSets
    <3>3. QED
      BY <3>1, <3>2
  <2>9. CASE Succeed(r) /\ Abort(r) /\ ErrorIgnored(r)
    BY <2>1, <2>3, <2>4, <2>6, <2>7, <2>9, <1>0, <1>1, <1>n, <1>p
  <2>10. CASE Succeed(r) /\ Proceed(r) /\ LastStepWorks(r)
    <3>1. CASE handler[r].op = "transfer"
      <4>1. q.step \in {"delete", "recreate"} /\ q.op = "transfer"
        BY <1>0, <3>1 DEF Serves
      <4>2. CASE q.step = "recreate"
        <5>1. PICK t \in Tasks : new = {t}
          BY <1>2, <4>2, <2>10
        <5>2. QED
          BY <2>1, <2>6, <2>8, <2>10, <3>1, <5>1, <1>0, <1>1, <1>n, <1>p
      <4>3. CASE q.step = "delete"
        <5>1. q.task \in live
          BY <2>3, <2>10, <3>1, <4>3, <1>q DEF LastStepWorks, Found
        <5>2. DeleteRow(r)
          BY <2>10, <4>3, <1>q DEF Proceed, ContinueUnblock, ContinueWontDo, ContinueEstimate,
             Reload, CheckDependencies, WriteRow, WriteFails, PostComment, MarkSeenRow,
             RecreateTask, CheckCycle, InsertDependency
        <5>3. Goto(r, "recreate")
          BY <4>1, <5>1, <5>2, <1>q DEF DeleteRow
        <5>4. p.step = "recreate"
          BY <5>3, <1>p DEF Goto, TypeInv, TypeOK, Request
        <5>5. QED
          BY <1>5, <5>4
      <4>4. QED
        BY <4>1, <4>2, <4>3
    <3>2. CASE handler[r].op # "transfer"
      <4>1. q.step # "recreate"
        BY <1>0, <3>2 DEF Serves
      <4>2. new = {}
        BY <1>2, <4>1
      <4>3. QED
        BY <2>1, <2>6, <2>7, <2>10, <3>2, <4>2, <1>0, <1>1, <1>n, <1>p
    <3>3. QED
      BY <3>1, <3>2
  <2>11. Fail(r) /\ Proceed(r) /\ ~LastStepWorks(r) => new = {}
    BY <1>2, <1>q DEF LastStepWorks
  <2>12. QED
    BY <2>2, <2>4, <2>5, <2>9, <2>10, <2>11
<1>6. QED
  BY <1>4, <1>5

(* The steps of the clients, as the board, the handlers and the page see    *)
(* them.                                                                    *)
Requested(r) == \E op \in ServedOps, t \in Tasks : Serve(r, op, t)

Taken(a) == handler[a].stage \in {"ok", "error"} /\ Take(a)

LiveStep ==
  \/ \E r \in Requests : Advance(r) \/ Quit(r) \/ AnswerLost(r) \/ Announce(r) \/ Requested(r)
  \/ \E a \in Agents : Taken(a)
  \/ Restart
  \/ PageNext
  \/ UNCHANGED liveVars

(* Each step of the dashboard, of an agent or of the query is one of these. *)
LEMMA LiveKinds ==
  ASSUME TypeInv, HandlerInv, AllNext
  PROVE  LiveStep
<1>1. ASSUME NEW r \in Requests, NEW op, NEW t, Serve(r, op, t),
             t \in Tasks \/ op = "add_dependency"
      PROVE  LiveStep
  <2>1. op \in ServedOps
    BY <1>1 DEF Serve, Handles, ServedOps
  <2>2. t \in Tasks
    BY <1>1 DEF Serve, Handles, HandleAddDependency, AddDependency, Found, TypeInv, TypeOK
  <2>3. QED
    BY <1>1, <2>1, <2>2 DEF LiveStep, Requested
<1>2. CASE HandlerNext
  <2>1. workload.requests \subseteq Requests
    BY LiveBoardAssumption DEF HandlerInv
  <2>2. QED
    BY <1>1, <1>2, <2>1 DEF HandlerNext, LiveStep
<1>3. CASE PageNext
  BY <1>3 DEF LiveStep
<1>4. CASE QueryNext
  BY <1>4 DEF QueryNext, AskNextTasks, ReadReady, ReadBelowFails, AnswerQuery, TakeNextTasks,
              LiveStep
<1>5. ASSUME NEW a \in Agents, AgentNext(a)
      PROVE  LiveStep
  <2>0. a \in Requests
    BY LiveBoardAssumption
  <2>1. CASE UNCHANGED liveVars
    BY <2>1 DEF LiveStep
  <2>2. CASE \/ \E batch \in Batches : BulkCreateTool(a, batch)
             \/ \E links \in LinkLists : BulkAddTool(a, links)
             \/ \E name \in DOMAIN OperationOf : TaskTool(a, name)
             \/ BatchDone(a) \/ LinksDone(a) \/ CallFails(a)
    BY <2>1, <2>2 DEF BulkCreateTool, BulkAddTool, TaskTool, Call, BatchDone, LinksDone, CallFails
  <2>3. CASE TakeCreated(a) \/ TakeAdded(a) \/ TakeDone(a) \/ TakeError(a)
    BY <2>3 DEF TakeCreated, TakeAdded, TakeDone, TakeError, Answered, Taken, LiveStep
  <2>4. CASE \E t \in Tasks : CreateNext(a, t) \/ CallTask(a, t)
    BY <2>0, <2>4, <1>1 DEF CreateNext, CallTask, Forward
  <2>5. CASE AddNext(a) \/ AddLink(a)
    BY <2>0, <2>5, <1>1 DEF AddNext, AddLink, Forward
  <2>6. QED
    BY <1>5, <2>2, <2>3, <2>4, <2>5 DEF AgentNext
<1>6. QED
  BY <1>2, <1>3, <1>4, <1>5 DEF AllNext

(* To the board, a step of the clients is a step of one request, or the     *)
(* restart that ends them all.                                              *)
LEMMA LiveStepsOnBoard ==
  ASSUME TypeInv, HandlerInv, LiveStep
  PROVE  /\ [Next]_vars \/ (req' = [r \in Requests |-> Idle] /\ UNCHANGED board)
         /\ EdgesKept
         /\ workload' = workload
<1>0. live \subseteq used
  BY DEF TypeInv, TypeOK
<1>u. ASSUME UNCHANGED board PROVE EdgesKept
  BY <1>u, <1>0 DEF board, EdgesKept
<1>v. ASSUME UNCHANGED vars PROVE UNCHANGED board
  BY <1>v DEF vars, board
<1>1. ASSUME NEW r \in Requests, Advance(r) \/ Quit(r)
      PROVE  [Next]_vars /\ EdgesKept /\ workload' = workload
  <2>1. Proceed(r) \/ Abort(r)
    BY <1>1 DEF Advance, Quit
  <2>2. QED
    BY <1>1, <2>1, ProceedKeepsEdges, ServedStep DEF Next
<1>2. ASSUME NEW r \in Requests, AnswerLost(r) \/ Announce(r)
      PROVE  UNCHANGED <<vars, workload>>
  BY <1>2 DEF AnswerLost, Announce
<1>3. ASSUME NEW r \in Requests, Requested(r)
      PROVE  [Next]_vars /\ EdgesKept /\ workload' = workload
  <2>1. PICK op \in ServedOps, t \in Tasks : Serve(r, op, t)
    BY <1>3 DEF Requested
  <2>2. handler[r].stage = "idle" /\ Handles(r, op, t) /\ workload' = workload
    BY <2>1 DEF Serve
  <2>3. req[r].step = "idle"
    BY <2>2 DEF HandlerInv, HandlerOK
  <2>4. EdgesKept /\ (Begin(r) \/ UNCHANGED vars)
    BY <2>2, <2>3, HandlesStarts
  <2>5. QED
    BY <2>2, <2>4 DEF Next
<1>4. ASSUME NEW a \in Agents, Taken(a) PROVE UNCHANGED <<vars, workload>>
  BY <1>4 DEF Taken, Take
<1>5. CASE Restart
  BY <1>5, <1>u DEF Restart
<1>6. CASE PageNext
  BY <1>6, <1>u, <1>v DEF PageNext, Receive, ReadStatement, ReadChildrenFails, ShowAnswer, LoadFails
<1>7. CASE UNCHANGED liveVars
  BY <1>7, <1>u, <1>v DEF liveVars
<1>8. QED
  BY <1>1, <1>2, <1>3, <1>4, <1>5, <1>6, <1>7, <1>u, <1>v DEF LiveStep

(* The types of the board hold with all its clients, restarts included.     *)
LEMMA LiveTypeInv ==
  ASSUME TypeInv, HandlerInv, LiveStep
  PROVE  TypeInv'
<1>1. CASE [Next]_vars
  BY <1>1, TypeInvNext
<1>2. CASE req' = [r \in Requests |-> Idle] /\ UNCHANGED board
  BY <1>2, IdleIsRequest DEF board, TypeInv, TypeOK, Idle
<1>3. QED
  BY <1>1, <1>2, LiveStepsOnBoard

(* Nothing is being served when the clients start.                          *)
LEMMA HandlerInvInit == LiveInit => HandlerInv
<1>1. NoHandler \in HandlerRecord /\ NoHandler.stage = "idle"
  BY DEF NoHandler, HandlerRecord
<1>2. Idle.step = "idle"
  BY DEF Idle
<1>3. QED
  BY <1>1, <1>2 DEF LiveInit, Init, HandlerInv, HandlerOK

(* Every step of the clients leaves the handlers with what they know.       *)
LEMMA HandlerInvNext ==
  ASSUME TypeInv, HandlerInv, LiveStep
  PROVE  HandlerInv'
<1>0. /\ workload \in Workloads /\ workload' = workload
      /\ handler \in [Requests -> HandlerRecord] /\ (\A r \in Requests : HandlerOK(r))
      /\ used \subseteq used' /\ Agents \subseteq Requests
      /\ \A r \in Requests : req[r].task \in Tasks
  BY LiveStepsOnBoard, LiveBoardAssumption DEF HandlerInv, EdgesKept, TypeInv, TypeOK, Request
<1>i. /\ NoHandler \in HandlerRecord /\ NoHandler.stage = "idle"
      /\ Idle.step = "idle"
  BY DEF NoHandler, HandlerRecord, Idle
<1>f. ASSUME NEW r \in Requests, OthersKept(r), NEW h \in HandlerRecord,
             handler' = [handler EXCEPT ![r] = h], HandlerOK(r)'
      PROVE  HandlerInv'
  <2>1. \A s \in Requests \ {r} : req'[s] = req[s] /\ handler'[s] = handler[s]
    BY <1>f, <1>0 DEF OthersKept
  <2>2. \A s \in Requests \ {r} : HandlerOK(s)'
    BY <2>1, <1>0 DEF HandlerOK
  <2>3. QED
    BY <1>0, <1>f, <2>2 DEF HandlerInv
<1>a. ASSUME NEW r \in Requests, NEW outcome \in {"ok", "error"}, Answer(r, outcome),
             OthersKept(r), req'[r].step = "idle", handler[r].stage # "idle"
      PROVE  HandlerInv'
  <2>1. PICK h : /\ h \in HandlerRecord /\ handler' = [handler EXCEPT ![r] = h]
                 /\ \/ h.stage = outcome /\ h.op = handler[r].op /\ h.tasks = handler[r].tasks
                    \/ h.stage = "idle"
    <3>1. CASE r \in Agents
      <4>1. PICK h : h = [handler[r] EXCEPT !.stage = outcome]
        OBVIOUS
      <4>2. handler' = [handler EXCEPT ![r] = h]
        BY <1>a, <3>1, <4>1 DEF Answer
      <4>3. /\ h \in HandlerRecord /\ h.stage = outcome
            /\ h.op = handler[r].op /\ h.tasks = handler[r].tasks
        BY <4>1, <1>0 DEF HandlerRecord
      <4>4. QED
        BY <4>2, <4>3
    <3>2. CASE r \notin Agents
      BY <1>a, <3>2, <1>i DEF Answer
    <3>3. QED
      BY <3>1, <3>2
  <2>2. handler'[r] = h
    BY <2>1, <1>0
  <2>3. HandlerOK(r)'
    BY <1>a, <2>1, <2>2, <1>0 DEF HandlerOK
  <2>4. QED
    BY <1>a, <2>1, <2>3, <1>f
<1>1. ASSUME NEW r \in Requests, Advance(r) \/ Quit(r)
      PROVE  HandlerInv'
  <2>1. OthersKept(r) /\ handler[r].stage = "serving"
    BY <1>1, ServedStep
  <2>2. CASE Serves(req'[r], handler[r].op, req[r].task) /\ UNCHANGED handler
    <3>1. PICK p : p = req'[r]
      OBVIOUS
    <3>2. Serves(p, handler[r].op, p.task) /\ p.task = req[r].task
      BY <2>2, <3>1 DEF Serves
    <3>3. Serves(p, handler'[r].op, p.task) /\ handler'[r].tasks = <<p.task>>
      BY <2>1, <2>2, <3>2, <1>0 DEF HandlerOK
    <3>4. HandlerOK(r)'
      BY <2>1, <2>2, <3>1, <3>3, <1>0 DEF HandlerOK, Serves
    <3>5. handler' = [handler EXCEPT ![r] = handler[r]] /\ handler[r] \in HandlerRecord
      BY <2>2, <1>0
    <3>6. QED
      BY <2>1, <3>4, <3>5, <1>f
  <2>3. CASE req'[r] = Idle /\ Fail(r)
    BY <2>1, <2>3, <1>a, <1>i DEF Fail
  <2>4. ASSUME req'[r] = Idle, NEW s \in Seq(Tasks),
               handler' = [handler EXCEPT ![r].stage = "announce", ![r].tasks = @ \o s],
               Len(s) = IF handler[r].op = "transfer" THEN 1 ELSE 0
        PROVE  HandlerInv'
    <3>1. PICK h : /\ h \in HandlerRecord /\ handler' = [handler EXCEPT ![r] = h]
                   /\ h.stage = "announce" /\ h.op = handler[r].op
                   /\ h.tasks = handler[r].tasks \o s
      <4>1. PICK h : h = [handler[r] EXCEPT !.stage = "announce", !.tasks = @ \o s]
        OBVIOUS
      <4>2. handler' = [handler EXCEPT ![r] = h]
        BY <2>4, <4>1, <1>0
      <4>3. /\ h \in HandlerRecord /\ h.stage = "announce"
            /\ h.op = handler[r].op /\ h.tasks = handler[r].tasks \o s
        <5>1. handler[r] \in HandlerRecord /\ handler[r].tasks \o s \in Seq(Tasks)
          BY <1>0 DEF HandlerRecord
        <5>2. QED
          BY <4>1, <5>1 DEF HandlerRecord
      <4>4. QED
        BY <4>2, <4>3
    <3>2. handler'[r] = h
      BY <3>1, <1>0
    <3>3. /\ handler[r].tasks = <<req[r].task>>
          /\ h.op \in ServedOps \ Immediate
      BY <2>1, <3>1, <1>0 DEF HandlerOK, Serves
    <3>4. Len(h.tasks) = IF h.op = "transfer" THEN 2 ELSE 1
      BY <2>4, <3>1, <3>3, <1>0
    <3>5. HandlerOK(r)'
      BY <2>4, <3>1, <3>2, <3>3, <3>4, <1>i DEF HandlerOK, Immediate
    <3>6. QED
      BY <2>1, <3>1, <3>5, <1>f
  <2>5. QED
    BY <1>1, <2>2, <2>3, <2>4, ServedStep
<1>2. ASSUME NEW r \in Requests, AnswerLost(r) \/ Announce(r)
      PROVE  HandlerInv'
  <2>1. /\ UNCHANGED req /\ handler[r].stage = "announce"
        /\ \E outcome \in {"ok", "error"} : Answer(r, outcome)
    BY <1>2 DEF AnswerLost, Announce, Fail, vars
  <2>2. OthersKept(r) /\ req'[r].step = "idle"
    BY <2>1, <1>0 DEF OthersKept, HandlerOK
  <2>3. QED
    BY <2>1, <2>2, <1>a
<1>3. ASSUME NEW r \in Requests, Requested(r)
      PROVE  HandlerInv'
  <2>1. PICK op \in ServedOps, t \in Tasks : Serve(r, op, t)
    BY <1>3 DEF Requested
  <2>p. PICK p : p = req'[r]
    OBVIOUS
  <2>2. req[r].step = "idle" /\ Handles(r, op, t)
    BY <2>1, <1>0 DEF Serve, HandlerOK
  <2>3. /\ OthersKept(r)
        /\ \/ op \in Immediate /\ p.step = "idle" /\ (op = "create" => t \in used')
           \/ Serves(p, op, t)
    BY <2>2, <2>p, HandlesStarts DEF Serves
  <2>4. PICK h : h = [op |-> op, tasks |-> <<t>>,
                      stage |-> IF p.step = "idle" THEN "announce" ELSE "serving"]
    OBVIOUS
  <2>5. h \in HandlerRecord /\ handler' = [handler EXCEPT ![r] = h] /\ handler'[r] = h
    BY <2>1, <2>4, <2>p, <1>0 DEF Serve, HandlerRecord
  <2>6. HandlerOK(r)'
    <3>1. h.op = op /\ h.tasks = <<t>> /\ Len(h.tasks) = 1 /\ h.tasks[1] = t
      BY <2>4
    <3>2. CASE p.step = "idle"
      <4>1. h.stage = "announce" /\ op \in Immediate /\ (op = "create" => t \in used')
        BY <2>3, <2>4, <3>2 DEF Serves
      <4>2. /\ h.stage = "announce" /\ h.op \in ServedOps
            /\ Len(h.tasks) = IF h.op = "transfer" THEN 2 ELSE 1
            /\ h.op = "create" => Len(h.tasks) > 0 /\ h.tasks[1] \in used'
        BY <3>1, <4>1 DEF Immediate
      <4>3. handler'[r] = h /\ req'[r].step = "idle"
        BY <2>5, <2>p, <3>2
      <4>4. QED
        BY <4>2, <4>3 DEF HandlerOK
    <3>3. CASE p.step # "idle"
      <4>1. h.stage = "serving" /\ Serves(p, op, t) /\ p.task = t /\ op \notin Immediate
        BY <2>3, <2>4, <3>3 DEF Serves
      <4>2. h.tasks = <<p.task>> /\ Serves(p, h.op, p.task)
        BY <3>1, <4>1
      <4>3. QED
        BY <2>5, <2>p, <3>1, <4>1, <4>2 DEF HandlerOK, Immediate, Serves
    <3>4. QED
      BY <3>2, <3>3
  <2>7. QED
    BY <2>3, <2>5, <2>6, <1>f
<1>4. ASSUME NEW a \in Agents, Taken(a)
      PROVE  HandlerInv'
  <2>1. UNCHANGED req /\ handler' = [handler EXCEPT ![a] = NoHandler] /\ a \in Requests
    BY <1>4, <1>0 DEF Taken, Take, vars
  <2>2. OthersKept(a) /\ req'[a].step = "idle"
    BY <1>4, <2>1, <1>0 DEF OthersKept, HandlerOK, Taken
  <2>3. handler'[a] = NoHandler
    BY <2>1, <1>0
  <2>4. HandlerOK(a)'
    BY <2>2, <2>3, <1>i DEF HandlerOK
  <2>5. QED
    BY <2>1, <2>2, <2>4, <1>f, <1>i
<1>5. CASE Restart
  <2>1. /\ req' = [r \in Requests |-> Idle]
        /\ handler' = [r \in Requests |->
                         IF r \in Agents /\ handler[r].stage # "idle"
                         THEN [handler[r] EXCEPT !.stage = "error"] ELSE NoHandler]
    BY <1>5 DEF Restart
  <2>2. ASSUME NEW r \in Requests PROVE handler'[r] \in HandlerRecord /\ HandlerOK(r)'
    <3>1. CASE r \in Agents /\ handler[r].stage # "idle"
      <4>1. PICK h : h = [handler[r] EXCEPT !.stage = "error"]
        OBVIOUS
      <4>2. /\ h \in HandlerRecord /\ h.stage = "error"
            /\ h.op = handler[r].op /\ h.tasks = handler[r].tasks
        BY <4>1, <1>0 DEF HandlerRecord
      <4>3. handler'[r] = h /\ req'[r].step = "idle"
        BY <2>1, <3>1, <4>1, <1>i
      <4>4. QED
        BY <3>1, <4>2, <4>3, <1>0 DEF HandlerOK
    <3>2. CASE ~(r \in Agents /\ handler[r].stage # "idle")
      <4>1. handler'[r] = NoHandler /\ req'[r].step = "idle"
        BY <2>1, <3>2, <1>i
      <4>2. QED
        BY <4>1, <1>i DEF HandlerOK
    <3>3. QED
      BY <3>1, <3>2
  <2>3. handler' \in [Requests -> HandlerRecord]
    BY <2>1, <2>2
  <2>4. QED
    BY <2>2, <2>3, <1>0 DEF HandlerInv
<1>6. CASE PageNext \/ UNCHANGED liveVars
  <2>1. UNCHANGED <<vars, workload, handler>>
    BY <1>6 DEF PageNext, Receive, ReadStatement, ReadChildrenFails, ShowAnswer, LoadFails, liveVars
  <2>2. QED
    BY <2>1, <1>0 DEF vars, HandlerInv, HandlerOK
<1>7. QED
  BY <1>1, <1>2, <1>3, <1>4, <1>5, <1>6 DEF LiveStep

---------------------------------------------------------------------------
(* The page.  A task is known when nothing that was done to it is still to  *)
(* be announced, or to be read in the inbox, or has been missed.            *)
Changing(r) ==
  /\ handler[r].stage \in {"serving", "announce"}
  /\ handler[r].op \notin {"session", "add_dependency"}

Pending(t) == \E r \in Requests : Changing(r) /\ t \in ToSet(handler[r].tasks)

Announced(t) == \E i \in 1 .. Len(inbox) : inbox[i].task = t

Known == {t \in Tasks \ missed : ~Pending(t) /\ ~Announced(t)}

(* What a load will show when it is over, if nothing happens meanwhile.     *)
Coming(load) == load.found \cup UNION {Listed(stmt) : stmt \in ToSet(load.left)}

(* A view that is missing some projects is right about a task. *)
Current(view, without, t) ==
  ProjectOf[t] \notin without =>
    \A c \in Columns : <<c, t>> \in view <=> <<c, t>> \in ListedNow(page)

(* So will the load be. *)
Promising(load, t) == Current(Coming(load), load.skipped, t)

(* The load that was begun last is on its way. *)
Fresh == loads # <<>> /\ ~loads[Len(loads)].overtaken

Messages ==
  {Event(type, t) : type \in {EventType(op) : op \in ServedOps} \cup {"task_created"},
                    t \in Tasks}

Load ==
  [left      : Seq(ToSet(Statements(page))),
   found     : SUBSET {<<stmt.column, t>> : stmt \in ToSet(Statements(page)), t \in Tasks},
   skipped   : SUBSET ToSet(ChildrenOf[page.project]),
   overtaken : BOOLEAN]

PageTypes == inbox \in Seq(Messages) /\ loads \in Seq(Load) /\ stale \in BOOLEAN

(* Whoever was overtaken has overtaken whatever was asked before him. *)
OldestOvertaken ==
  \A j, k \in 1 .. Len(loads) : j < k /\ loads[k].overtaken => loads[j].overtaken

(* The load that was begun last, or else what is shown, is right about each *)
(* task that is known.                                                      *)
KnownAreShown ==
  \A t \in Known : /\ Fresh => Promising(loads[Len(loads)], t)
                   /\ ~Fresh /\ ~stale => Current(shown, unread, t)

PageInv ==
  /\ PageTypes /\ OldestOvertaken
  /\ IF page.kind = "none" THEN inbox = <<>> /\ loads = <<>> /\ shown = {}
     ELSE KnownAreShown

(* The statements of a load are a sequence, and a page without tasks has    *)
(* none.                                                                    *)
LEMMA StatementsListed ==
  ASSUME HandlerInv
  PROVE  /\ Statements(page) \in Seq(ToSet(Statements(page)))
         /\ page.kind = "none" => ToSet(Statements(page)) = {} /\ ListedNow(page) = {}
<1>p. PICK pg : pg = page
  OBVIOUS
<1>1. /\ pg.kind \in {"kanban", "backlog", "none"}
      /\ pg.project \in DOMAIN ChildrenOf
      /\ ChildrenOf[pg.project] \in Seq(DOMAIN ChildrenOf)
  BY <1>p, LiveBoardAssumption DEF HandlerInv, page
<1>2. PICK n : n = Len(Projects(pg.project))
  OBVIOUS
<1>3. n \in Nat
  BY <1>1, <1>2 DEF Projects
<1>4. PICK columns : columns = CASE pg.kind = "kanban"  -> KanbanColumns
                                 [] pg.kind = "backlog" -> <<"backlog">>
                                 [] pg.kind = "none"    -> <<>>
  OBVIOUS
<1>5. PICK N : N = Len(columns) * n
  OBVIOUS
<1>6. Len(columns) \in {0, 1, 5} /\ (pg.kind = "none" => Len(columns) = 0)
  <2>1. Len(KanbanColumns) = 5 /\ Len(<<"backlog">>) = 1 /\ Len(<<>>) = 0
    BY DEF KanbanColumns
  <2>2. QED
    BY <1>1, <1>4, <2>1
<1>7. N \in Nat /\ (pg.kind = "none" => N = 0)
  BY <1>3, <1>5, <1>6
<1>8. PICK s : s = Statements(pg)
  OBVIOUS
<1>9. s = [i \in 1 .. N |-> [column  |-> columns[((i - 1) \div n) + 1],
                              project |-> Projects(pg.project)[((i - 1) % n) + 1]]]
  BY <1>2, <1>4, <1>5, <1>8 DEF Statements
<1>10. DOMAIN s = 1 .. N /\ s = [i \in 1 .. N |-> s[i]]
  BY <1>9
<1>11. s \in Seq(ToSet(s))
  BY <1>7, <1>10 DEF ToSet
<1>12. ASSUME pg.kind = "none" PROVE ToSet(s) = {}
  BY <1>7, <1>10, <1>12 DEF ToSet
<1>13. QED
  BY <1>p, <1>8, <1>11, <1>12 DEF ListedNow

(* A task that stays where it is stays in what a statement returns.         *)
LEMMA SameListed ==
  ASSUME NEW t \in Tasks, NEW stmt, NEW c, Same(t), live \subseteq Tasks, live' \subseteq Tasks
  PROVE  <<c, t>> \in Listed(stmt) <=> <<c, t>> \in Listed(stmt)'
<1>1. <<c, t>> \in Listed(stmt) <=>
        t \in live /\ row[t].col = stmt.column /\ ProjectOf[t] = stmt.project /\ c = stmt.column
  BY DEF Listed
<1>2. <<c, t>> \in Listed(stmt)' <=>
        t \in live' /\ row'[t].col = stmt.column /\ ProjectOf[t] = stmt.project /\ c = stmt.column
  BY DEF Listed
<1>3. QED
  BY <1>1, <1>2 DEF Same

(* The page stays what it is.                                               *)
LEMMA PageKept ==
  ASSUME workload' = workload
  PROVE  /\ page' = page /\ Statements(page)' = Statements(page) /\ Load' = Load
<1>1. page' = page
  BY DEF page
<1>2. Statements(page)' = Statements(page)
  BY <1>1 DEF Statements, Projects, KanbanColumns
<1>3. QED
  BY <1>1, <1>2 DEF Load

(* Steps that leave the page alone: they are right when the tasks that are  *)
(* known afterwards were known before and stay where they are.              *)
LEMMA PageFrame ==
  ASSUME PageInv, workload' = workload, UNCHANGED <<loads, shown, unread, stale>>,
         live \subseteq Tasks, live' \subseteq Tasks,
         inbox' \in Seq(Messages),
         page.kind = "none" => inbox' = inbox,
         page.kind # "none" => \A t \in Known' : t \in Known /\ Same(t)
  PROVE  PageInv'
<1>1. page' = page /\ Statements(page)' = Statements(page) /\ Load' = Load /\ Messages' = Messages
  BY PageKept DEF Messages, Event, EventType
<1>2. PageTypes' /\ OldestOvertaken'
  BY <1>1 DEF PageInv, PageTypes, OldestOvertaken
<1>3. CASE page.kind = "none"
  BY <1>1, <1>2, <1>3 DEF PageInv
<1>4. CASE page.kind # "none"
  <2>1. ASSUME NEW t \in Known'
        PROVE  /\ Fresh' => Promising(loads[Len(loads)], t)'
               /\ ~Fresh' /\ ~stale' => Current(shown, unread, t)'
    <3>1. t \in Known /\ Same(t) /\ t \in Tasks
      BY <1>4, <2>1 DEF Known
    <3>2. \A c \in Columns : <<c, t>> \in ListedNow(page) <=> <<c, t>> \in ListedNow(page)'
      BY <1>1, <3>1, SameListed DEF ListedNow
    <3>3. ASSUME NEW load
          PROVE  \A c \in Columns : <<c, t>> \in Coming(load) <=> <<c, t>> \in Coming(load)'
      BY <3>1, SameListed DEF Coming
    <3>4. PICK load : load = loads[Len(loads)]
      OBVIOUS
    <3>5. (Fresh => Promising(load, t)) /\ (~Fresh /\ ~stale => Current(shown, unread, t))
      BY <1>4, <3>1, <3>4 DEF PageInv, KnownAreShown
    <3>6. Fresh' <=> Fresh
      BY DEF Fresh
    <3>7. Promising(load, t) => Promising(load, t)'
      BY <3>2, <3>3 DEF Promising, Current
    <3>8. Current(shown, unread, t) => Current(shown, unread, t)'
      BY <3>2 DEF Current
    <3>9. QED
      BY <3>4, <3>5, <3>6, <3>7, <3>8
  <2>2. QED
    BY <1>1, <1>2, <1>4, <2>1 DEF PageInv, KnownAreShown
<1>5. QED
  BY <1>3, <1>4

(* What is announced says of which task it is; with pages that show tasks,  *)
(* every task of an operation that changes tasks is announced.              *)
LEMMA AnnouncementsNameTasks ==
  ASSUME NEW h \in HandlerRecord, h.op \in ServedOps,
         Len(h.tasks) = IF h.op = "transfer" THEN 2 ELSE 1
  PROVE  /\ Announcements(h) \in Seq(Messages)
         /\ page.kind = "none" => Announcements(h) = <<>>
         /\ page.kind # "none" /\ h.op \notin {"session", "add_dependency"} =>
              \A t \in ToSet(h.tasks) :
                \E i \in 1 .. Len(Announcements(h)) : Announcements(h)[i].task = t
<1>0. h.tasks \in Seq(Tasks)
  BY DEF HandlerRecord
<1>1. /\ h.tasks[1] \in Tasks
      /\ h.op = "transfer" => h.tasks[2] \in Tasks
      /\ \A t \in ToSet(h.tasks) : t = h.tasks[1] \/ (h.op = "transfer" /\ t = h.tasks[2])
  BY <1>0 DEF ToSet
<1>2. \A type, t : Event(type, t).task = t
  BY DEF Event
<1>3. PICK m : m = Event(EventType(h.op), h.tasks[1])
  OBVIOUS
<1>4. m \in Messages /\ m.task = h.tasks[1]
  BY <1>1, <1>2, <1>3 DEF Messages
<1>5. PICK n : n = Event("task_created", h.tasks[2])
  OBVIOUS
<1>6. (h.op = "transfer" => n \in Messages) /\ n.task = h.tasks[2]
  <2>1. \A t \in Tasks : Event("task_created", t) \in Messages
    BY DEF Messages
  <2>2. QED
    BY <1>1, <1>2, <1>5, <2>1
<1>7. PICK s : s = Announcements(h)
  OBVIOUS
<1>8. CASE page.kind = "none" \/ h.op \in {"session", "add_dependency"}
  BY <1>7, <1>8 DEF Announcements
<1>9. CASE ~(page.kind = "none" \/ h.op \in {"session", "add_dependency"}) /\ h.op = "transfer"
  <2>1. s = <<m>> \o <<n>>
    BY <1>3, <1>5, <1>7, <1>9 DEF Announcements
  <2>2. s \in Seq(Messages) /\ Len(s) = 2 /\ s[1] = m /\ s[2] = n
    BY <1>4, <1>6, <1>9, <2>1
  <2>3. QED
    BY <1>1, <1>4, <1>6, <1>7, <1>9, <2>2
<1>10. CASE ~(page.kind = "none" \/ h.op \in {"session", "add_dependency"}) /\ h.op # "transfer"
  <2>1. s = <<m>> \o <<>>
    BY <1>3, <1>7, <1>10 DEF Announcements
  <2>2. s \in Seq(Messages) /\ Len(s) = 1 /\ s[1] = m
    BY <1>4, <2>1
  <2>3. QED
    BY <1>1, <1>4, <1>7, <1>10, <2>2
<1>11. QED
  BY <1>8, <1>9, <1>10

(* The steps of the handlers leave the page right about what it knows.      *)
LEMMA HandlersOnPage ==
  ASSUME TypeInv, TypeInv', HandlerInv, PageInv, NEW r \in Requests,
         Advance(r) \/ Quit(r) \/ AnswerLost(r) \/ Announce(r) \/ Requested(r)
  PROVE  PageInv'
<1>0. /\ handler \in [Requests -> HandlerRecord] /\ HandlerOK(r) /\ handler[r].tasks \in Seq(Tasks)
      /\ live \subseteq Tasks /\ live' \subseteq Tasks /\ workload' = workload
      /\ inbox \in Seq(Messages)
      /\ req[r].task \in Tasks
  <2>1. workload' = workload
    BY LiveStepsOnBoard DEF LiveStep
  <2>2. QED
    BY <2>1 DEF HandlerInv, TypeInv, TypeOK, PageInv, PageTypes, HandlerRecord, Request
<1>n. ASSUME \A s \in Requests \ {r} : handler'[s] = handler[s],
             missed \subseteq missed', inbox' = inbox,
             \A t \in ToSet(handler[r].tasks) : Changing(r) => Pending(t)' \/ t \in missed'
      PROVE  Known' \subseteq Known
  <2>1. ASSUME NEW t \in Known' PROVE t \in Known
    <3>1. t \in Tasks \ missed /\ t \notin missed' /\ ~Pending(t)' /\ ~Announced(t)
      BY <1>n, <2>1 DEF Known, Announced
    <3>2. ASSUME NEW s \in Requests, Changing(s), t \in ToSet(handler[s].tasks) PROVE FALSE
      <4>1. CASE s = r
        BY <1>n, <3>1, <3>2, <4>1
      <4>2. CASE s # r
        <5>1. handler'[s] = handler[s]
          BY <1>n, <4>2
        <5>2. Pending(t)'
          BY <3>2, <5>1 DEF Pending, Changing
        <5>3. QED
          BY <3>1, <5>2
      <4>3. QED
        BY <4>1, <4>2
    <3>3. QED
      BY <3>1, <3>2 DEF Known, Pending
  <2>2. QED
    BY <2>1
<1>w. ASSUME \E outcome \in {"ok", "error"} : Answer(r, outcome)
      PROVE  \A s \in Requests \ {r} : handler'[s] = handler[s]
  BY <1>w, <1>0 DEF Answer
<1>1. CASE Advance(r) \/ Quit(r)
  <2>q. PICK q : q = req[r]
    OBVIOUS
  <2>1. /\ handler[r].stage = "serving" /\ UNCHANGED pageVars
        /\ Serves(q, handler[r].op, q.task)
        /\ handler[r].tasks = <<q.task>>
    BY <1>1, <1>0, <2>q, ServedStep DEF HandlerOK
  <2>2. Proceed(r) \/ Abort(r)
    BY <1>1 DEF Advance, Quit
  <2>3. /\ \A t \in Tasks \ {q.task} : t \notin live' \ live => Same(t)
        /\ q.step \in {"check_cycle", "link"} => \A t \in Tasks : Same(t)
    BY <2>2, <2>q, ProceedTouches
  <2>4. ToSet(handler[r].tasks) = {q.task}
    BY <2>1, ListedSets
  <2>5. Changing(r) \/ \A t \in Tasks : Same(t)
    BY <2>1, <2>3 DEF Changing, Serves, Immediate
  <2>6. SUFFICES page.kind # "none" => \A t \in Known' : t \in Known /\ Same(t)
    BY <1>0, <2>1, PageFrame DEF pageVars
  <2>7. CASE UNCHANGED <<handler, missed>> /\ live' \ live = {}
    <3>1. \A t : Pending(t)' <=> Pending(t)
      BY <2>7 DEF Pending, Changing
    <3>2. Known' = Known
      BY <2>1, <2>7, <3>1 DEF Known, Announced, pageVars
    <3>3. Changing(r) => q.task \notin Known
      BY <2>4 DEF Known, Pending
    <3>4. QED
      BY <2>3, <2>5, <2>7, <3>2, <3>3 DEF Known
  <2>8. CASE Fail(r) /\ live' \ live = {}
    <3>1. page.kind # "none" => ToSet(handler[r].tasks) \subseteq missed'
      BY <2>8 DEF Fail
    <3>2. page.kind # "none" => Known' \subseteq Known
      BY <2>1, <2>8, <3>1, <1>n, <1>w DEF Fail, pageVars
    <3>3. page.kind # "none" => q.task \notin Known'
      BY <2>4, <3>1 DEF Known
    <3>4. QED
      BY <2>3, <2>8, <3>2, <3>3 DEF Known
  <2>9. ASSUME UNCHANGED missed, NEW s \in Seq(Tasks),
               handler' = [handler EXCEPT ![r].stage = "announce", ![r].tasks = @ \o s],
               live' \ live = ToSet(s), Len(s) = IF handler[r].op = "transfer" THEN 1 ELSE 0
        PROVE  \A t \in Known' : t \in Known /\ Same(t)
    <3>1. /\ handler'[r].stage = "announce" /\ handler'[r].op = handler[r].op
          /\ handler'[r].tasks = <<q.task>> \o s
          /\ \A x \in Requests \ {r} : handler'[x] = handler[x]
      BY <2>1, <2>9, <1>0 DEF HandlerRecord
    <3>2. {q.task} \cup ToSet(s) \subseteq ToSet(<<q.task>> \o s)
      <4>1. PICK u : u = <<q.task>> \o s
        OBVIOUS
      <4>2. /\ DOMAIN u = 1 .. Len(s) + 1 /\ u[1] = q.task /\ Len(s) \in Nat
            /\ \A i \in 1 .. Len(s) : u[i + 1] = s[i]
        BY <4>1, <2>9
      <4>3. \A i \in 1 .. Len(s) : i + 1 \in DOMAIN u
        BY <4>2
      <4>4. u[1] \in ToSet(u) /\ \A i \in 1 .. Len(s) : u[i + 1] \in ToSet(u)
        <5>1. \A j \in DOMAIN u : u[j] \in ToSet(u)
          BY DEF ToSet
        <5>2. 1 \in DOMAIN u
          BY <4>2
        <5>3. QED
          BY <4>3, <5>1, <5>2
      <4>5. ASSUME NEW x \in ToSet(s) PROVE x \in ToSet(u)
        <5>1. PICK i \in 1 .. Len(s) : x = s[i]
          BY <4>5 DEF ToSet
        <5>2. QED
          BY <4>2, <4>4, <5>1
      <4>6. q.task \in ToSet(u)
        BY <4>2, <4>4
      <4>7. QED
        BY <4>1, <4>5, <4>6
    <3>3. Changing(r)' <=> Changing(r)
      BY <2>1, <3>1 DEF Changing
    <3>4. Changing(r) => \A t \in {q.task} \cup ToSet(s) : Pending(t)'
      BY <3>1, <3>2, <3>3 DEF Pending
    <3>5. Known' \subseteq Known
      BY <2>1, <2>4, <2>9, <3>1, <3>4, <1>n DEF pageVars
    <3>6. Changing(r) => \A t \in Known' : Same(t)
      BY <2>3, <2>9, <3>4 DEF Known
    <3>7. QED
      BY <2>5, <3>5, <3>6 DEF Known
  <2>10. \/ UNCHANGED <<handler, missed>> /\ live' \ live = {}
         \/ Fail(r) /\ live' \ live = {}
         \/ /\ UNCHANGED missed
            /\ \E s \in Seq(Tasks) :
                 /\ handler' = [handler EXCEPT ![r].stage = "announce", ![r].tasks = @ \o s]
                 /\ live' \ live = ToSet(s)
                 /\ Len(s) = IF handler[r].op = "transfer" THEN 1 ELSE 0
    BY <1>1, ServedStep
  <2>11. QED
    BY <2>7, <2>8, <2>9, <2>10
<1>2. CASE AnswerLost(r)
  <2>1. /\ UNCHANGED vars /\ UNCHANGED pageVars /\ Fail(r)
    BY <1>2 DEF AnswerLost
  <2>2. page.kind # "none" => ToSet(handler[r].tasks) \subseteq missed'
    BY <2>1 DEF Fail
  <2>3. page.kind # "none" => Known' \subseteq Known
    BY <2>1, <2>2, <1>n, <1>w DEF Fail, pageVars
  <2>4. \A t \in Tasks : Same(t)
    BY <2>1 DEF vars, Same
  <2>5. QED
    BY <2>1, <2>3, <2>4, <1>0, PageFrame DEF pageVars, Known
<1>3. CASE Announce(r)
  <2>1. /\ UNCHANGED vars /\ UNCHANGED <<loads, shown, unread, stale, missed>> /\ Answer(r, "ok")
        /\ inbox' = inbox \o Announcements(handler[r])
        /\ handler[r].stage = "announce"
    BY <1>3 DEF Announce
  <2>2. PICK new : new = Announcements(handler[r])
    OBVIOUS
  <2>3. /\ new \in Seq(Messages)
        /\ page.kind = "none" => new = <<>>
        /\ page.kind # "none" /\ Changing(r) =>
             \A t \in ToSet(handler[r].tasks) : \E i \in 1 .. Len(new) : new[i].task = t
    <3>1. PICK h : h = handler[r]
      OBVIOUS
    <3>2. /\ h \in HandlerRecord /\ h.op \in ServedOps
          /\ Len(h.tasks) = IF h.op = "transfer" THEN 2 ELSE 1
      BY <2>1, <3>1, <1>0 DEF HandlerOK
    <3>3. QED
      BY <2>2, <3>1, <3>2, AnnouncementsNameTasks DEF Changing
  <2>4. /\ inbox' = inbox \o new /\ inbox' \in Seq(Messages)
        /\ Len(inbox') = Len(inbox) + Len(new) /\ Len(inbox) \in Nat /\ Len(new) \in Nat
        /\ \A i \in 1 .. Len(inbox) : inbox'[i] = inbox[i]
        /\ \A i \in 1 .. Len(new) : inbox'[Len(inbox) + i] = new[i]
    BY <2>1, <2>2, <2>3, <1>0
  <2>5. ASSUME page.kind # "none", NEW t \in Known' PROVE t \in Known
    <3>1. /\ t \in Tasks \ missed /\ ~Pending(t)'
          /\ \A i \in 1 .. Len(inbox') : inbox'[i].task # t
      BY <2>1, <2>5 DEF Known, Announced
    <3>2. ~Announced(t)
      BY <2>4, <3>1 DEF Announced
    <3>3. ASSUME NEW s \in Requests, Changing(s), t \in ToSet(handler[s].tasks) PROVE FALSE
      <4>1. CASE s = r
        <5>1. PICK i \in 1 .. Len(new) : new[i].task = t
          BY <2>3, <2>5, <3>3, <4>1
        <5>2. Len(inbox) + i \in 1 .. Len(inbox')
          BY <2>4
        <5>3. QED
          BY <2>4, <3>1, <5>1, <5>2
      <4>2. CASE s # r
        <5>1. handler'[s] = handler[s]
          BY <2>1, <4>2, <1>w
        <5>2. QED
          BY <3>1, <3>3, <5>1 DEF Pending, Changing
      <4>3. QED
        BY <4>1, <4>2
    <3>4. QED
      BY <3>1, <3>2, <3>3 DEF Known, Pending
  <2>6. \A t \in Tasks : Same(t)
    BY <2>1 DEF vars, Same
  <2>7. page.kind = "none" => inbox' = inbox
    BY <2>3, <2>4, <1>0
  <2>8. QED
    BY <2>1, <2>4, <2>5, <2>6, <2>7, <1>0, PageFrame DEF Known
<1>4. CASE Requested(r)
  <2>1. PICK op \in ServedOps, t \in Tasks : Serve(r, op, t)
    BY <1>4 DEF Requested
  <2>2. /\ handler[r].stage = "idle" /\ Handles(r, op, t) /\ req[r].step = "idle"
        /\ UNCHANGED pageVars /\ UNCHANGED missed
    BY <2>1, <1>0 DEF Serve, HandlerOK
  <2>3. /\ handler'[r].op = op /\ handler'[r].tasks = <<t>>
        /\ handler'[r].stage \in {"announce", "serving"}
        /\ \A s \in Requests \ {r} : handler'[s] = handler[s]
    BY <2>1, <1>0 DEF Serve
  <2>4. \/ /\ op \in Immediate
           /\ \A x \in Tasks \ {t} : Same(x)
           /\ op = "session" => Same(t)
        \/ UNCHANGED board
    BY <2>2, HandlesStarts
  <2>5. Known' \subseteq Known
    BY <2>2, <2>3, <1>n DEF Changing, pageVars
  <2>6. op \in Immediate \ {"session"} => t \notin Known'
    <3>1. t \in ToSet(handler'[r].tasks)
      BY <2>3, ListedSets
    <3>2. op \in Immediate \ {"session"} => Changing(r)'
      BY <2>3 DEF Changing, Immediate
    <3>3. QED
      BY <3>1, <3>2 DEF Known, Pending
  <2>7. \A x \in Known' : Same(x)
    BY <2>4, <2>6 DEF Known, Same, board
  <2>8. QED
    BY <2>2, <2>5, <2>7, <1>0, PageFrame DEF pageVars
<1>5. QED
  BY <1>1, <1>2, <1>3, <1>4

(* So do an agent that takes an answer, a restart, and steps of the others. *)
LEMMA OthersOnPage ==
  ASSUME TypeInv, TypeInv', HandlerInv, PageInv,
         (\E a \in Agents : Taken(a)) \/ Restart \/ UNCHANGED liveVars
  PROVE  PageInv'
<1>0. /\ live \subseteq Tasks /\ live' \subseteq Tasks /\ inbox \in Seq(Messages)
      /\ handler \in [Requests -> HandlerRecord] /\ Agents \subseteq Requests
  BY LiveBoardAssumption DEF HandlerInv, TypeInv, TypeOK, PageInv, PageTypes
<1>1. ASSUME NEW a \in Agents, Taken(a) PROVE PageInv'
  <2>1. /\ UNCHANGED <<vars, workload, pageVars, missed>>
        /\ handler[a].stage \in {"ok", "error"}
        /\ \A s \in Requests \ {a} : handler'[s] = handler[s]
    BY <1>1, <1>0 DEF Taken, Take
  <2>2. \A t : Pending(t) => Pending(t)'
    <3>1. ASSUME NEW t, NEW s \in Requests, Changing(s), t \in ToSet(handler[s].tasks)
          PROVE  Pending(t)'
      <4>1. s # a
        BY <2>1, <3>1 DEF Changing
      <4>2. handler'[s] = handler[s]
        BY <2>1, <4>1
      <4>3. QED
        BY <3>1, <4>2 DEF Pending, Changing
    <3>2. QED
      BY <3>1 DEF Pending
  <2>3. Known' \subseteq Known
    BY <2>1, <2>2 DEF Known, Announced, pageVars
  <2>4. \A t \in Tasks : Same(t)
    BY <2>1 DEF vars, Same
  <2>5. QED
    BY <2>1, <2>3, <2>4, <1>0, PageFrame DEF pageVars, Known
<1>2. CASE Restart
  <2>1. /\ UNCHANGED workload /\ UNCHANGED <<shown, unread, stale>> /\ missed' = Tasks
        /\ inbox' = <<>> /\ loads' = <<>>
    BY <1>2 DEF Restart
  <2>2. page' = page
    BY <2>1 DEF page
  <2>3. PageTypes' /\ OldestOvertaken'
    BY <2>1 DEF PageInv, PageTypes, OldestOvertaken
  <2>4. Known' = {}
    BY <2>1 DEF Known
  <2>5. QED
    BY <2>1, <2>2, <2>3, <2>4 DEF PageInv, KnownAreShown
<1>3. CASE UNCHANGED liveVars
  <2>1. UNCHANGED <<vars, workload, handler, pageVars, missed>>
    BY <1>3 DEF liveVars
  <2>2. Known' = Known
    BY <2>1 DEF Known, Announced, Pending, Changing, pageVars
  <2>3. \A t \in Tasks : Same(t)
    BY <2>1 DEF vars, Same
  <2>4. QED
    BY <2>1, <2>2, <2>3, <1>0, PageFrame DEF pageVars, Known
<1>4. QED
  BY <1>1, <1>2, <1>3

(* What a load begun now would show is what there is.                       *)
LEMMA NewLoadIsCurrent ==
  ASSUME HandlerInv, NEW t
  PROVE  NewLoad \in Load /\ ~NewLoad.overtaken /\ Promising(NewLoad, t)
<1>1. PICK s : s = Statements(page)
  OBVIOUS
<1>2. PICK load : load = NewLoad
  OBVIOUS
<1>3. /\ s \in Seq(ToSet(s)) /\ load = [left |-> s, found |-> {}, skipped |-> {}, overtaken |-> FALSE]
  BY <1>1, <1>2, StatementsListed DEF NewLoad
<1>4. load \in Load
  BY <1>1, <1>3 DEF Load
<1>5. Coming(load) = ListedNow(page)
  BY <1>1, <1>3 DEF Coming, ListedNow
<1>6. ~load.overtaken
  BY <1>3
<1>7. Promising(load, t)
  BY <1>5 DEF Promising, Current
<1>8. QED
  BY <1>2, <1>4, <1>6, <1>7

(* The page's own steps change nothing of the tasks.                        *)
LEMMA PageSteps ==
  ASSUME PageNext
  PROVE  /\ UNCHANGED <<vars, workload, handler>> /\ page' = page
         /\ Statements(page)' = Statements(page) /\ Load' = Load
         /\ \A load : Coming(load)' = Coming(load)
         /\ \A view, without, t : Current(view, without, t)' <=> Current(view, without, t)
         /\ \A load, t : Promising(load, t)' <=> Promising(load, t)
<1>1. UNCHANGED <<vars, workload, handler>>
  BY DEF PageNext, Receive, ReadStatement, ReadChildrenFails, ShowAnswer, LoadFails
<1>2. page' = page /\ Statements(page)' = Statements(page) /\ Load' = Load
  BY <1>1, PageKept
<1>3. \A stmt : Listed(stmt)' = Listed(stmt)
  BY <1>1 DEF vars, Listed
<1>4. ListedNow(page)' = ListedNow(page)
  BY <1>2, <1>3 DEF ListedNow
<1>5. \A load : Coming(load)' = Coming(load)
  BY <1>3 DEF Coming
<1>6. \A view, without, t : Current(view, without, t)' <=> Current(view, without, t)
  BY <1>4 DEF Current
<1>7. \A load, t : Promising(load, t)' <=> Promising(load, t)
  BY <1>4, <1>5 DEF Promising, Current
<1>8. QED
  BY <1>1, <1>2, <1>5, <1>6, <1>7

(* An event is read: either a load is begun, which will be right about      *)
(* everything, or the task of the event is known no longer.                 *)
LEMMA ReceiveOnPage ==
  ASSUME TypeInv, HandlerInv, PageInv, Receive
  PROVE  PageInv'
<1>1. /\ UNCHANGED <<vars, workload, handler>> /\ page' = page /\ Load' = Load
      /\ \A load, t : Promising(load, t)' <=> Promising(load, t)
      /\ \A view, without, t : Current(view, without, t)' <=> Current(view, without, t)
  BY PageSteps DEF PageNext
<1>2. /\ inbox \in Seq(Messages) /\ inbox # <<>> /\ inbox' = Tail(inbox)
      /\ loads \in Seq(Load) /\ stale \in BOOLEAN /\ UNCHANGED <<shown, unread, stale>>
      /\ page.kind # "none" /\ OldestOvertaken
  BY DEF Receive, PageInv, PageTypes
<1>3. inbox' \in Seq(Messages) /\ Messages' = Messages
  <2>1. Messages' = Messages
    BY DEF Messages, Event, EventType
  <2>2. QED
    BY <1>2, <2>1
<1>4. CASE loads' = Append(loads, NewLoad) /\ missed' = {}
  <2>1. PICK new : new = NewLoad
    OBVIOUS
  <2>2. new \in Load /\ ~new.overtaken /\ \A t : Promising(new, t)
    BY <2>1, NewLoadIsCurrent
  <2>3. /\ loads' \in Seq(Load) /\ Len(loads') = Len(loads) + 1 /\ Len(loads) \in Nat
        /\ loads' # <<>> /\ loads'[Len(loads')] = new
        /\ \A j \in 1 .. Len(loads) : loads'[j] = loads[j]
    BY <1>2, <1>4, <2>1, <2>2
  <2>4. PageTypes'
    BY <1>1, <1>2, <1>3, <2>3 DEF PageTypes
  <2>5. OldestOvertaken'
    <3>1. ASSUME NEW j \in 1 .. Len(loads'), NEW k \in 1 .. Len(loads'),
                 j < k, loads'[k].overtaken
          PROVE  loads'[j].overtaken
      <4>1. k # Len(loads')
        BY <2>2, <2>3, <3>1
      <4>2. /\ j \in 1 .. Len(loads) /\ k \in 1 .. Len(loads)
            /\ loads'[j] = loads[j] /\ loads'[k] = loads[k]
        BY <2>3, <3>1, <4>1
      <4>3. QED
        BY <1>2, <3>1, <4>2 DEF OldestOvertaken
    <3>2. QED
      BY <3>1 DEF OldestOvertaken
  <2>6. Fresh'
    BY <2>2, <2>3 DEF Fresh
  <2>7. \A t : Promising(new, t)'
    BY <1>1, <2>2
  <2>8. \A t : Promising(loads[Len(loads)], t)'
    BY <2>3, <2>7
  <2>9. KnownAreShown'
    BY <2>6, <2>8 DEF KnownAreShown
  <2>10. QED
    BY <1>1, <1>2, <2>4, <2>5, <2>9 DEF PageInv
<1>5. CASE UNCHANGED loads /\ missed' = missed \cup {Head(inbox).task}
  <2>1. ASSUME NEW t \in Known' PROVE t \in Known
    <3>1. /\ t \in Tasks \ missed /\ t # Head(inbox).task /\ ~Pending(t)
          /\ \A i \in 1 .. Len(Tail(inbox)) : Tail(inbox)[i].task # t
      BY <1>1, <1>2, <1>5, <2>1 DEF Known, Pending, Changing, Announced
    <3>2. ASSUME NEW i \in 1 .. Len(inbox) PROVE inbox[i].task # t
      <4>1. CASE i = 1
        BY <3>1, <4>1, <1>2
      <4>2. CASE i # 1
        <5>1. i - 1 \in 1 .. Len(Tail(inbox)) /\ Tail(inbox)[i - 1] = inbox[i]
          BY <1>2, <4>2
        <5>2. QED
          BY <3>1, <5>1
      <4>3. QED
        BY <4>1, <4>2
    <3>3. QED
      BY <3>1, <3>2 DEF Known, Announced
  <2>2. \A t \in Tasks : Same(t)
    BY <1>1 DEF vars, Same
  <2>3. live \subseteq Tasks /\ live' \subseteq Tasks
    BY <1>1 DEF TypeInv, TypeOK, vars
  <2>4. QED
    BY <1>1, <1>2, <1>3, <1>5, <2>1, <2>2, <2>3, PageFrame DEF Known
<1>6. QED
  BY <1>4, <1>5 DEF Receive

(* A load goes on: when it still will be right about what it was to be      *)
(* right about, so is the page.                                             *)
LEMMA LoadGoesOn ==
  ASSUME TypeInv, PageInv, PageNext, UNCHANGED <<inbox, shown, unread, stale, missed>>,
         NEW i \in 1 .. Len(loads), NEW m \in Load, loads' = [loads EXCEPT ![i] = m],
         m.overtaken = loads[i].overtaken,
         \A t : Promising(loads[i], t) => Promising(m, t)
  PROVE  PageInv'
<1>1. /\ UNCHANGED <<vars, workload, handler>> /\ page' = page /\ Load' = Load
      /\ \A load, t : Promising(load, t)' <=> Promising(load, t)
      /\ \A view, without, t : Current(view, without, t)' <=> Current(view, without, t)
  BY PageSteps
<1>2. /\ loads \in Seq(Load) /\ Len(loads) \in Nat \ {0}
      /\ page.kind # "none" /\ PageTypes /\ OldestOvertaken /\ KnownAreShown
  BY DEF PageInv, PageTypes
<1>3. /\ loads' \in Seq(Load) /\ Len(loads') = Len(loads) /\ loads' # <<>> /\ loads # <<>>
      /\ loads'[i] = m /\ \A j \in 1 .. Len(loads) : j # i => loads'[j] = loads[j]
  BY <1>2
<1>4. \A j \in 1 .. Len(loads) :
        /\ loads'[j].overtaken = loads[j].overtaken
        /\ \A t : Promising(loads[j], t) => Promising(loads'[j], t)
  BY <1>3
<1>5. PageTypes'
  <2>1. Messages' = Messages
    BY DEF Messages, Event, EventType
  <2>2. QED
    BY <1>1, <1>2, <1>3, <2>1 DEF PageTypes
<1>6. OldestOvertaken'
  BY <1>2, <1>3, <1>4 DEF OldestOvertaken
<1>7. (Fresh' <=> Fresh) /\ Known' = Known
  <2>0. PICK n : n = Len(loads)
    OBVIOUS
  <2>1. n \in 1 .. Len(loads) /\ Len(loads') = n
    BY <1>2, <1>3, <2>0
  <2>2. loads'[n].overtaken = loads[n].overtaken
    BY <1>4, <2>1
  <2>3. Fresh' <=> Fresh
    <3>1. Fresh <=> ~loads[n].overtaken
      BY <1>3, <2>0 DEF Fresh
    <3>2. Fresh' <=> ~loads'[n].overtaken
      BY <1>3, <2>1 DEF Fresh
    <3>3. QED
      BY <2>2, <3>1, <3>2
  <2>4. handler' = handler /\ inbox' = inbox /\ missed' = missed
    BY <1>1
  <2>5. Known' = Known
    BY <2>4 DEF Known, Pending, Changing, Announced
  <2>6. QED
    BY <2>3, <2>5
<1>8. KnownAreShown'
  <2>1. ASSUME NEW t \in Known
        PROVE  /\ Fresh => Promising(loads[Len(loads)], t)'
               /\ ~Fresh /\ ~stale => Current(shown, unread, t)'
    <3>0. PICK n : n = Len(loads)
      OBVIOUS
    <3>1. PICK last : last = loads'[n]
      OBVIOUS
    <3>2. Fresh => Promising(last, t)
      <4>1. n \in 1 .. Len(loads)
        BY <1>2, <3>0
      <4>2. Fresh => Promising(loads[n], t)
        BY <1>2, <2>1, <3>0 DEF KnownAreShown
      <4>3. QED
        BY <1>4, <3>1, <4>1, <4>2
    <3>3. last = loads[Len(loads)]'
      <4>1. Len(loads') = n
        BY <1>3, <3>0
      <4>2. QED
        BY <3>1, <4>1
    <3>4. Fresh => Promising(last, t)'
      BY <1>1, <3>2
    <3>5. ~Fresh /\ ~stale => Current(shown, unread, t)
      BY <1>2, <2>1 DEF KnownAreShown
    <3>6. Current(shown, unread, t) => Current(shown, unread, t)'
      <4>1. PICK view, without : view = shown /\ without = unread
        OBVIOUS
      <4>2. Current(view, without, t) => Current(view, without, t)'
        BY <1>1
      <4>3. view = shown' /\ without = unread'
        BY <4>1
      <4>4. QED
        BY <4>1, <4>2, <4>3
    <3>7. QED
      BY <3>3, <3>4, <3>5, <3>6
  <2>2. QED
    BY <1>2, <1>7, <2>1 DEF KnownAreShown
<1>9. QED
  BY <1>1, <1>2, <1>5, <1>6, <1>8 DEF PageInv

(* A load is a record.                                                      *)
LEMMA LoadRecord ==
  ASSUME NEW l \in Load
  PROVE  /\ l = [left |-> l.left, found |-> l.found, skipped |-> l.skipped,
                  overtaken |-> l.overtaken]
         /\ l.left \in Seq(ToSet(Statements(page))) /\ l.overtaken \in BOOLEAN
         /\ l.found \subseteq
              {<<stmt.column, t>> : stmt \in ToSet(Statements(page)), t \in Tasks}
         /\ l.skipped \subseteq ToSet(ChildrenOf[page.project])
BY DEF Load

(* A statement is read: what was to come from it has come, unless it is on  *)
(* a project that is left out.                                              *)
LEMMA ReadOnPage ==
  ASSUME TypeInv, PageInv, NEW i \in 1 .. Len(loads), ReadStatement(i)
  PROVE  PageInv'
<1>1. /\ loads \in Seq(Load) /\ loads[i] \in Load
      /\ UNCHANGED <<inbox, shown, unread, stale, missed>> /\ loads[i].left # <<>>
  BY DEF ReadStatement, PageInv, PageTypes
<1>2. PICK l : l = loads[i]
  OBVIOUS
<1>3. PICK S : S = ToSet(Statements(page))
  OBVIOUS
<1>4. PICK rows : rows = RowsRead(l)
  OBVIOUS
<1>5. PICK m : m = [l EXCEPT !.left = Tail(@), !.found = @ \cup rows]
  OBVIOUS
<1>6. /\ l = [left |-> l.left, found |-> l.found, skipped |-> l.skipped,
               overtaken |-> l.overtaken]
      /\ l.left \in Seq(S) /\ l.overtaken \in BOOLEAN
      /\ l.found \subseteq {<<stmt.column, t>> : stmt \in S, t \in Tasks}
      /\ l.skipped \subseteq ToSet(ChildrenOf[page.project])
  BY <1>1, <1>2, <1>3, LoadRecord
<1>7. /\ Tail(l.left) \in Seq(S) /\ Head(l.left) \in S
      /\ ToSet(l.left) = {Head(l.left)} \cup ToSet(Tail(l.left))
  BY <1>1, <1>2, <1>6, SeqFacts
<1>8. rows \subseteq {<<stmt.column, t>> : stmt \in S, t \in Tasks}
  BY <1>4, <1>7 DEF RowsRead, Listed, TypeInv, TypeOK
<1>9. m = [left |-> Tail(l.left), found |-> l.found \cup rows, skipped |-> l.skipped,
           overtaken |-> l.overtaken]
  BY <1>5, <1>6
<1>10. m \in Load
  BY <1>3, <1>6, <1>7, <1>8, <1>9 DEF Load
<1>11. ASSUME NEW t, Promising(l, t) PROVE Promising(m, t)
  <2>1. m.left = Tail(l.left) /\ m.found = l.found \cup rows /\ m.skipped = l.skipped
    BY <1>9
  <2>2. SUFFICES ASSUME ProjectOf[t] \notin l.skipped, NEW c \in Columns
                 PROVE  <<c, t>> \in Coming(m) <=> <<c, t>> \in ListedNow(page)
    BY <2>1 DEF Promising, Current
  <2>3. <<c, t>> \in Coming(l) <=> <<c, t>> \in ListedNow(page)
    BY <1>11, <2>2 DEF Promising, Current
  <2>4. <<c, t>> \in rows <=> <<c, t>> \in Listed(Head(l.left))
    BY <1>4, <2>2 DEF RowsRead, Listed
  <2>5. <<c, t>> \in Coming(m) <=> <<c, t>> \in Coming(l)
    BY <1>7, <2>1, <2>4 DEF Coming
  <2>6. QED
    BY <2>3, <2>5
<1>12. loads' = [loads EXCEPT ![i] = m] /\ m.overtaken = loads[i].overtaken
  <2>1. loads' = [loads EXCEPT ![i] = m]
    BY <1>1, <1>2, <1>4, <1>5 DEF ReadStatement
  <2>2. m.overtaken = l.overtaken
    BY <1>9
  <2>3. QED
    BY <1>2, <2>1, <2>2
<1>13. PageNext
  BY DEF PageNext
<1>14. QED
  BY <1>1, <1>2, <1>10, <1>11, <1>12, <1>13, LoadGoesOn

(* Projects are left out: it is to be right about fewer tasks.              *)
LEMMA SkipOnPage ==
  ASSUME TypeInv, PageInv, NEW i \in 1 .. Len(loads), ReadChildrenFails(i)
  PROVE  PageInv'
<1>1. /\ loads \in Seq(Load) /\ loads[i] \in Load
      /\ UNCHANGED <<inbox, shown, unread, stale, missed>>
  BY DEF ReadChildrenFails, PageInv, PageTypes
<1>2. PICK l : l = loads[i]
  OBVIOUS
<1>3. PICK projects : projects \subseteq ToSet(ChildrenOf[page.project]) /\ Skip(i, projects)
  <2>1. \/ Skip(i, ToSet(ChildrenOf[page.project]))
        \/ /\ Head(loads[i].left).project \in ToSet(ChildrenOf[page.project])
           /\ Skip(i, {Head(loads[i].left).project})
    BY DEF ReadChildrenFails
  <2>2. QED
    BY <2>1
<1>4. PICK m : m = [l EXCEPT !.skipped = @ \cup projects]
  OBVIOUS
<1>5. /\ l = [left |-> l.left, found |-> l.found, skipped |-> l.skipped,
               overtaken |-> l.overtaken]
      /\ l.skipped \subseteq ToSet(ChildrenOf[page.project])
  BY <1>1, <1>2, LoadRecord
<1>6. m = [left |-> l.left, found |-> l.found, skipped |-> l.skipped \cup projects,
           overtaken |-> l.overtaken]
  BY <1>4, <1>5
<1>7. m \in Load
  <2>1. l.skipped \cup projects \in SUBSET ToSet(ChildrenOf[page.project])
    BY <1>3, <1>5
  <2>2. QED
    BY <1>1, <1>2, <1>6, <2>1 DEF Load
<1>8. ASSUME NEW t, Promising(l, t) PROVE Promising(m, t)
  <2>1. m.left = l.left /\ m.found = l.found /\ m.skipped = l.skipped \cup projects
    BY <1>6
  <2>2. Coming(m) = Coming(l)
    BY <2>1 DEF Coming
  <2>3. QED
    BY <1>8, <2>1, <2>2 DEF Promising, Current
<1>9. loads' = [loads EXCEPT ![i] = m] /\ m.overtaken = loads[i].overtaken
  <2>1. loads' = [loads EXCEPT ![i] = m]
    BY <1>1, <1>2, <1>3, <1>4 DEF Skip
  <2>2. m.overtaken = l.overtaken
    BY <1>6
  <2>3. QED
    BY <1>2, <2>1, <2>2
<1>10. PageNext
  BY DEF PageNext
<1>11. QED
  BY <1>1, <1>2, <1>7, <1>8, <1>9, <1>10, LoadGoesOn

(* A load is over, with an answer or without: it has overtaken those that   *)
(* were begun before it, and if it was the last, what is shown now is what  *)
(* it was to show.                                                          *)
LEMMA OverOnPage ==
  ASSUME TypeInv, PageInv, NEW i \in 1 .. Len(loads), ShowAnswer(i) \/ LoadFails(i)
  PROVE  PageInv'
<1>1. /\ UNCHANGED <<vars, workload, handler>> /\ page' = page /\ Load' = Load
      /\ \A load, t : Promising(load, t)' <=> Promising(load, t)
      /\ \A view, without, t : Current(view, without, t)' <=> Current(view, without, t)
  BY PageSteps DEF PageNext
<1>2. /\ loads \in Seq(Load) /\ loads[i] \in Load /\ Len(loads) \in Nat \ {0}
      /\ UNCHANGED <<inbox, missed>> /\ loads' = LoadsAfter(i)
      /\ page.kind # "none" /\ PageTypes /\ OldestOvertaken /\ KnownAreShown
      /\ \A j \in 1 .. Len(loads) : loads[j] \in Load /\ loads[j].overtaken \in BOOLEAN
  <2>1. loads \in Seq(Load) /\ page.kind # "none" /\ PageTypes /\ OldestOvertaken /\ KnownAreShown
    BY DEF PageInv, PageTypes
  <2>2. UNCHANGED <<inbox, missed>> /\ loads' = LoadsAfter(i)
    BY DEF ShowAnswer, LoadFails
  <2>3. Len(loads) \in Nat \ {0} /\ \A j \in 1 .. Len(loads) : loads[j] \in Load
    BY <2>1
  <2>4. \A l \in Load : l.overtaken \in BOOLEAN
    BY DEF Load
  <2>5. QED
    BY <2>1, <2>2, <2>3, <2>4
<1>3. PICK n : n = Len(loads)
  OBVIOUS
<1>4. \A j \in 1 .. n : /\ [loads[j] EXCEPT !.overtaken = TRUE] \in Load
                        /\ [loads[j] EXCEPT !.overtaken = TRUE].overtaken
  <2>1. ASSUME NEW l \in Load
        PROVE  /\ [l EXCEPT !.overtaken = TRUE] \in Load
               /\ [l EXCEPT !.overtaken = TRUE].overtaken
    <3>1. l = [left |-> l.left, found |-> l.found, skipped |-> l.skipped,
                overtaken |-> l.overtaken]
      BY LoadRecord
    <3>2. PICK m : m = [l EXCEPT !.overtaken = TRUE]
      OBVIOUS
    <3>m. m = [left |-> l.left, found |-> l.found, skipped |-> l.skipped, overtaken |-> TRUE]
      BY <3>1, <3>2
    <3>3. [left |-> l.left, found |-> l.found, skipped |-> l.skipped, overtaken |-> TRUE] \in Load
      BY DEF Load
    <3>4. [left |-> l.left, found |-> l.found, skipped |-> l.skipped, overtaken |-> TRUE].overtaken
      OBVIOUS
    <3>5. QED
      BY <3>2, <3>m, <3>3, <3>4
  <2>2. QED
    BY <1>2, <1>3, <2>1
<1>5. /\ n \in Nat \ {0} /\ loads' \in Seq(Load) /\ Len(loads') = n - 1
      /\ \A j \in 1 .. n - 1 : j < i => loads'[j].overtaken
      /\ \A j \in 1 .. n - 1 : j >= i => loads'[j] = loads[j + 1]
  <2>1. /\ loads' = [j \in 1 .. n - 1 |-> IF j < i THEN [loads[j] EXCEPT !.overtaken = TRUE]
                                          ELSE loads[j + 1]]
        /\ n \in Nat \ {0}
    BY <1>2, <1>3 DEF LoadsAfter
  <2>2. \A j \in 1 .. n - 1 : j \in 1 .. n /\ j + 1 \in 1 .. n
    BY <2>1
  <2>3. \A j \in 1 .. n - 1 : loads'[j] \in Load
    BY <1>2, <1>3, <1>4, <2>1, <2>2
  <2>4. DOMAIN loads' = 1 .. n - 1 /\ n - 1 \in Nat
    BY <2>1
  <2>5. loads' = [j \in 1 .. n - 1 |-> loads'[j]]
    BY <2>1, <2>4
  <2>6. loads' \in Seq(Load) /\ Len(loads') = n - 1
    BY <2>3, <2>4, <2>5
  <2>7. \A j \in 1 .. n - 1 : j < i => loads'[j].overtaken
    BY <1>4, <2>1, <2>2
  <2>8. QED
    BY <2>1, <2>6, <2>7
<1>6. OldestOvertaken'
  <2>1. ASSUME NEW j \in 1 .. n - 1, NEW k \in 1 .. n - 1, j < k, loads'[k].overtaken
        PROVE  loads'[j].overtaken
    <3>1. CASE j < i
      BY <1>5, <3>1
    <3>2. CASE j >= i
      <4>1. /\ loads'[j] = loads[j + 1] /\ loads'[k] = loads[k + 1]
            /\ j + 1 \in 1 .. n /\ k + 1 \in 1 .. n /\ j + 1 < k + 1
        BY <1>2, <1>5, <2>1, <3>2
      <4>2. QED
        BY <1>2, <1>3, <2>1, <4>1 DEF OldestOvertaken
    <3>3. QED
      BY <1>2, <1>5, <3>1, <3>2
  <2>2. QED
    BY <1>5, <2>1 DEF OldestOvertaken
<1>7. PageTypes'
  <2>1. Messages' = Messages
    BY DEF Messages, Event, EventType
  <2>2. stale \in BOOLEAN /\ stale' \in BOOLEAN
    BY <1>2 DEF PageTypes, ShowAnswer, LoadFails
  <2>3. QED
    BY <1>1, <1>2, <1>5, <2>1, <2>2 DEF PageTypes
<1>8. Known' = Known
  BY <1>1, <1>2 DEF Known, Pending, Changing, Announced
<1>9. \/ /\ ~loads[i].overtaken /\ ~stale' /\ loads[i].left = <<>>
         /\ shown' = loads[i].found /\ unread' = loads[i].skipped
      \/ stale'
      \/ loads[i].overtaken /\ shown' = shown /\ unread' = unread /\ (stale' <=> stale)
  BY <1>2 DEF ShowAnswer, LoadFails, PageTypes
<1>10. (~Fresh /\ ~stale) => \A t \in Known : Current(shown, unread, t)
  BY <1>2 DEF KnownAreShown
<1>v. ASSUME NEW t, shown' = shown, unread' = unread, Current(shown, unread, t)
      PROVE  Current(shown, unread, t)'
  <2>1. PICK view, without : view = shown /\ without = unread
    OBVIOUS
  <2>2. Current(view, without, t)'
    BY <1>1, <1>v, <2>1
  <2>3. view = shown' /\ without = unread'
    BY <1>v, <2>1
  <2>4. QED
    BY <2>2, <2>3
<1>11. CASE i < n
  <2>1. loads'[n - 1] = loads[n] /\ loads' # <<>> /\ loads # <<>> /\ n \in 1 .. n
    <3>1. n - 1 \in 1 .. n - 1 /\ n - 1 >= i /\ (n - 1) + 1 = n
      BY <1>2, <1>3, <1>5, <1>11
    <3>2. QED
      BY <1>2, <1>3, <1>5, <3>1
  <2>2. Fresh' <=> Fresh
    BY <1>3, <1>5, <2>1 DEF Fresh
  <2>3. loads[n].overtaken => loads[i].overtaken
    BY <1>2, <1>3, <1>11, <2>1 DEF OldestOvertaken
  <2>4. ~Fresh => loads[i].overtaken
    BY <1>3, <2>1, <2>3 DEF Fresh
  <2>5. ASSUME NEW t \in Known'
        PROVE  /\ Fresh' => Promising(loads[Len(loads)], t)'
               /\ ~Fresh' /\ ~stale' => Current(shown, unread, t)'
    <3>1. ASSUME Fresh PROVE Promising(loads[Len(loads)], t)'
      <4>1. PICK last : last = loads[n]
        OBVIOUS
      <4>2. Promising(last, t)
        BY <1>2, <1>3, <1>8, <2>5, <3>1, <4>1 DEF KnownAreShown
      <4>3. last = loads[Len(loads)]'
        BY <1>5, <2>1, <4>1
      <4>4. Promising(last, t)'
        BY <1>1, <4>2
      <4>5. QED
        BY <4>3, <4>4
    <3>2. ASSUME ~Fresh, ~stale' PROVE Current(shown, unread, t)'
      <4>1. shown' = shown /\ unread' = unread /\ ~stale
        BY <1>9, <2>4, <3>2
      <4>2. Current(shown, unread, t)
        BY <1>8, <1>10, <2>5, <3>2, <4>1
      <4>3. QED
        BY <1>v, <4>1, <4>2
    <3>3. QED
      BY <2>2, <3>1, <3>2
  <2>6. KnownAreShown'
    BY <2>5 DEF KnownAreShown
  <2>7. QED
    BY <1>1, <1>2, <1>6, <1>7, <2>6 DEF PageInv
<1>12. CASE i = n
  <2>1. ~Fresh'
    <3>1. ASSUME loads' # <<>> PROVE loads'[Len(loads')].overtaken
      <4>1. n - 1 \in 1 .. n - 1 /\ n - 1 < i
        BY <1>5, <1>12, <3>1
      <4>2. QED
        BY <1>5, <4>1
    <3>2. QED
      BY <3>1 DEF Fresh
  <2>2. Fresh <=> ~loads[n].overtaken
    BY <1>2, <1>3 DEF Fresh
  <2>3. ASSUME NEW t \in Known', ~stale' PROVE Current(shown, unread, t)'
    <3>1. CASE ~loads[n].overtaken
      <4>1. PICK last : last = loads[n]
        OBVIOUS
      <4>2. shown' = last.found /\ unread' = last.skipped /\ last.left = <<>>
        BY <1>9, <1>12, <2>3, <3>1, <4>1
      <4>3. Coming(last) = last.found
        BY <4>2, ListedSets DEF Coming
      <4>4. Promising(last, t)
        BY <1>2, <1>3, <1>8, <2>2, <2>3, <3>1, <4>1 DEF KnownAreShown
      <4>5. PICK view, without : view = last.found /\ without = last.skipped
        OBVIOUS
      <4>6. Current(view, without, t)
        BY <4>3, <4>4, <4>5 DEF Promising
      <4>7. Current(view, without, t)'
        BY <1>1, <4>6
      <4>8. QED
        BY <4>2, <4>5, <4>7
    <3>2. CASE loads[n].overtaken
      <4>1. shown' = shown /\ unread' = unread /\ ~stale
        BY <1>9, <1>12, <2>3, <3>2
      <4>2. Current(shown, unread, t)
        BY <1>8, <1>10, <2>2, <2>3, <3>2, <4>1
      <4>3. QED
        BY <1>v, <4>1, <4>2
    <3>3. QED
      BY <3>1, <3>2
  <2>4. KnownAreShown'
    BY <2>1, <2>3 DEF KnownAreShown
  <2>5. QED
    BY <1>1, <1>2, <1>6, <1>7, <2>4 DEF PageInv
<1>13. QED
  BY <1>3, <1>5, <1>11, <1>12

(* A page that was just opened shows what there is.                         *)
LEMMA PageInvInit == LiveInit => PageInv
<1> SUFFICES ASSUME LiveInit PROVE PageInv
  OBVIOUS
<1>1. /\ inbox = <<>> /\ loads = <<>> /\ stale = FALSE /\ shown = ListedNow(page) /\ HandlerInv
  BY HandlerInvInit DEF LiveInit
<1>2. inbox \in Seq(Messages) /\ loads \in Seq(Load) /\ Len(loads) = 0
  BY <1>1
<1>3. PageTypes /\ OldestOvertaken
  <2>1. stale \in BOOLEAN
    BY <1>1
  <2>2. 1 .. Len(loads) = {}
    BY <1>2
  <2>3. QED
    BY <1>2, <2>1, <2>2 DEF PageTypes, OldestOvertaken
<1>4. KnownAreShown
  <2>1. ~Fresh
    BY <1>1 DEF Fresh
  <2>2. \A t : Current(shown, unread, t)
    BY <1>1 DEF Current
  <2>3. QED
    BY <2>1, <2>2 DEF KnownAreShown
<1>5. page.kind = "none" => shown = {}
  BY <1>1, StatementsListed
<1>6. QED
  BY <1>1, <1>3, <1>4, <1>5 DEF PageInv

(* Every step of the clients leaves the page right about what it knows.     *)
LEMMA PageInvNext ==
  ASSUME TypeInv, TypeInv', HandlerInv, PageInv, LiveStep
  PROVE  PageInv'
<1>1. CASE \E r \in Requests : Advance(r) \/ Quit(r) \/ AnswerLost(r) \/ Announce(r)
                               \/ Requested(r)
  BY <1>1, HandlersOnPage
<1>2. CASE (\E a \in Agents : Taken(a)) \/ Restart \/ UNCHANGED liveVars
  BY <1>2, OthersOnPage
<1>3. CASE PageNext
  BY <1>3, ReceiveOnPage, ReadOnPage, SkipOnPage, OverOnPage DEF PageNext
<1>4. QED
  BY <1>1, <1>2, <1>3 DEF LiveStep

(* When nothing is under way, whatever has not been missed is known.        *)
LEMMA PageInvImplies ==
  HandlerInv /\ PageInv => PageCurrent
<1> SUFFICES ASSUME HandlerInv, PageInv PROVE PageCurrent
  OBVIOUS
<1>1. SUFFICES ASSUME Quiet, ~stale, NEW t \in Tasks \ missed
               PROVE  Current(shown, unread, t)
  BY DEF PageCurrent, Current
<1>2. CASE page.kind = "none"
  <2>1. shown = {} /\ ListedNow(page) = {}
    BY <1>2, StatementsListed DEF PageInv
  <2>2. QED
    BY <2>1 DEF Current
<1>3. CASE page.kind # "none"
  <2>1. ~Pending(t) /\ ~Announced(t) /\ ~Fresh
    BY <1>1 DEF Quiet, Pending, Changing, Announced, Fresh
  <2>2. QED
    BY <1>1, <1>3, <2>1 DEF Known, PageInv, KnownAreShown
<1>4. QED
  BY <1>2, <1>3

(* The board, the handlers and the page, with whatever the clients do.      *)
LEMMA ClientsInvariant == ClientSpec => [](TypeInv /\ HandlerInv /\ PageInv)
<1>1. AllInit => TypeInv /\ HandlerInv /\ PageInv
  BY TypeInvInit, HandlerInvInit, PageInvInit DEF AllInit, LiveInit
<1>2. TypeInv /\ HandlerInv /\ PageInv /\ [AllNext]_allVars
        => (TypeInv /\ HandlerInv /\ PageInv)'
  <2> SUFFICES ASSUME TypeInv, HandlerInv, PageInv, [AllNext]_allVars
               PROVE  (TypeInv /\ HandlerInv /\ PageInv)'
    OBVIOUS
  <2>1. LiveStep
    BY LiveKinds DEF allVars, LiveStep
  <2>2. TypeInv' /\ HandlerInv'
    BY <2>1, LiveTypeInv, HandlerInvNext
  <2>3. QED
    BY <2>1, <2>2, PageInvNext
<1>3. QED
  BY <1>1, <1>2, PTL DEF ClientSpec

(* Once nothing is under way, a page shows every task where it is, except   *)
(* for the tasks whose last change it could not hear of and for an answer   *)
(* that was overtaken: useProjectData.ts loads again for every event, and   *)
(* the handlers broadcast every change that succeeded.                      *)
THEOREM PageAlwaysCurrent == ClientSpec => []PageCurrent
BY ClientsInvariant, PageInvImplies, PTL

---------------------------------------------------------------------------
(* The batches.  A dependency was placed when its two tasks had their ids   *)
(* before, and it is there unless one of them was deleted.                  *)
Placed(t, d) == t \in used /\ d \in used /\ (t \in live /\ d \in live => <<t, d>> \in deps)

Named(T, dep) == IF dep[1] = "id" THEN dep[2] ELSE T.created[dep[2]]

Earlier(dep, i) == dep[1] # "id" => dep[2] \in 1 .. i - 1

(* A dependency of the i-th task of the batch has been written. *)
Linked(T, i, dep) == Earlier(dep, i) /\ Placed(T.created[i], Named(T, dep))

(* The request that writes it is on its way. *)
LinkPending(T, h, q, dep) ==
  LET n == Len(T.created)
  IN  /\ h.stage = "serving" /\ h.op = "add_dependency"
      /\ q.edges = {<<T.created[n], Named(T, dep)>>}
      /\ Earlier(dep, n)
      /\ T.created[n] \in used /\ Named(T, dep) \in used

ToolRecord(T) ==
  T = [name |-> T.name, batch |-> T.batch, created |-> T.created, left |-> T.left,
       links |-> T.links, stage |-> T.stage]

(* A tool call, the handler of the request it has made, and that request:   *)
(* all dependencies of the tasks before the last are written, and so are    *)
(* those of the last that are not left, if no request has failed.           *)
ToolOK(T, h, q) ==
  LET n == Len(T.created)
  IN  /\ ToolRecord(T)
      /\ T.created \in Seq(Tasks) /\ \A i \in 1 .. n : T.created[i] \in used
      /\ T.name # "bulk_tool" => T.created = <<>>
      /\ h.stage # "idle" => T.stage = "running"
      /\ h.stage # "idle" /\ h.op = "create" /\ T.name = "bulk_tool" => T.left = {}
      /\ \A i \in 1 .. n - 1 : \A dep \in T.batch[i] : Linked(T, i, dep)
      /\ n # 0 /\ T.stage # "error" /\ h.stage # "error" =>
           \A dep \in T.batch[n] \ T.left : Linked(T, n, dep) \/ LinkPending(T, h, q, dep)
      /\ T.name = "bulk_tool" /\ T.stage = "ok" => T.left = {} /\ n = Len(T.batch)

BatchInv ==
  /\ tool = [a \in Agents |-> tool[a]]
  /\ \A a \in Agents : ToolOK(tool[a], handler[a], req[a])

(* What is written stays.                                                   *)
LEMMA LinksStay ==
  ASSUME EdgesKept
  PROVE  /\ \A T, i, dep : Linked(T, i, dep) => Linked(T, i, dep)'
         /\ \A T, h, q, dep : LinkPending(T, h, q, dep) => LinkPending(T, h, q, dep)'
<1>1. ASSUME NEW t, NEW d, Placed(t, d) PROVE Placed(t, d)'
  <2>1. t \in used' /\ d \in used'
    BY <1>1 DEF Placed, EdgesKept
  <2>2. ASSUME t \in live', d \in live' PROVE <<t, d>> \in deps'
    <3>1. <<t, d>> \in deps
      BY <1>1, <2>2 DEF Placed, EdgesKept
    <3>2. <<t, d>>[1] = t /\ <<t, d>>[2] = d
      OBVIOUS
    <3>3. QED
      BY <2>2, <3>1, <3>2 DEF EdgesKept
  <2>3. QED
    BY <2>1, <2>2 DEF Placed
<1>2. \A T, i, dep : Linked(T, i, dep) => Linked(T, i, dep)'
  BY <1>1 DEF Linked, Named, Earlier
<1>3. \A T, h, q, dep : LinkPending(T, h, q, dep) => LinkPending(T, h, q, dep)'
  BY DEF LinkPending, Named, Earlier, EdgesKept
<1>4. QED
  BY <1>2, <1>3

(* While the tool waits: its handler goes on, the board changes.            *)
LEMMA ToolWaits ==
  ASSUME EdgesKept, NEW T, NEW h, NEW q, NEW h2, NEW q2, ToolOK(T, h, q),
         h2.stage # "idle" => h.stage # "idle" /\ h2.op = h.op,
         \/ h2.stage = "error"
         \/ /\ h.stage # "error"
            /\ \A dep : LinkPending(T, h, q, dep) =>
                          Linked(T, Len(T.created), dep)' \/ LinkPending(T, h2, q2, dep)'
  PROVE  ToolOK(T, h2, q2)'
<1>1. PICK n : n = Len(T.created)
  OBVIOUS
<1>2. \A i, dep : Linked(T, i, dep) => Linked(T, i, dep)'
  BY LinksStay
<1>3. /\ ToolRecord(T)
      /\ T.created \in Seq(Tasks) /\ \A i \in 1 .. n : T.created[i] \in used'
      /\ T.name # "bulk_tool" => T.created = <<>>
      /\ h2.stage # "idle" => T.stage = "running"
      /\ h2.stage # "idle" /\ h2.op = "create" /\ T.name = "bulk_tool" => T.left = {}
      /\ T.name = "bulk_tool" /\ T.stage = "ok" => T.left = {} /\ n = Len(T.batch)
  BY <1>1 DEF ToolOK, EdgesKept
<1>4. \A i \in 1 .. n - 1 : \A dep \in T.batch[i] : Linked(T, i, dep)'
  BY <1>1, <1>2 DEF ToolOK
<1>5. ASSUME n # 0, T.stage # "error", h2.stage # "error", NEW dep \in T.batch[n] \ T.left
      PROVE  Linked(T, n, dep)' \/ LinkPending(T, h2, q2, dep)'
  <2>1. Linked(T, n, dep) \/ LinkPending(T, h, q, dep)
    BY <1>1, <1>5 DEF ToolOK
  <2>2. QED
    BY <1>1, <1>2, <1>5, <2>1
<1>6. QED
  BY <1>1, <1>3, <1>4, <1>5 DEF ToolOK, ToolRecord

(* The tools that create nothing.                                           *)
LEMMA OtherTools ==
  ASSUME NEW T, NEW h, NEW q, ToolRecord(T), T.created = <<>>,
         T.name = "bulk_tool" => h.stage = "idle" /\ T.stage # "ok",
         h.stage # "idle" => T.stage = "running"
  PROVE  ToolOK(T, h, q)'
<1>1. T.created \in Seq(Tasks) /\ Len(T.created) = 0
  OBVIOUS
<1>2. QED
  BY <1>1 DEF ToolOK, ToolRecord

(* The agent is told what became of its call.                               *)
LEMMA ToolEnds ==
  ASSUME EdgesKept, NEW T, NEW h, NEW q, NEW T2, NEW h2, NEW q2, ToolOK(T, h, q),
         T2 = [T EXCEPT !.stage = T2.stage], h2.stage = "idle",
         \/ T2.stage = "error"
         \/ /\ T2.stage = "ok" /\ T.stage # "error"
            /\ T.name = "bulk_tool" =>
                 h.stage = "idle" /\ T.left = {} /\ Len(T.created) = Len(T.batch)
  PROVE  ToolOK(T2, h2, q2)'
<1>1. /\ ToolRecord(T2) /\ T2.name = T.name /\ T2.batch = T.batch /\ T2.left = T.left
      /\ T2.created = T.created
  BY DEF ToolOK, ToolRecord
<1>2. PICK n : n = Len(T.created) /\ n \in Nat
  BY DEF ToolOK
<1>3. \A i, dep : Linked(T, i, dep) => Linked(T2, i, dep)'
  BY <1>1, LinksStay DEF Linked, Named
<1>4. /\ \A i \in 1 .. n : T2.created[i] \in used'
      /\ \A i \in 1 .. n - 1 : \A dep \in T2.batch[i] : Linked(T2, i, dep)'
  BY <1>1, <1>2, <1>3 DEF ToolOK, EdgesKept
<1>5. ASSUME n # 0, T2.stage # "error", NEW dep \in T2.batch[n] \ T2.left
      PROVE  Linked(T2, n, dep)'
  <2>1. T.name = "bulk_tool"
    BY <1>2, <1>5 DEF ToolOK
  <2>2. h.stage = "idle" /\ T.stage # "error"
    BY <1>5, <2>1
  <2>3. Linked(T, n, dep)
    BY <1>1, <1>2, <1>5, <2>2 DEF ToolOK, LinkPending
  <2>4. QED
    BY <1>3, <2>3
<1>6. QED
  BY <1>1, <1>2, <1>4, <1>5 DEF ToolOK, ToolRecord

(* The request of an agent goes on: the edge it was begun for is inserted   *)
(* before its handler announces that it was.                                *)
LEMMA OwnRequest ==
  ASSUME TypeInv, HandlerInv, NEW a \in Agents, NEW T, ToolOK(T, handler[a], req[a]),
         Advance(a) \/ Quit(a) \/ AnswerLost(a) \/ Announce(a)
  PROVE  ToolOK(T, handler[a], req[a])'
<1>0. /\ a \in Requests /\ handler \in [Requests -> HandlerRecord] /\ HandlerOK(a)
      /\ EdgesKept
  BY LiveBoardAssumption, LiveStepsOnBoard DEF HandlerInv, LiveStep
<1>1. PICK h, q, h2, q2 : h = handler[a] /\ q = req[a] /\ h2 = handler'[a] /\ q2 = req'[a]
  OBVIOUS
<1>2. SUFFICES ToolOK(T, h2, q2)'
  <2>1. ASSUME ToolOK(T, h2, q2)' PROVE ToolOK(T, handler[a], req[a])'
    BY <1>1, <2>1
  <2>2. QED
    BY <2>1
<1>3. ToolOK(T, h, q) /\ h \in HandlerRecord
  BY <1>0, <1>1
<1>4. ASSUME NEW stage \in {"ok", "error"}, Answer(a, stage)
      PROVE  h2.stage = stage /\ h2.op = h.op
  BY <1>0, <1>1, <1>4 DEF Answer, HandlerRecord
<1>5. ASSUME h.stage # "idle", h2.stage = "error", h2.op = h.op PROVE ToolOK(T, h2, q2)'
  BY <1>0, <1>3, <1>5, ToolWaits
<1>6. CASE AnswerLost(a)
  BY <1>1, <1>4, <1>5, <1>6 DEF AnswerLost, Fail
<1>7. CASE Announce(a)
  <2>1. h.stage = "announce" /\ h2.op = h.op /\ h2.stage = "ok"
    BY <1>1, <1>4, <1>7 DEF Announce
  <2>2. \A dep : ~LinkPending(T, h, q, dep)
    BY <2>1 DEF LinkPending
  <2>3. QED
    BY <1>0, <1>3, <2>1, <2>2, ToolWaits
<1>8. CASE Advance(a) \/ Quit(a)
  <2>1. h.stage = "serving" /\ Serves(q, h.op, q.task) /\ (Proceed(a) \/ Abort(a))
    BY <1>0, <1>1, <1>8 DEF Advance, Quit, HandlerOK
  <2>2. CASE Serves(q2, h.op, q.task) /\ UNCHANGED handler
    <3>1. q2.step # "idle" /\ h2 = h
      BY <1>1, <2>2 DEF Serves
    <3>2. q2 = Idle \/ Onward(q, q2)
      <4>1. req'[a] = Idle \/ Onward(req[a], req'[a])
        BY <1>0, <2>1, ProceedOnward
      <4>2. QED
        BY <1>1, <4>1 DEF Onward
    <3>3. Onward(q, q2)
      BY <3>1, <3>2 DEF Idle
    <3>4. h.op = "add_dependency" => q2.edges = q.edges
      BY <2>1, <3>3 DEF Serves, Onward
    <3>5. ASSUME NEW dep, LinkPending(T, h, q, dep) PROVE LinkPending(T, h2, q2, dep)'
      <4>1. LinkPending(T, h2, q2, dep)
        BY <3>1, <3>4, <3>5 DEF LinkPending
      <4>2. QED
        BY <1>0, <4>1, LinksStay
    <3>6. QED
      BY <1>0, <1>3, <2>1, <3>1, <3>5, ToolWaits
  <2>3. CASE Fail(a)
    BY <1>4, <1>5, <2>1, <2>3 DEF Fail
  <2>4. ASSUME req'[a] = Idle, NEW s,
               handler' = [handler EXCEPT ![a].stage = "announce", ![a].tasks = @ \o s]
        PROVE  ToolOK(T, h2, q2)'
    <3>1. h2.stage = "announce" /\ h2.op = h.op
      BY <1>0, <1>1, <2>4 DEF HandlerRecord
    <3>2. ~Fail(a)
      BY <1>4, <3>1 DEF Fail
    <3>3. \/ Advance(a) /\ LastStepWorks(a)
          \/ Quit(a) /\ ErrorIgnored(a)
      BY <1>8, <2>4, <3>2 DEF Advance, Quit, Outcome, Idle
    <3>4. ASSUME NEW dep, LinkPending(T, h, q, dep) PROVE Linked(T, Len(T.created), dep)'
      <4>1. PICK t, d : t = T.created[Len(T.created)] /\ d = Named(T, dep)
        OBVIOUS
      <4>2. /\ q.step \in {"check_cycle", "link"} /\ h.op = "add_dependency"
            /\ q.edges = {<<t, d>>} /\ t \in used /\ d \in used
            /\ Earlier(dep, Len(T.created))
        BY <2>1, <3>4, <4>1 DEF LinkPending, Serves
      <4>3. ~ErrorIgnored(a)
        BY <1>1, <4>2 DEF ErrorIgnored
      <4>4. /\ q.step = "link" /\ Proceed(a)
            /\ \E e \in q.edges : Insertable(e)
        BY <1>1, <3>3, <4>2, <4>3 DEF Advance, LastStepWorks
      <4>5. PICK e \in Tasks \X Tasks : InsertDependency(a, e)
        BY <1>1, <4>4 DEF Proceed, ContinueUnblock, ContinueWontDo, ContinueEstimate, Reload,
           CheckDependencies, WriteRow, WriteFails, PostComment, MarkSeenRow, DeleteRow,
           RecreateTask, CheckCycle
      <4>6. e = <<t, d>>
        BY <1>1, <4>2, <4>5 DEF InsertDependency
      <4>7. Insertable(e)
        BY <4>2, <4>4, <4>6
      <4>8. <<t, d>> \in deps' /\ used' = used
        BY <4>5, <4>6, <4>7 DEF InsertDependency
      <4>9. Placed(t, d)'
        BY <4>2, <4>8 DEF Placed
      <4>10. QED
        BY <4>1, <4>2, <4>9 DEF Linked, Named, Earlier
    <3>5. QED
      BY <1>0, <1>3, <2>1, <3>1, <3>4, ToolWaits
  <2>5. \/ Serves(q2, h.op, q.task) /\ UNCHANGED handler
        \/ Fail(a)
        \/ /\ req'[a] = Idle
           /\ \E s : handler' = [handler EXCEPT ![a].stage = "announce", ![a].tasks = @ \o s]
    BY <1>0, <1>1, <1>8, ServedStep DEF Serves
  <2>6. QED
    BY <2>2, <2>3, <2>4, <2>5
<1>9. QED
  BY <1>6, <1>7, <1>8

(* The steps that are made for another agent, or for no agent.              *)
LEMMA OtherRequest ==
  ASSUME EdgesKept, NEW a, NEW T, ToolOK(T, handler[a], req[a]),
         handler'[a] = handler[a], req'[a] = req[a]
  PROVE  ToolOK(T, handler[a], req[a])'
<1>1. PICK h, q : h = handler[a] /\ q = req[a]
  OBVIOUS
<1>2. \A dep : LinkPending(T, h, q, dep) => LinkPending(T, h, q, dep)'
  BY LinksStay
<1>3. ToolOK(T, h, q)'
  BY <1>1, <1>2, ToolWaits
<1>4. QED
  BY <1>1, <1>3

(* A restart: a request that was open has failed.                           *)
LEMMA RestartedRequest ==
  ASSUME HandlerInv, EdgesKept, Restart, NEW a \in Agents, NEW T,
         ToolOK(T, handler[a], req[a])
  PROVE  ToolOK(T, handler[a], req[a])'
<1>1. PICK h, q, h2, q2 : h = handler[a] /\ q = req[a] /\ h2 = handler'[a] /\ q2 = req'[a]
  OBVIOUS
<1>2. \/ h.stage # "idle" /\ h2.stage = "error" /\ h2.op = h.op
      \/ h.stage = "idle" /\ h2.stage = "idle"
  <2>1. a \in Requests /\ h \in HandlerRecord
    BY <1>1, LiveBoardAssumption DEF HandlerInv
  <2>2. QED
    BY <1>1, <2>1 DEF Restart, NoHandler, HandlerRecord
<1>3. h.stage = "idle" => \A dep : ~LinkPending(T, h, q, dep)
  BY DEF LinkPending
<1>4. ToolOK(T, h2, q2)'
  BY <1>1, <1>2, <1>3, ToolWaits
<1>5. QED
  BY <1>1, <1>4

(* The steps of the agent itself.                                           *)
LEMMA AgentSteps ==
  ASSUME TypeInv, HandlerInv, BatchInv, EdgesKept, NEW a \in Agents, AgentNext(a)
  PROVE  BatchInv'
<1>0. /\ a \in Requests /\ tool = [b \in Agents |-> tool[b]] /\ live \subseteq used
      /\ handler \in [Requests -> HandlerRecord] /\ HandlerOK(a)
  BY LiveBoardAssumption DEF HandlerInv, BatchInv, TypeInv, TypeOK
<1>1. PICK T, h, q, h2, q2 : /\ T = tool[a] /\ h = handler[a] /\ q = req[a]
                             /\ h2 = handler'[a] /\ q2 = req'[a]
  OBVIOUS
<1>2. PICK n : n = Len(T.created)
  OBVIOUS
<1>3. ToolOK(T, h, q) /\ ToolRecord(T) /\ T.created \in Seq(Tasks) /\ n \in Nat
  <2>1. ToolOK(T, h, q)
    BY <1>1 DEF BatchInv
  <2>2. QED
    BY <1>2, <2>1 DEF ToolOK
<1>e. EdgesKept
  OBVIOUS
<1>f. ASSUME NEW T2, tool' = [tool EXCEPT ![a] = T2], ToolOK(T2, h2, q2)',
             \A b \in Agents \ {a} : handler'[b] = handler[b] /\ req'[b] = req[b]
      PROVE  BatchInv'
  <2>1. /\ tool' = [b \in Agents |-> IF b = a THEN T2 ELSE tool[b]]
        /\ tool'[a] = T2 /\ \A b \in Agents \ {a} : tool'[b] = tool[b]
    BY <1>0, <1>f
  <2>f. tool' = [b \in Agents |-> tool'[b]]
    BY <2>1
  <2>2. ASSUME NEW b \in Agents PROVE ToolOK(tool[b], handler[b], req[b])'
    <3>1. CASE b = a
      BY <1>1, <1>f, <2>1, <3>1
    <3>2. CASE b # a
      <4>1. PICK U : U = tool[b] /\ U = tool'[b]
        BY <2>1, <3>2
      <4>2. ToolOK(U, handler[b], req[b]) /\ handler'[b] = handler[b] /\ req'[b] = req[b]
        BY <1>f, <3>2, <4>1 DEF BatchInv
      <4>3. ToolOK(U, handler[b], req[b])'
        BY <1>e, <4>2, OtherRequest
      <4>4. QED
        BY <4>1, <4>3
    <3>3. QED
      BY <3>1, <3>2
  <2>3. QED
    BY <2>f, <2>2 DEF BatchInv
<1>u. UNCHANGED tool => tool' = [tool EXCEPT ![a] = T]
  BY <1>1, <1>0
<1>l. ASSUME UNCHANGED liveVars
      PROVE  /\ h2 = h /\ q2 = q
             /\ \A b \in Agents \ {a} : handler'[b] = handler[b] /\ req'[b] = req[b]
  BY <1>1, <1>l DEF liveVars, vars
<1>t. ASSUME Take(a)
      PROVE  /\ h2.stage = "idle" /\ h2.op = "none" /\ q2 = q
             /\ \A b \in Agents \ {a} : handler'[b] = handler[b] /\ req'[b] = req[b]
  BY <1>0, <1>1, <1>t DEF Take, NoHandler, vars
<1>s. ASSUME NEW op, NEW t \in Tasks, Serve(a, op, t)
      PROVE  /\ h.stage = "idle" /\ h2.op = op /\ h2.stage \in {"announce", "serving"}
             /\ \A b \in Agents \ {a} : handler'[b] = handler[b] /\ req'[b] = req[b]
             /\ op = "add_dependency" => h2.stage = "serving"
  <2>1. h.stage = "idle" /\ Handles(a, op, t) /\ req[a].step = "idle"
    BY <1>0, <1>1, <1>s DEF Serve, HandlerOK
  <2>2. /\ h2.op = op
        /\ h2.stage = IF req'[a].step = "idle" THEN "announce" ELSE "serving"
        /\ \A b \in Agents \ {a} : handler'[b] = handler[b]
    BY <1>0, <1>1, <1>s DEF Serve
  <2>3. OthersKept(a) /\ (op = "add_dependency" => req'[a].step # "idle")
    BY <2>1, <1>0, HandlesStarts DEF Immediate, Serves
  <2>4. QED
    BY <2>1, <2>2, <2>3, LiveBoardAssumption DEF OthersKept
<1>c. ASSUME NEW name, NEW batch, NEW links, Call(a, name, batch, links)
      PROVE  BatchInv'
  <2>1. PICK T2 : T2 = [NoTool EXCEPT !.name = name, !.batch = batch, !.links = links,
                                      !.stage = "running"]
    OBVIOUS
  <2>2. /\ ToolRecord(T2) /\ T2.created = <<>> /\ T2.stage = "running"
        /\ tool' = [tool EXCEPT ![a] = T2]
    BY <1>c, <2>1 DEF Call, NoTool, ToolRecord
  <2>3. h.stage = "idle"
    BY <1>1, <1>3, <1>c DEF Call, ToolOK
  <2>4. h2 = h /\ \A b \in Agents \ {a} : handler'[b] = handler[b] /\ req'[b] = req[b]
    BY <1>c, <1>l DEF Call
  <2>5. ToolOK(T2, h2, q2)'
    BY <2>2, <2>3, <2>4, OtherTools
  <2>6. QED
    BY <2>2, <2>4, <2>5, <1>f
<1>d. ASSUME NEW stage, EndTool(a, stage), h2.stage = "idle",
             \A b \in Agents \ {a} : handler'[b] = handler[b] /\ req'[b] = req[b],
             \/ stage = "error"
             \/ /\ stage = "ok" /\ T.stage # "error"
                /\ T.name = "bulk_tool" => h.stage = "idle" /\ T.left = {} /\ n = Len(T.batch)
      PROVE  BatchInv'
  <2>1. PICK T2 : T2 = [T EXCEPT !.stage = stage]
    OBVIOUS
  <2>2. T2.stage = stage
    BY <1>3, <2>1 DEF ToolRecord
  <2>3. tool' = [tool EXCEPT ![a] = T2]
    BY <1>1, <1>d, <2>1 DEF EndTool
  <2>4. ToolOK(T2, h2, q2)'
    BY <1>2, <1>3, <1>d, <1>e, <2>1, <2>2, ToolEnds
  <2>5. QED
    BY <1>d, <1>f, <2>3, <2>4
<1>k. CASE \/ \E batch \in Batches : BulkCreateTool(a, batch)
           \/ \E links \in LinkLists : BulkAddTool(a, links)
           \/ \E name \in DOMAIN OperationOf : TaskTool(a, name)
  BY <1>k, <1>c DEF BulkCreateTool, BulkAddTool, TaskTool
<1>4. ASSUME NEW t \in Tasks, CreateNext(a, t)
      PROVE  BatchInv'
  <2>1. /\ T.name = "bulk_tool" /\ T.stage = "running" /\ T.left = {} /\ UNCHANGED tool
        /\ Serve(a, "create", t)
    BY <1>1, <1>4 DEF CreateNext, Running, Forward
  <2>2. /\ h.stage = "idle" /\ h2.op = "create"
        /\ \A b \in Agents \ {a} : handler'[b] = handler[b] /\ req'[b] = req[b]
    BY <1>s, <2>1
  <2>3. ToolOK(T, h, q)'
    <3>1. \A dep : ~LinkPending(T, h, q, dep)
      BY <2>2 DEF LinkPending
    <3>2. QED
      BY <1>3, <1>e, <2>2, <3>1, ToolWaits
  <2>4. \A dep : ~LinkPending(T, h, q, dep)'
    BY <2>2 DEF LinkPending
  <2>5. ToolOK(T, h2, q2)'
    BY <2>1, <2>2, <2>3, <2>4 DEF ToolOK
  <2>6. QED
    BY <2>1, <2>2, <2>5, <1>f, <1>u
<1>5. ASSUME NEW t \in Tasks, CallTask(a, t)
      PROVE  BatchInv'
  <2>1. /\ T.name \in DOMAIN OperationOf /\ T.stage = "running" /\ UNCHANGED tool
        /\ Serve(a, OperationOf[T.name], t)
    BY <1>1, <1>5 DEF CallTask, Forward
  <2>2. T.name # "bulk_tool"
    BY <2>1 DEF OperationOf
  <2>3. T.created = <<>>
    BY <1>3, <2>2 DEF ToolOK
  <2>4. ToolOK(T, h2, q2)'
    BY <1>3, <2>1, <2>2, <2>3, OtherTools
  <2>5. QED
    BY <2>1, <2>4, <1>f, <1>s, <1>u
<1>6. CASE AddLink(a)
  <2>1. PICK e : /\ Serve(a, "add_dependency", e[1])
                 /\ tool' = [tool EXCEPT ![a].links = Tail(@)]
                 /\ T.name = "link_tool" /\ T.stage = "running"
    BY <1>1, <1>6 DEF AddLink, Running, Forward
  <2>2. e[1] \in Tasks
    BY <1>0, <2>1 DEF Serve, Handles, HandleAddDependency, AddDependency, Found, TypeInv, TypeOK
  <2>3. PICK T2 : T2 = [T EXCEPT !.links = Tail(@)]
    OBVIOUS
  <2>4. tool' = [tool EXCEPT ![a] = T2]
    BY <1>1, <2>1, <2>3
  <2>5. /\ ToolRecord(T2) /\ T2.created = <<>> /\ T2.stage = "running"
        /\ T2.name # "bulk_tool"
    <3>1. T.created = <<>>
      BY <1>3, <2>1 DEF ToolOK
    <3>2. QED
      BY <1>3, <2>1, <2>3, <3>1 DEF ToolRecord
  <2>6. ToolOK(T2, h2, q2)'
    BY <2>5, OtherTools
  <2>7. QED
    BY <2>1, <2>2, <2>4, <2>6, <1>f, <1>s
<1>7. CASE TakeAdded(a)
  <2>1. h.op = "add_dependency" /\ h.stage = "ok" /\ UNCHANGED tool /\ Take(a)
    BY <1>1, <1>7 DEF TakeAdded, Answered
  <2>2. \A dep : ~LinkPending(T, h, q, dep)
    BY <2>1 DEF LinkPending
  <2>3. ToolOK(T, h2, q2)'
    BY <1>3, <1>e, <1>t, <2>1, <2>2, ToolWaits
  <2>4. QED
    BY <2>1, <2>3, <1>f, <1>t, <1>u
<1>8. CASE BatchDone(a) \/ LinksDone(a) \/ CallFails(a)
  <2>1. /\ h.stage = "idle" /\ T.stage = "running"
        /\ \/ EndTool(a, "error")
           \/ /\ EndTool(a, "ok")
              /\ T.name = "bulk_tool" => T.left = {} /\ n = Len(T.batch)
        /\ UNCHANGED liveVars
    BY <1>1, <1>2, <1>8 DEF BatchDone, LinksDone, CallFails, Running, Count
  <2>2. QED
    BY <1>d, <1>l, <2>1
<1>9. CASE TakeDone(a) \/ TakeError(a)
  <2>1. /\ Take(a) /\ h.stage # "idle"
        /\ \/ EndTool(a, "error")
           \/ EndTool(a, "ok") /\ T.name \in DOMAIN OperationOf
    BY <1>1, <1>9 DEF TakeDone, TakeError, Answered
  <2>2. T.name \in DOMAIN OperationOf => T.name # "bulk_tool"
    BY DEF OperationOf
  <2>3. T.stage = "running"
    BY <1>3, <2>1 DEF ToolOK
  <2>4. QED
    BY <1>d, <1>t, <2>1, <2>2, <2>3
<1>10. CASE TakeCreated(a)
  <2>1. /\ T.name = "bulk_tool" /\ T.stage = "running" /\ h.op = "create" /\ h.stage = "ok"
        /\ Take(a)
        /\ tool' = [tool EXCEPT ![a].created = Append(@, h.tasks[1]),
                                ![a].left = T.batch[n + 1]]
    BY <1>1, <1>2, <1>10 DEF TakeCreated, Running, Answered, Count
  <2>2. T.left = {} /\ \A dep : ~LinkPending(T, h, q, dep)
    BY <1>3, <2>1 DEF ToolOK, LinkPending
  <2>3. PICK t : t = h.tasks[1] /\ t \in Tasks /\ t \in used
    <3>1. h \in HandlerRecord /\ Len(h.tasks) > 0 /\ h.tasks[1] \in used
      BY <1>0, <1>1, <2>1 DEF HandlerOK
    <3>2. QED
      BY <3>1 DEF HandlerRecord
  <2>4. PICK T2 : T2 = [T EXCEPT !.created = Append(@, t), !.left = T.batch[n + 1]]
    OBVIOUS
  <2>5. tool' = [tool EXCEPT ![a] = T2]
    BY <1>1, <2>1, <2>3, <2>4
  <2>6. /\ ToolRecord(T2) /\ T2.name = T.name /\ T2.stage = T.stage /\ T2.batch = T.batch
        /\ T2.created = Append(T.created, t) /\ T2.left = T.batch[n + 1]
    BY <1>3, <2>4 DEF ToolRecord
  <2>7. /\ T2.created \in Seq(Tasks) /\ Len(T2.created) = n + 1 /\ T2.created[n + 1] = t
        /\ \A i \in 1 .. n : T2.created[i] = T.created[i]
    BY <1>2, <1>3, <2>3, <2>6
  <2>8. \A i \in 1 .. n + 1 : T2.created[i] \in used'
    <3>1. (\A i \in 1 .. n : T.created[i] \in used) /\ used \subseteq used'
      BY <1>2, <1>3, <1>e DEF ToolOK, EdgesKept
    <3>2. \A i \in 1 .. n + 1 : i \in 1 .. n \/ i = n + 1
      BY <1>3
    <3>3. QED
      BY <2>3, <2>7, <3>1, <3>2
  <2>9. ASSUME NEW i \in 1 .. n, NEW dep \in T2.batch[i]
        PROVE  Linked(T2, i, dep)'
    <3>1. Linked(T, i, dep)
      <4>1. CASE i = n
        BY <1>2, <1>3, <2>1, <2>2, <2>6, <2>9, <4>1 DEF ToolOK
      <4>2. CASE i # n
        <5>1. i \in 1 .. n - 1
          BY <1>3, <2>9, <4>2
        <5>2. QED
          BY <1>2, <1>3, <2>6, <2>9, <5>1 DEF ToolOK
      <4>3. QED
        BY <4>1, <4>2
    <3>2. Named(T2, dep) = Named(T, dep) /\ T2.created[i] = T.created[i]
      <4>1. dep[1] # "id" => dep[2] \in 1 .. n
        BY <1>3, <2>9, <3>1 DEF Linked, Earlier
      <4>2. QED
        BY <2>7, <2>9, <4>1 DEF Named
    <3>3. Linked(T2, i, dep)
      BY <3>1, <3>2 DEF Linked
    <3>4. QED
      BY <1>e, <3>3, LinksStay
  <2>10. T2.batch[n + 1] \ T2.left = {} /\ (n + 1) - 1 = n
    BY <1>3, <2>6
  <2>11. ToolOK(T2, h2, q2)'
    BY <1>t, <2>1, <2>6, <2>7, <2>8, <2>9, <2>10 DEF ToolOK, ToolRecord
  <2>12. QED
    BY <1>f, <1>t, <2>1, <2>5, <2>11
<1>11. CASE AddNext(a)
  <2>1. PICK dep \in T.left, d \in Tasks :
          /\ d \in Resolve(a, dep)
          /\ Serve(a, "add_dependency", T.created[n])
          /\ q2.edges = {<<T.created[n], d>>}
          /\ tool' = [tool EXCEPT ![a].left = @ \ {dep}]
          /\ T.name = "bulk_tool" /\ T.stage = "running"
    BY <1>1, <1>2, <1>11 DEF AddNext, Running, Forward, Count
  <2>2. PICK t : t = T.created[n]
    OBVIOUS
  <2>3. t \in live /\ d \in live /\ t # d
    <3>1. PICK x \in Tasks : AddDependency(a, t, x)
      BY <2>1, <2>2 DEF Serve, Handles, HandleAddDependency
    <3>2. q2.edges = {<<t, x>>}
      BY <1>0, <1>1, <3>1 DEF AddDependency, Start, TypeInv, TypeOK
    <3>3. x = d
      <4>1. <<t, d>> \in q2.edges
        BY <2>1, <2>2
      <4>2. <<t, d>> = <<t, x>>
        BY <3>2, <4>1
      <4>3. QED
        BY <4>2
    <3>4. QED
      BY <3>1, <3>3 DEF AddDependency, Found
  <2>4. t \in Tasks /\ t \in used /\ d \in used
    BY <1>0, <2>3 DEF TypeInv, TypeOK
  <2>5. /\ h.stage = "idle" /\ h2.op = "add_dependency" /\ h2.stage = "serving"
        /\ \A b \in Agents \ {a} : handler'[b] = handler[b] /\ req'[b] = req[b]
    BY <1>s, <2>1, <2>2, <2>4
  <2>6. PICK T2 : T2 = [T EXCEPT !.left = @ \ {dep}]
    OBVIOUS
  <2>7. tool' = [tool EXCEPT ![a] = T2]
    BY <1>1, <2>1, <2>6
  <2>8. /\ ToolRecord(T2) /\ T2.name = T.name /\ T2.stage = T.stage /\ T2.batch = T.batch
        /\ T2.created = T.created /\ T2.left = T.left \ {dep}
    BY <1>3, <2>6 DEF ToolRecord
  <2>9. d = Named(T, dep) /\ (dep[1] # "id" => dep[2] \in 1 .. n)
    BY <1>1, <1>2, <2>1 DEF Resolve, Count, Named
  <2>10. Earlier(dep, n)
    <3>1. ASSUME dep[1] # "id" PROVE dep[2] \in 1 .. n - 1
      <4>1. dep[2] \in 1 .. n /\ d = T.created[dep[2]]
        BY <2>9, <3>1 DEF Named
      <4>2. dep[2] # n
        BY <2>2, <2>3, <4>1
      <4>3. QED
        BY <1>3, <4>1, <4>2
    <3>2. QED
      BY <3>1 DEF Earlier
  <2>11. LinkPending(T2, h2, q2, dep)'
    <3>1. T2.created[n] = t /\ Named(T2, dep) = d /\ Len(T2.created) = n
      BY <1>2, <2>2, <2>8, <2>9 DEF Named
    <3>2. LinkPending(T2, h2, q2, dep)
      BY <2>1, <2>2, <2>4, <2>5, <2>10, <3>1 DEF LinkPending
    <3>3. QED
      BY <1>e, <3>2, LinksStay
  <2>12. \A i, x : Linked(T, i, x) => Linked(T2, i, x)'
    BY <1>e, <2>8, LinksStay DEF Linked, Named
  <2>13. \A i \in 1 .. n - 1 : \A x \in T2.batch[i] : Linked(T2, i, x)'
    BY <1>2, <1>3, <2>8, <2>12 DEF ToolOK
  <2>14. ASSUME n # 0, NEW x \in T2.batch[n] \ T2.left
         PROVE  Linked(T2, n, x)' \/ LinkPending(T2, h2, q2, x)'
    <3>1. CASE x = dep
      BY <2>11, <3>1
    <3>2. CASE x # dep
      <4>1. x \in T.batch[n] \ T.left
        BY <2>8, <2>14, <3>2
      <4>2. Linked(T, n, x)
        BY <1>2, <1>3, <2>1, <2>5, <2>14, <4>1 DEF ToolOK, LinkPending
      <4>3. QED
        BY <2>12, <4>2
    <3>3. QED
      BY <3>1, <3>2
  <2>15. /\ T2.created \in Seq(Tasks) /\ n = Len(T2.created)
         /\ \A i \in 1 .. n : T2.created[i] \in used'
    BY <1>2, <1>3, <1>e, <2>8 DEF ToolOK, EdgesKept
  <2>16. ToolOK(T2, h2, q2)'
    BY <2>1, <2>5, <2>8, <2>13, <2>14, <2>15 DEF ToolOK, ToolRecord
  <2>17. QED
    BY <1>f, <2>5, <2>7, <2>16
<1>12. QED
  BY <1>k, <1>4, <1>5, <1>6, <1>7, <1>8, <1>9, <1>10, <1>11 DEF AgentNext

(* No agent has called a tool when the clients start.                       *)
LEMMA BatchInvInit == AllInit => BatchInv
<1> SUFFICES ASSUME AllInit PROVE BatchInv
  OBVIOUS
<1>1. tool = [a \in Agents |-> NoTool] /\ handler = [r \in Requests |-> NoHandler]
  BY DEF AllInit, LiveInit
<1>2. ASSUME NEW a \in Agents PROVE ToolOK(tool[a], handler[a], req[a])
  <2>1. tool[a] = NoTool /\ handler[a] = NoHandler
    BY <1>1, LiveBoardAssumption
  <2>2. /\ ToolRecord(NoTool) /\ NoTool.created = <<>> /\ Len(NoTool.created) = 0
        /\ NoTool.stage = "idle" /\ NoTool.name = "none" /\ NoHandler.stage = "idle"
    BY DEF NoTool, ToolRecord, NoHandler
  <2>3. QED
    BY <2>1, <2>2 DEF ToolOK
<1>3. QED
  BY <1>1, <1>2 DEF BatchInv

(* Every step of the clients keeps the batches in order.                    *)
LEMMA BatchInvNext ==
  ASSUME TypeInv, HandlerInv, BatchInv, [AllNext]_allVars
  PROVE  BatchInv'
<1>0. LiveStep
  BY LiveKinds DEF allVars, LiveStep
<1>1. EdgesKept
  BY <1>0, LiveStepsOnBoard
<1>2. Agents \subseteq Requests /\ handler \in [Requests -> HandlerRecord]
  BY LiveBoardAssumption DEF HandlerInv
<1>3. ASSUME UNCHANGED tool,
             \A a \in Agents : ToolOK(tool[a], handler[a], req[a])
                                 => \E T : T = tool[a] /\ ToolOK(T, handler[a], req[a])'
      PROVE  BatchInv'
  <2>1. ASSUME NEW a \in Agents PROVE ToolOK(tool[a], handler[a], req[a])'
    <3>1. PICK T : T = tool[a] /\ ToolOK(T, handler[a], req[a])'
      BY <1>3 DEF BatchInv
    <3>2. T = tool'[a]
      BY <1>3, <3>1
    <3>3. QED
      BY <3>1, <3>2
  <2>2. QED
    BY <1>3, <2>1 DEF BatchInv
<1>4. ASSUME UNCHANGED tool, NEW X \in SUBSET Agents,
             \A b \in Agents \ X : handler'[b] = handler[b] /\ req'[b] = req[b],
             \A a \in X : Advance(a) \/ Quit(a) \/ AnswerLost(a) \/ Announce(a)
      PROVE  BatchInv'
  <2>1. ASSUME NEW a \in Agents, ToolOK(tool[a], handler[a], req[a])
        PROVE  \E T : T = tool[a] /\ ToolOK(T, handler[a], req[a])'
    <3>1. PICK T : T = tool[a]
      OBVIOUS
    <3>2. ToolOK(T, handler[a], req[a])
      BY <2>1, <3>1
    <3>3. CASE a \in X
      BY <1>4, <3>1, <3>2, <3>3, OwnRequest
    <3>4. CASE a \notin X
      BY <1>1, <1>4, <3>1, <3>2, <3>4, OtherRequest
    <3>5. QED
      BY <3>3, <3>4
  <2>2. QED
    BY <1>3, <1>4, <2>1
<1>5. CASE UNCHANGED <<vars, handler, tool>>
  <2>1. PICK X \in SUBSET Agents : X = {}
    OBVIOUS
  <2>2. QED
    BY <1>4, <1>5, <2>1 DEF vars
<1>6. CASE PageNext /\ UNCHANGED <<query, tool>>
  BY <1>5, <1>6 DEF PageNext, Receive, ReadStatement, ReadChildrenFails, ShowAnswer, LoadFails
<1>7. CASE (QueryNext /\ UNCHANGED tool) \/ UNCHANGED allVars
  BY <1>5, <1>7 DEF QueryNext, AskNextTasks, ReadReady, ReadBelowFails, AnswerQuery,
                    TakeNextTasks, liveVars, allVars
<1>8. CASE HandlerNext /\ UNCHANGED tool
  <2>1. ASSUME NEW r \in Requests, Advance(r) \/ Quit(r) \/ AnswerLost(r) \/ Announce(r)
        PROVE  BatchInv'
    <3>1. \A b \in Requests \ {r} : handler'[b] = handler[b] /\ req'[b] = req[b]
      <4>1. CASE Advance(r) \/ Quit(r)
        <5>1. OthersKept(r)
          BY <4>1, ServedStep
        <5>2. \A b \in Requests \ {r} : handler'[b] = handler[b]
          BY <4>1, <1>2 DEF Advance, Quit, Outcome, Succeed, Fail, Answer
        <5>3. QED
          BY <5>1, <5>2 DEF OthersKept
      <4>2. CASE AnswerLost(r) \/ Announce(r)
        BY <4>2, <1>2 DEF AnswerLost, Announce, Fail, Answer, vars
      <4>3. QED
        BY <2>1, <4>1, <4>2
    <3>2. PICK X : X = Agents \cap {r}
      OBVIOUS
    <3>3. QED
      BY <1>2, <1>4, <1>8, <2>1, <3>1, <3>2
  <2>2. ASSUME NEW r \in workload.requests, NEW op, NEW t \in Tasks, Serve(r, op, t)
        PROVE  BatchInv'
    <3>1. r \in Requests \ Agents
      BY <2>2, LiveBoardAssumption DEF HandlerInv
    <3>2. req[r].step = "idle" /\ Handles(r, op, t)
      BY <2>2, <3>1 DEF Serve, HandlerInv, HandlerOK
    <3>3. OthersKept(r)
      BY <3>1, <3>2, HandlesStarts
    <3>4. \A b \in Requests \ {r} : handler'[b] = handler[b] /\ req'[b] = req[b]
      BY <2>2, <3>1, <3>3, <1>2 DEF Serve, OthersKept
    <3>5. PICK X \in SUBSET Agents : X = {}
      OBVIOUS
    <3>6. QED
      BY <1>2, <1>4, <1>8, <3>1, <3>4, <3>5
  <2>3. CASE Restart
    <3>1. ASSUME NEW a \in Agents, ToolOK(tool[a], handler[a], req[a])
          PROVE  \E T : T = tool[a] /\ ToolOK(T, handler[a], req[a])'
      <4>1. PICK T : T = tool[a]
        OBVIOUS
      <4>2. ToolOK(T, handler[a], req[a])
        BY <3>1, <4>1
      <4>3. QED
        BY <1>1, <2>3, <3>1, <4>1, <4>2, RestartedRequest
    <3>2. QED
      BY <1>3, <1>8, <3>1
  <2>4. QED
    BY <1>8, <2>1, <2>2, <2>3 DEF HandlerNext
<1>9. CASE (\E a \in Agents : AgentNext(a)) /\ Watch
  BY <1>1, <1>9, AgentSteps
<1>10. QED
  BY <1>6, <1>7, <1>8, <1>9 DEF AllNext

(* What is written is attached, and a call that ended well left nothing.    *)
LEMMA BatchInvImplies == BatchInv => BatchInOrder
<1> SUFFICES ASSUME BatchInv, NEW a \in Agents
             PROVE  /\ \A i \in 1 .. Count(a) - 1 : Attached(a, i)
                    /\ tool[a].name = "bulk_tool" /\ tool[a].stage = "ok" =>
                         /\ Count(a) = Len(tool[a].batch)
                         /\ \A i \in 1 .. Count(a) : Attached(a, i)
  BY DEF BatchInOrder
<1>1. PICK T, h, q, n : T = tool[a] /\ h = handler[a] /\ q = req[a] /\ n = Len(T.created)
  OBVIOUS
<1>2. ToolOK(T, h, q)
  BY <1>1 DEF BatchInv
<1>3. ASSUME NEW i \in Int, \A dep \in T.batch[i] : Linked(T, i, dep) PROVE Attached(a, i)
  <2>1. ASSUME NEW dep \in T.batch[i]
        PROVE  /\ dep[1] = "ref" => dep[2] < i
               /\ T.created[i] \in live /\ Named(T, dep) \in live
                    => <<T.created[i], Named(T, dep)>> \in deps
    BY <1>3, <2>1 DEF Linked, Earlier, Placed
  <2>2. QED
    BY <1>1, <2>1 DEF Attached, Named
<1>4. \A i \in 1 .. n - 1 : Attached(a, i)
  BY <1>1, <1>2, <1>3 DEF ToolOK
<1>5. ASSUME T.name = "bulk_tool", T.stage = "ok"
      PROVE  n = Len(T.batch) /\ \A i \in 1 .. n : Attached(a, i)
  <2>1. n = Len(T.batch) /\ T.left = {} /\ h.stage = "idle" /\ n \in Nat
    BY <1>1, <1>2, <1>5 DEF ToolOK
  <2>2. n # 0 => \A dep \in T.batch[n] : Linked(T, n, dep)
    BY <1>1, <1>2, <1>5, <2>1 DEF ToolOK, LinkPending
  <2>3. ASSUME NEW i \in 1 .. n PROVE Attached(a, i)
    <3>1. CASE i = n
      BY <1>3, <2>1, <2>2, <2>3, <3>1
    <3>2. CASE i # n
      BY <1>4, <2>1, <2>3, <3>2
    <3>3. QED
      BY <3>1, <3>2
  <2>4. QED
    BY <2>1, <2>3
<1>6. QED
  BY <1>1, <1>4, <1>5 DEF Count

(* Whatever stops a call of bulk_create_tasks, every task it has created    *)
(* but the last has all its dependencies, on the tasks that were meant, and *)
(* if the agent is told of no error, so has the last: the batch is created  *)
(* front to back and each answer is awaited (BulkCreateTasks of the         *)
(* sidecar), while the board is changed and the server restarts.            *)
THEOREM BatchAlwaysInOrder == ClientSpec => []BatchInOrder
<1>1. AllInit => TypeInv /\ HandlerInv /\ BatchInv
  BY TypeInvInit, HandlerInvInit, BatchInvInit DEF AllInit, LiveInit
<1>2. TypeInv /\ HandlerInv /\ BatchInv /\ [AllNext]_allVars
        => (TypeInv /\ HandlerInv /\ BatchInv)'
  <2> SUFFICES ASSUME TypeInv, HandlerInv, BatchInv, [AllNext]_allVars
               PROVE  (TypeInv /\ HandlerInv /\ BatchInv)'
    OBVIOUS
  <2>1. LiveStep
    BY LiveKinds DEF allVars, LiveStep
  <2>2. TypeInv' /\ HandlerInv'
    BY <2>1, LiveTypeInv, HandlerInvNext
  <2>3. QED
    BY <2>2, BatchInvNext
<1>3. QED
  BY <1>1, <1>2, BatchInvImplies, PTL DEF ClientSpec

---------------------------------------------------------------------------
(* The board keeps its promises with all its clients, whatever operations   *)
(* they choose and even when the server restarts in the middle of requests. *)
(* The proof adds to each invariant of the board that a restart, which      *)
(* forgets what the requests had read, keeps it as well.                    *)
BoardInv == TypeInv /\ RowInv /\ CountInv /\ TwinInv /\ DependenciesJoinTasks

(* Requests that are gone had nothing that the board's invariants need.     *)
LEMMA RestartKeepsBoard ==
  ASSUME BoardInv, req' = [r \in Requests |-> Idle], UNCHANGED board
  PROVE  (RowInv /\ CountInv /\ TwinInv /\ DependenciesJoinTasks)'
<1>0. /\ UNCHANGED <<live, used, row, deps, reported, origin>>
      /\ \A r \in Requests : req'[r] = Idle
  BY DEF board
<1>1. RowInv'
  <2>1. RowConsistent(Idle.row)
    BY NewRowConsistent DEF Idle
  <2>2. QED
    BY <1>0, <2>1 DEF BoardInv, RowInv, RowConsistent
<1>2. CountInv'
  <2>1. Idle.row.tokens = 0 /\ Idle.usage = 0 /\ Idle.task \in Tasks /\ Idle.step = "idle"
    BY AnyTaskIsTask DEF Idle, NewRow
  <2>2. reported[Idle.task] \in Nat
    BY <2>1 DEF BoardInv, TypeInv, TypeOK
  <2>3. QED
    BY <1>0, <2>1, <2>2 DEF BoardInv, CountInv
<1>3. TwinInv'
  BY <1>0, TwinInvUnchanged DEF BoardInv, Idle
<1>4. DependenciesJoinTasks'
  BY <1>0 DEF BoardInv, DependenciesJoinTasks
<1>5. QED
  BY <1>1, <1>2, <1>3, <1>4

(* A step of any client keeps the board's invariants.                       *)
LEMMA BoardInvNext ==
  ASSUME BoardInv, HandlerInv, [AllNext]_allVars
  PROVE  BoardInv'
<1>1. LiveStep
  BY LiveKinds DEF allVars, LiveStep, BoardInv
<1>2. TypeInv'
  BY <1>1, LiveTypeInv DEF BoardInv
<1>3. CASE [Next]_vars
  BY <1>2, <1>3, RowInvNext, CountInvNext, TwinInvNext, DependenciesJoinTasksNext DEF BoardInv
<1>4. CASE req' = [r \in Requests |-> Idle] /\ UNCHANGED board
  BY <1>2, <1>4, RestartKeepsBoard DEF BoardInv
<1>5. QED
  BY <1>1, <1>3, <1>4, LiveStepsOnBoard DEF BoardInv

(* With the dashboard's handlers, the sidecars of the agents, pages that    *)
(* load and restarts of the server: every row is consistent, no usage is    *)
(* counted twice, no task is in two projects, every edge joins two tasks.   *)
THEOREM ClientsKeepTheBoardSound ==
  ClientSpec => [](TypeOK /\ RowsConsistent /\ NeverOverCounted /\ NeverDuplicated
                   /\ DependenciesJoinTasks)
<1>1. AllInit => BoardInv /\ HandlerInv
  BY TypeInvInit, RowInvInit, CountInvInit, TwinInvInit, HandlerInvInit
     DEF AllInit, LiveInit, Init, DependenciesJoinTasks, BoardInv
<1>2. BoardInv /\ HandlerInv /\ [AllNext]_allVars => (BoardInv /\ HandlerInv)'
  <2> SUFFICES ASSUME BoardInv, HandlerInv, [AllNext]_allVars
               PROVE  (BoardInv /\ HandlerInv)'
    OBVIOUS
  <2>1. TypeInv /\ LiveStep
    BY LiveKinds DEF allVars, LiveStep, BoardInv
  <2>2. QED
    BY <2>1, BoardInvNext, HandlerInvNext
<1>3. BoardInv => TypeOK /\ RowsConsistent /\ NeverOverCounted /\ NeverDuplicated
                  /\ DependenciesJoinTasks
  <2>1. BoardInv => NeverOverCounted
    BY DEF BoardInv, TypeInv, TypeOK, CountInv, NeverOverCounted
  <2>2. QED
    BY <2>1, RowInvImplies DEF BoardInv, TypeInv, TwinInv
<1>4. QED
  BY <1>1, <1>2, <1>3, PTL DEF ClientSpec

---------------------------------------------------------------------------
(* The query for the next tasks.  The LIMIT of its SELECTs.                 *)
Cap(q) == IF q.below THEN 10 * Limit(q) ELSE Limit(q)

QueryRecord ==
  [stage  : {"reading", "answered"},
   asked  : Questions,
   left   : Seq(DOMAIN ChildrenOf),
   rows   : SUBSET Tasks,
   answer : Seq(Tasks),
   ready  : SUBSET Tasks,
   steady : BOOLEAN]

(* While the query reads, what it has found was ready, whatever is ready is *)
(* noted, and if nothing has changed the projects it has read are there     *)
(* with all that their SELECTs do not cut off.                              *)
Reading(Q) ==
  /\ ToSet(Q.left) \subseteq Asked(Q.asked)
  /\ Q.rows \subseteq Q.ready
  /\ ReadyFor(Q.asked) \subseteq Q.ready
  /\ Q.steady =>
       /\ Q.ready = ReadyFor(Q.asked)
       /\ \A p \in Asked(Q.asked) \ ToSet(Q.left) :
            Foremost({t \in Q.ready : ProjectOf[t] = p}, Cap(Q.asked)) \subseteq Q.rows

QueryInv ==
  /\ query = NoQuery \/ query \in QueryRecord
  /\ query.stage = "reading" => Reading(query)
  /\ RankedAnswer

(* A query reads the projects it asks for, in each of them it finds ready   *)
(* tasks of this project, and it is cut off at the limit of the answer or   *)
(* behind it.                                                               *)
LEMMA QuestionFacts ==
  ASSUME NEW q \in Questions, live \subseteq Tasks
  PROVE  /\ Limit(q) \in Nat /\ Cap(q) \in Nat /\ Limit(q) <= Cap(q)
         /\ LET list == IF q.below THEN Projects(q.project) ELSE <<q.project>>
            IN  list \in Seq(DOMAIN ChildrenOf) /\ ToSet(list) = Asked(q)
         /\ ReadyFor(q) \subseteq Tasks
         /\ \A p \in Asked(q) : Ready(p, q.role) = {t \in ReadyFor(q) : ProjectOf[t] = p}
<1>0. /\ q.project \in DOMAIN ChildrenOf /\ q.count \in Int /\ q.below \in BOOLEAN
      /\ ChildrenOf[q.project] \in Seq(DOMAIN ChildrenOf) /\ MaxCount \in Nat \ {0}
  BY NextTasksAssumption, LiveBoardAssumption
<1>1. Limit(q) \in Nat
  BY <1>0 DEF Limit
<1>2. Cap(q) \in Nat /\ Limit(q) <= Cap(q)
  BY <1>1 DEF Cap
<1>3. PICK list : list = IF q.below THEN Projects(q.project) ELSE <<q.project>>
  OBVIOUS
<1>4. list \in Seq(DOMAIN ChildrenOf)
  <2>1. PICK C, p : C = ChildrenOf[q.project] /\ p = q.project
    OBVIOUS
  <2>2. <<p>> \in Seq(DOMAIN ChildrenOf) /\ C \in Seq(DOMAIN ChildrenOf)
    BY <1>0, <2>1
  <2>3. <<p>> \o C \in Seq(DOMAIN ChildrenOf)
    BY <2>2, ConcatProperties
  <2>4. QED
    BY <1>3, <2>1, <2>2, <2>3 DEF Projects
<1>5. ToSet(list) = Asked(q)
  <2>1. CASE q.below
    BY <1>3, <2>1 DEF Asked
  <2>2. CASE ~q.below
    <3>1. list = <<q.project>>
      BY <1>3, <2>2
    <3>2. ToSet(<<q.project>>) = {q.project}
      <4>1. DOMAIN <<q.project>> = {1} /\ <<q.project>>[1] = q.project
        OBVIOUS
      <4>2. QED
        BY <4>1 DEF ToSet
    <3>3. QED
      BY <2>2, <3>1, <3>2 DEF Asked
  <2>3. QED
    BY <2>1, <2>2
<1>6. /\ ReadyFor(q) \subseteq Tasks
      /\ \A p \in Asked(q) : Ready(p, q.role) = {t \in ReadyFor(q) : ProjectOf[t] = p}
  <2>1. \A p : Ready(p, q.role) \subseteq Tasks /\ \A t \in Ready(p, q.role) : ProjectOf[t] = p
    BY Zenon DEF Ready
  <2>2. QED
    BY <2>1 DEF ReadyFor
<1>7. QED
  BY <1>1, <1>2, <1>3, <1>4, <1>5, <1>6

(* What is ready is a matter of the board.                                  *)
LEMMA ReadyUnchanged ==
  ASSUME UNCHANGED vars
  PROVE  \A q : ReadyFor(q)' = ReadyFor(q)
BY DEF vars, ReadyFor, Ready, HasUnresolvedDependencies

(* Whoever changes the board, the query notes what is ready then.           *)
LEMMA WatchKeepsQuery ==
  ASSUME QueryInv, Watch, live' \subseteq Tasks
  PROVE  QueryInv'
<1>1. CASE query.stage # "reading"
  BY <1>1 DEF Watch, QueryInv, RankedAnswer
<1>2. CASE query.stage = "reading"
  <2>1. PICK Q : Q = query
    OBVIOUS
  <2>2. PICK R : R = query'
    OBVIOUS
  <2>3. Q \in QueryRecord /\ Reading(Q) /\ Q.stage = "reading"
    BY <1>2, <2>1 DEF QueryInv, NoQuery
  <2>4. PICK q \in Questions : q = Q.asked
    BY <2>3 DEF QueryRecord
  <2>5. PICK now, next : now = ReadyFor(q) /\ next = ReadyFor(q)'
    OBVIOUS
  <2>6. R = [Q EXCEPT !.ready = @ \cup next, !.steady = @ /\ next = now]
    BY <1>2, <2>1, <2>2, <2>4, <2>5 DEF Watch
  <2>7. next \subseteq Tasks
    BY <2>5, Zenon DEF ReadyFor, Ready
  <2>8. /\ R.stage = "reading" /\ R.asked = q /\ R.left = Q.left /\ R.rows = Q.rows
        /\ R.ready = Q.ready \cup next
        /\ R.steady <=> (Q.steady /\ next = now)
    BY <2>3, <2>4, <2>6 DEF QueryRecord
  <2>9. R \in QueryRecord
    <3>1. (Q.steady /\ next = now) \in BOOLEAN
      OBVIOUS
    <3>2. QED
      BY <2>3, <2>6, <2>7, <3>1 DEF QueryRecord
  <2>10. Reading(R)'
    <3>1. /\ R.rows \subseteq R.ready /\ next \subseteq R.ready
          /\ ToSet(R.left) \subseteq Asked(q)
      BY <2>3, <2>4, <2>8 DEF Reading
    <3>2. ASSUME R.steady
          PROVE  /\ R.ready = next
                 /\ \A p \in Asked(q) \ ToSet(R.left) :
                      Foremost({t \in R.ready : ProjectOf[t] = p}, Cap(q)) \subseteq R.rows
      <4>1. Q.steady /\ next = now /\ Q.ready = now /\ R.ready = Q.ready
        BY <2>3, <2>4, <2>5, <2>8, <3>2 DEF Reading
      <4>2. QED
        BY <2>3, <2>4, <2>8, <4>1 DEF Reading
    <3>3. QED
      BY <2>5, <2>8, <3>1, <3>2 DEF Reading
  <2>11. QED
    BY <2>2, <2>8, <2>9, <2>10 DEF QueryInv, RankedAnswer
<1>3. QED
  BY <1>1, <1>2

(* A query that begins has read nothing and notes what is ready.            *)
LEMMA QueryBegins ==
  ASSUME live \subseteq Tasks, NEW q \in Questions, AskNextTasks(q)
  PROVE  QueryInv'
<1>1. PICK list : list = IF q.below THEN Projects(q.project) ELSE <<q.project>>
  OBVIOUS
<1>2. PICK now : now = ReadyFor(q)
  OBVIOUS
<1>3. PICK R : R = query'
  OBVIOUS
<1>4. /\ R = [stage |-> "reading", asked |-> q, left |-> list, rows |-> {},
              answer |-> <<>>, ready |-> now, steady |-> TRUE]
      /\ ReadyFor(q)' = now
  BY <1>1, <1>2, <1>3, ReadyUnchanged DEF AskNextTasks, liveVars
<1>5. /\ list \in Seq(DOMAIN ChildrenOf) /\ ToSet(list) = Asked(q)
      /\ now \subseteq Tasks
  BY <1>1, <1>2, QuestionFacts
<1>6. R \in QueryRecord
  BY <1>4, <1>5 DEF QueryRecord
<1>7. Reading(R)'
  BY <1>4, <1>5 DEF Reading
<1>8. QED
  BY <1>3, <1>4, <1>6, <1>7 DEF QueryInv, RankedAnswer

(* The SELECT on one more project, or its failure.                          *)
LEMMA QueryReads ==
  ASSUME QueryInv, live \subseteq Tasks, ReadReady \/ ReadBelowFails
  PROVE  QueryInv'
<1>1. PICK Q : Q = query
  OBVIOUS
<1>2. PICK R : R = query'
  OBVIOUS
<1>3. Q \in QueryRecord /\ Reading(Q) /\ Q.stage = "reading" /\ Q.left # <<>>
  BY <1>1 DEF QueryInv, NoQuery, ReadReady, ReadBelowFails
<1>4. PICK q \in Questions : q = Q.asked
  BY <1>3 DEF QueryRecord
<1>5. PICK now : now = ReadyFor(q)
  OBVIOUS
<1>6. ReadyFor(q)' = now
  BY <1>5, ReadyUnchanged DEF ReadReady, ReadBelowFails, liveVars
<1>7. PICK p, rest : p = Head(Q.left) /\ rest = Tail(Q.left)
  OBVIOUS
<1>8. /\ rest \in Seq(DOMAIN ChildrenOf)
      /\ ToSet(Q.left) = {p} \cup ToSet(rest)
  BY <1>3, <1>7, SeqFacts DEF QueryRecord
<1>9. /\ p \in Asked(q) /\ ToSet(rest) \subseteq Asked(q)
      /\ Q.rows \subseteq Q.ready /\ now \subseteq Q.ready /\ Q.ready \subseteq Tasks
      /\ Q.steady =>
           /\ Q.ready = now
           /\ \A x \in Asked(q) \ ToSet(Q.left) :
                Foremost({t \in now : ProjectOf[t] = x}, Cap(q)) \subseteq Q.rows
  BY <1>3, <1>4, <1>5, <1>8 DEF Reading, QueryRecord
<1>10. CASE ReadReady
  <2>1. PICK found : found = Foremost(Ready(p, q.role), Cap(q))
    OBVIOUS
  <2>2. R = [Q EXCEPT !.left = rest, !.rows = @ \cup found]
    BY <1>1, <1>2, <1>4, <1>7, <1>10, <2>1 DEF ReadReady, Cap
  <2>3. /\ R.stage = "reading" /\ R.asked = q /\ R.left = rest
        /\ R.rows = Q.rows \cup found /\ R.ready = Q.ready
        /\ R.steady = Q.steady
    BY <1>3, <1>4, <2>2 DEF QueryRecord
  <2>4. Ready(p, q.role) = {t \in now : ProjectOf[t] = p}
    BY <1>5, <1>9, QuestionFacts
  <2>5. found \subseteq now
    BY <2>1, <2>4 DEF Foremost
  <2>6. R \in QueryRecord
    BY <1>3, <1>8, <1>9, <2>2, <2>5 DEF QueryRecord
  <2>7. Reading(R)'
    <3>1. ASSUME R.steady, NEW x \in Asked(q) \ ToSet(rest)
          PROVE  Foremost({t \in now : ProjectOf[t] = x}, Cap(q)) \subseteq R.rows
      <4>1. CASE x = p
        BY <2>1, <2>3, <2>4, <4>1
      <4>2. CASE x # p
        BY <1>8, <1>9, <2>3, <3>1, <4>2
      <4>3. QED
        BY <4>1, <4>2
    <3>2. QED
      BY <1>6, <1>9, <2>3, <2>5, <3>1 DEF Reading
  <2>8. QED
    BY <1>2, <2>3, <2>6, <2>7 DEF QueryInv, RankedAnswer
<1>11. CASE ReadBelowFails
  <2>1. R = [Q EXCEPT !.left = rest, !.steady = FALSE]
    BY <1>1, <1>2, <1>7, <1>11 DEF ReadBelowFails
  <2>2. /\ R.stage = "reading" /\ R.asked = q /\ R.left = rest
        /\ R.rows = Q.rows /\ R.ready = Q.ready /\ ~R.steady
    BY <1>3, <1>4, <2>1 DEF QueryRecord
  <2>3. R \in QueryRecord
    BY <1>3, <1>8, <2>1 DEF QueryRecord
  <2>4. Reading(R)'
    BY <1>6, <1>9, <2>2 DEF Reading
  <2>5. QED
    BY <1>2, <2>2, <2>3, <2>4 DEF QueryInv, RankedAnswer
<1>12. QED
  BY <1>10, <1>11

(* The rows, listed in whatever order and sorted, are cut off at the limit. *)
LEMMA AnswerRanks ==
  ASSUME QueryInv, live \subseteq Tasks, AnswerQuery
  PROVE  QueryInv'
<1>1. PICK Q : Q = query
  OBVIOUS
<1>2. PICK R : R = query'
  OBVIOUS
<1>3. Q \in QueryRecord /\ Reading(Q) /\ Q.stage = "reading" /\ Q.left = <<>>
  BY <1>1 DEF QueryInv, NoQuery, AnswerQuery
<1>4. PICK q \in Questions : q = Q.asked
  BY <1>3 DEF QueryRecord
<1>5. PICK m, n, rows : m = Limit(q) /\ n = Cap(q) /\ rows = Q.rows
  OBVIOUS
<1>6. m \in Nat /\ n \in Nat /\ m <= n
  BY <1>5, QuestionFacts
<1>7. /\ rows \subseteq Tasks /\ rows \in SUBSET DOMAIN CreatedAt
      /\ IsFiniteSet(rows) /\ Cardinality(rows) \in Nat
  <2>1. rows \in SUBSET Tasks
    BY <1>3, <1>5 DEF QueryRecord
  <2>2. QED
    BY <2>1, NextTasksAssumption, FS_Subset, FS_CardinalityType
<1>8. PICK list \in SetToSeqs(rows) :
        R = [Q EXCEPT !.stage = "answered", !.answer = FirstOf(Sorted(list), m)]
  BY <1>1, <1>2, <1>4, <1>5, Zenon DEF AnswerQuery
<1>9. PICK N : N = Cardinality(rows)
  OBVIOUS
<1>10. list \in Listings(rows, N)
  BY <1>8, <1>9 DEF SetToSeqs, Listings
<1>11. PICK l : l = Sorted(list)
  OBVIOUS
<1>12. l \in Listings(rows, N) /\ \A a, b \in 1 .. N : a < b => Precedes(l[a], l[b])
  <2>1. /\ Sorted(list) \in Listings(rows, N)
        /\ \A a, b \in 1 .. N : a < b => Precedes(Sorted(list)[a], Sorted(list)[b])
    BY <1>7, <1>9, <1>10, LoopsSort
  <2>2. QED
    BY <1>11, <2>1
<1>13. PICK answer : answer = FirstOf(l, m)
  OBVIOUS
<1>14. CutTo(answer, l, m, N)
  <2>1. Len(l) = N
    BY <1>7, <1>9, <1>12, ListingLength
  <2>2. QED
    BY <1>13, <2>1 DEF FirstOf, CutTo
<1>15. /\ Ranked(answer, rows, m)
       /\ ToSet(answer) \subseteq Foremost(rows, m)
       /\ \A t \in rows \ ToSet(answer) :
            Len(answer) = m /\ \A s \in ToSet(answer) : Precedes(s, t)
  <2>1. InPlace(l, N, N)
    BY <1>12 DEF InPlace
  <2>2. QED
    BY <1>6, <1>7, <1>9, <1>12, <1>14, <2>1, RankedNames
<1>16. R.stage = "answered" /\ R.asked = q /\ R.answer = answer
       /\ R.ready = Q.ready /\ R.steady = Q.steady
  BY <1>3, <1>4, <1>8, <1>11, <1>13 DEF QueryRecord
<1>17. answer \in Seq(Tasks)
  <2>1. \A T : rows \subseteq T => Seq(rows) \subseteq Seq(T)
    OBVIOUS
  <2>2. QED
    BY <1>7, <1>15, <2>1 DEF Ranked
<1>18. R \in QueryRecord
  BY <1>3, <1>8, <1>11, <1>13, <1>17 DEF QueryRecord
<1>19. Len(answer) <= m /\ \A i, j \in 1 .. Len(answer) : i < j => Precedes(answer[i], answer[j])
  BY <1>6, <1>7, <1>15 DEF Ranked
<1>20. ToSet(answer) \subseteq R.ready
  BY <1>3, <1>5, <1>15, <1>16 DEF Foremost, Reading
<1>21. ASSUME R.steady, NEW t \in R.ready \ ToSet(answer)
       PROVE  Len(answer) = m /\ \A s \in ToSet(answer) : Precedes(s, t)
  <2>1. CASE t \in rows
    BY <1>15, <1>21, <2>1
  <2>2. CASE t \notin rows
    <3>1. /\ t \in ReadyFor(q)
          /\ \A p \in Asked(q) :
               Foremost({u \in ReadyFor(q) : ProjectOf[u] = p}, n) \subseteq rows
      <4>1. ToSet(Q.left) = {}
        BY <1>3, SeqFacts DEF QueryRecord
      <4>2. QED
        BY <1>3, <1>4, <1>5, <1>16, <1>21, <4>1 DEF Reading
    <3>2. PICK p \in Asked(q) : t \in Ready(p, q.role)
      BY <3>1 DEF ReadyFor
    <3>3. PICK S : S = {u \in ReadyFor(q) : ProjectOf[u] = p}
      OBVIOUS
    <3>4. t \in S /\ S \in SUBSET Tasks
      BY <3>2, <3>3, QuestionFacts
    <3>5. S \in SUBSET DOMAIN CreatedAt /\ IsFiniteSet(S) /\ t \in S \ rows
      BY <2>2, <3>4, NextTasksAssumption, FS_Subset
    <3>6. Foremost(S, n) \subseteq rows
      BY <3>1, <3>3
    <3>7. QED
      BY <1>6, <1>7, <1>15, <3>5, <3>6, CutOffBehind
  <2>3. QED
    BY <2>1, <2>2
<1>22. RankedAnswer'
  BY <1>2, <1>5, <1>16, <1>19, <1>20, <1>21 DEF RankedAnswer
<1>23. QED
  BY <1>2, <1>16, <1>18, <1>22 DEF QueryInv

(* Every step of the clients keeps what a query has read as it should be.   *)
LEMMA QueryInvNext ==
  ASSUME TypeInv, HandlerInv, QueryInv, [AllNext]_allVars
  PROVE  QueryInv'
<1>1. LiveStep
  BY LiveKinds DEF allVars, LiveStep
<1>2. live \subseteq Tasks /\ live' \subseteq Tasks
  BY <1>1, LiveTypeInv DEF TypeInv, TypeOK
<1>3. CASE (HandlerNext \/ \E a \in Agents : AgentNext(a)) /\ Watch
  BY <1>2, <1>3, WatchKeepsQuery
<1>4. CASE UNCHANGED <<vars, query>>
  <2>1. PICK Q : Q = query
    OBVIOUS
  <2>2. Q.stage = "reading" => Reading(Q) /\ ReadyFor(Q.asked)' = ReadyFor(Q.asked)
    BY <1>4, <2>1, ReadyUnchanged DEF QueryInv
  <2>3. Q.stage = "reading" => Reading(Q)'
    BY <2>2 DEF Reading
  <2>4. QED
    BY <1>4, <2>1, <2>3 DEF QueryInv, RankedAnswer
<1>5. CASE PageNext /\ UNCHANGED query
  BY <1>4, <1>5 DEF PageNext, Receive, ReadStatement, ReadChildrenFails, ShowAnswer, LoadFails
<1>6. CASE QueryNext
  <2>1. ASSUME TakeNextTasks PROVE QueryInv'
    BY <2>1 DEF TakeNextTasks, QueryInv, RankedAnswer, NoQuery
  <2>2. QED
    BY <1>2, <1>6, <2>1, QueryBegins, QueryReads, AnswerRanks DEF QueryNext
<1>7. CASE UNCHANGED allVars
  BY <1>4, <1>7 DEF allVars, liveVars
<1>8. QED
  BY <1>3, <1>5, <1>6, <1>7 DEF AllNext

(* An orchestrator that asks what to start next gets no more tasks than it  *)
(* asked for, none twice, in the order of their urgency and age; each could *)
(* be started at some moment of the query, and if the board did not change, *)
(* none that it is not told of goes before one of them: neither the LIMIT   *)
(* of a SELECT nor the second sort loses a task (GetNextTasks of the task   *)
(* repository, and its handler in queries/tasks.go).                        *)
THEOREM AnswersAlwaysRanked == ClientSpec => []RankedAnswer
<1>1. AllInit => TypeInv /\ HandlerInv /\ QueryInv
  BY TypeInvInit, HandlerInvInit DEF AllInit, LiveInit, QueryInv, NoQuery, RankedAnswer
<1>2. TypeInv /\ HandlerInv /\ QueryInv /\ [AllNext]_allVars
        => (TypeInv /\ HandlerInv /\ QueryInv)'
  <2> SUFFICES ASSUME TypeInv, HandlerInv, QueryInv, [AllNext]_allVars
               PROVE  (TypeInv /\ HandlerInv /\ QueryInv)'
    OBVIOUS
  <2>1. LiveStep
    BY LiveKinds DEF allVars, LiveStep
  <2>2. TypeInv' /\ HandlerInv'
    BY <2>1, LiveTypeInv, HandlerInvNext
  <2>3. QED
    BY <2>2, QueryInvNext
<1>3. QueryInv => RankedAnswer
  BY DEF QueryInv
<1>4. QED
  BY <1>1, <1>2, <1>3, PTL DEF ClientSpec
=============================================================================
