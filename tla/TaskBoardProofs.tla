-------------------------- MODULE TaskBoardProofs --------------------------
(***************************************************************************)
(* The safety properties of TaskBoard for every set of tasks and requests:  *)
(* first those that hold however many requests run at once, then, from      *)
(* SequentialInv on, those that need requests to run one after the other,   *)
(* the refinement of TaskLifecycle among them.                              *)
(*                                                                          *)
(* Most steps of a request change nothing but the request itself: they      *)
(* read, check and prepare.  Lemma ReadStepsPrepare says once what such a   *)
(* step can leave in the request; the invariants then have one case for     *)
(* it and one for each action that writes to the database.                  *)
(***************************************************************************)
EXTENDS TaskBoard, TaskDataProofs

(* The steps that write nothing but the request. *)
ReadStep(r) ==
  \/ \E t \in Tasks :
       \/ \E u \in 0 .. MaxUsage : UpdateTask(r, t, u) \/ CompleteTask(r, t, u)
       \/ \E c \in Columns : MoveTask(r, t, c)
       \/ BlockTask(r, t)
       \/ UnblockTask(r, t)
       \/ WontDo(r, t)
       \/ ApproveWontDo(r, t)
       \/ RejectWontDo(r, t)
       \/ MarkTaskSeen(r, t)
       \/ DeleteTask(r, t)
       \/ MoveTaskToProject(r, t)
       \/ \E d \in Tasks : AddDependency(r, t, d)
  \/ ContinueUnblock(r) \/ ContinueWontDo(r) \/ ContinueEstimate(r)
  \/ CheckDependencies(r) \/ WriteFails(r) \/ PostComment(r)
  \/ CheckCycle(r) \/ Abort(r)

(* The steps that write to the database, one statement each. *)
Creation(r) ==
  \/ \E t \in Tasks, c \in {"todo", "backlog"} : CreateTask(r, t, c)
  \/ \E new \in SUBSET (Tasks \ used) :
       \E backlog \in SUBSET new, edges \in SUBSET (new \X live) :
         BulkCreateTasks(r, new, backlog, edges)

SessionUpdate(r) == \E t \in Tasks, s \in BOOLEAN : UpdateTaskSession(r, t, s)

(* A step of a request only reads, or is one of those that write.           *)
LEMMA StepKinds ==
  ASSUME NEW r \in Requests, Begin(r) \/ Proceed(r) \/ Abort(r)
  PROVE  \/ ReadStep(r)
         \/ Creation(r)
         \/ WriteRow(r)
         \/ MarkSeenRow(r)
         \/ SessionUpdate(r)
         \/ DeleteRow(r)
         \/ \E t \in Tasks : RecreateTask(r, t)
         \/ \E e \in Tasks \X Tasks : InsertDependency(r, e)
         \/ \E e \in Tasks \X Tasks : RemoveDependency(r, e)
<1>1. CASE Abort(r)
  BY <1>1 DEF ReadStep
<1>2. CASE Proceed(r)
  BY <1>2 DEF ReadStep, Proceed
<1>3. CASE Begin(r)
  BY <1>3 DEF ReadStep, Begin, Creation, SessionUpdate
<1>4. QED
  BY <1>1, <1>2, <1>3

---------------------------------------------------------------------------
(* The request as a read step leaves it: idle or with no row of its own,    *)
(* with the row it had, or with a row it made of the row it has just read.  *)
Empty(q) == q.row = NewRow("todo") /\ q.usage = 0

Kept(q, old) ==
  /\ q.task = old.task /\ q.row = old.row /\ q.usage = old.usage
  /\ q.step # "delete"

MadeFrom(t, usage, newRow) ==
  /\ newRow \in Row
  /\ RowConsistent(row[t]) => RowConsistent(newRow)
  /\ newRow.tokens = row[t].tokens + usage

Made(q) ==
  /\ q.task \in live
  /\ MadeFrom(q.task, q.usage, q.row)
  /\ q.step = "delete" => q.usage = 0

(* What a request about to insert edges knows about them. *)
Linking(q, old) ==
  /\ q.step = "check_cycle" => \E e \in Tasks \X Tasks : q.edges = {e}
  /\ q.step = "link" =>
       /\ old.step = "check_cycle" /\ q.edges = old.edges
       /\ \A e \in q.edges : ~WouldCreateCycle(Tasks, deps, e[1], e[2])

Prepared(r, q) ==
  /\ q \in Request
  /\ req' = [req EXCEPT ![r] = q]
  /\ board' = board
  /\ q.step # "recreate"
  /\ Empty(q) \/ Kept(q, req[r]) \/ Made(q)
  /\ Linking(q, req[r])

(* There is a task to name when none is meant.                              *)
LEMMA AnyTaskIsTask == AnyTask \in Tasks
BY TaskBoardAssumption DEF AnyTask

(* A request that does nothing.                                             *)
LEMMA IdleIsRequest == Idle \in Request /\ Empty(Idle)
<1>1. NewRow("todo") \in Row
  BY DEF NewRow, Row, Columns
<1>2. QED
  BY <1>1, AnyTaskIsTask, TaskBoardAssumption
     DEF Idle, Request, Steps, AllOperations, Empty

(* A request that finishes is prepared for nothing. *)
LEMMA FinishPrepares ==
  ASSUME NEW r \in Requests, Finish(r), board' = board
  PROVE  Prepared(r, Idle)
BY IdleIsRequest DEF Finish, Prepared, Idle, Linking

(* A request that goes on with the row it has. *)
LEMMA GotoPrepares ==
  ASSUME TypeOK, NEW r \in Requests, NEW step \in {"write", "approve", "link"},
         Goto(r, step), board' = board,
         step = "link" =>
           /\ req[r].step = "check_cycle"
           /\ \A e \in req[r].edges : ~WouldCreateCycle(Tasks, deps, e[1], e[2])
  PROVE  Prepared(r, [req[r] EXCEPT !.step = step])
<1> DEFINE q == [req[r] EXCEPT !.step = step]
<1>1. req[r] \in Request
  BY DEF TypeOK
<1>2. q \in Request /\ q.step = step /\ q.edges = req[r].edges /\ Kept(q, req[r])
  BY <1>1 DEF Request, Steps, Kept
<1>3. req' = [req EXCEPT ![r] = q]
  BY DEF Goto
<1>4. QED
  BY <1>2, <1>3 DEF Prepared, Linking

(* A request that starts, or reads again, with a row and a usage. *)
LEMMA StartPrepares ==
  ASSUME NEW r \in Requests,
         NEW step \in Steps \ {"recreate", "link"}, NEW op \in AllOperations,
         NEW t \in Tasks, NEW newRow \in Row, NEW usage \in 0 .. MaxUsage,
         NEW edges \in SUBSET (Tasks \X Tasks),
         Start(r, step, op, t, newRow, usage, edges),
         board' = board,
         \/ newRow = NewRow("todo") /\ usage = 0
         \/ /\ t \in live
            /\ MadeFrom(t, usage, newRow)
            /\ step = "delete" => usage = 0,
         step = "check_cycle" => \E e \in Tasks \X Tasks : edges = {e}
  PROVE  \E q : Prepared(r, q)
<1> DEFINE q == [step |-> step, op |-> op, task |-> t,
                 row |-> newRow, usage |-> usage, edges |-> edges]
<1>1. q \in Request
  BY DEF Request
<1>2. req' = [req EXCEPT ![r] = q]
  BY DEF Start
<1>3. Empty(q) \/ Made(q)
  BY DEF Empty, Made
<1>4. Linking(q, req[r])
  BY DEF Linking
<1>5. QED
  BY <1>1, <1>2, <1>3, <1>4 DEF Prepared

(* Every read step leaves the request prepared: with no row, with the row   *)
(* it had, or with what the operation makes of the row it has just read.    *)
LEMMA ReadStepsPrepare ==
  ASSUME TypeOK, NEW r \in Requests, ReadStep(r)
  PROVE  \E q : Prepared(r, q)
<1> USE TaskBoardAssumption
<1>0. /\ \A t \in Tasks : row[t] \in Row
      /\ \A u \in 0 .. MaxUsage : u \in Nat
      /\ 0 \in 0 .. MaxUsage
      /\ NewRow("todo") \in Row
      /\ {} \in SUBSET (Tasks \X Tasks)
      /\ req[r] \in Request /\ req[r].task \in Tasks
  BY OperationsReturnRows DEF TypeOK, Columns, Request, NewRow, Row
<1>m. ASSUME NEW t \in Tasks, NEW u \in Nat, NEW c \in Columns
      PROVE  /\ MadeFrom(t, 0, TransferredRow(row[t]))
             /\ MadeFrom(t, u, Updated(row[t], u))
             /\ CanMove(row[t], c) => MadeFrom(t, 0, Moved(row[t], c))
             /\ \A known : CanComplete(row[t], known) => MadeFrom(t, u, Completed(row[t], u))
             /\ CanBlock(row[t]) => MadeFrom(t, 0, Blocked(row[t]))
             /\ MadeFrom(t, 0, WontDoRequested(row[t]))
             /\ MadeFrom(t, 0, WontDoApproved(row[t]))
             /\ MadeFrom(t, 0, WontDoRejected(row[t]))
  <2>1. row[t] \in Row /\ row[t].tokens + 0 = row[t].tokens
    BY <1>0 DEF Row
  <2>2. QED
    BY <2>1, OperationsReturnRows, OperationsKeepConsistency, OperationsCountTokens
       DEF MadeFrom
<1>n. 0 \in Nat /\ "todo" \in Columns
  BY DEF Columns
<1>o. \A t \in Tasks :
        /\ MadeFrom(t, 0, TransferredRow(row[t]))
        /\ CanBlock(row[t]) => MadeFrom(t, 0, Blocked(row[t]))
        /\ MadeFrom(t, 0, WontDoRequested(row[t]))
        /\ MadeFrom(t, 0, WontDoApproved(row[t]))
        /\ MadeFrom(t, 0, WontDoRejected(row[t]))
        /\ MadeFrom(t, 0, Updated(row[t], 0))
        /\ CanMove(row[t], "todo") => MadeFrom(t, 0, Moved(row[t], "todo"))
  BY <1>m, <1>n
<1>u. \A t \in Tasks : \A u \in 0 .. MaxUsage :
        /\ MadeFrom(t, u, Updated(row[t], u))
        /\ \A known : CanComplete(row[t], known) => MadeFrom(t, u, Completed(row[t], u))
  BY <1>m, <1>n, <1>0
<1>c. \A t \in Tasks : \A c \in Columns :
        CanMove(row[t], c) => MadeFrom(t, 0, Moved(row[t], c))
  BY <1>m, <1>n
<1>r. \A t, u, new : MadeFrom(t, u, new) => new \in Row
  BY DEF MadeFrom
<1>s. /\ {"write", "check_deps", "comment", "estimate", "unblock", "approve",
          "mark", "delete", "check_cycle"} \subseteq Steps \ {"recreate", "link"}
      /\ {"update", "move", "complete", "block", "unblock", "wont_do", "approve",
          "reject", "seen", "delete", "transfer", "add_dependency"} \subseteq AllOperations
  BY DEF Steps, AllOperations
<1>1. ASSUME NEW t \in Tasks,
             \/ \E u \in 0 .. MaxUsage : UpdateTask(r, t, u) \/ CompleteTask(r, t, u)
             \/ \E c \in Columns : MoveTask(r, t, c)
             \/ BlockTask(r, t)
             \/ UnblockTask(r, t)
             \/ WontDo(r, t)
             \/ ApproveWontDo(r, t)
             \/ RejectWontDo(r, t)
             \/ MarkTaskSeen(r, t)
             \/ DeleteTask(r, t)
             \/ MoveTaskToProject(r, t)
             \/ \E d \in Tasks : AddDependency(r, t, d)
      PROVE  \E q : Prepared(r, q)
  <2>1. CASE \E u \in 0 .. MaxUsage : UpdateTask(r, t, u)
    <3>1. PICK u \in 0 .. MaxUsage : UpdateTask(r, t, u)
      BY <2>1
    <3>2. QED
      BY <3>1, <1>0, <1>u, <1>r, <1>s, StartPrepares DEF UpdateTask, Found
  <2>2. CASE \E u \in 0 .. MaxUsage : CompleteTask(r, t, u)
    <3>1. PICK u \in 0 .. MaxUsage : CompleteTask(r, t, u)
      BY <2>2
    <3>2. QED
      BY <3>1, <1>0, <1>u, <1>r, <1>s, StartPrepares DEF CompleteTask, Found
  <2>3. CASE \E c \in Columns : MoveTask(r, t, c)
    <3>1. PICK c \in Columns : MoveTask(r, t, c)
      BY <2>3
    <3>2. QED
      BY <3>1, <1>0, <1>c, <1>r, <1>s, StartPrepares DEF MoveTask, Found
  <2>4. CASE BlockTask(r, t)
    BY <2>4, <1>0, <1>o, <1>r, <1>s, StartPrepares DEF BlockTask, Found
  <2>5. CASE UnblockTask(r, t)
    BY <2>5, <1>0, <1>o, <1>r, <1>s, StartPrepares DEF UnblockTask, Found
  <2>6. CASE WontDo(r, t)
    BY <2>6, <1>0, <1>o, <1>r, <1>s, StartPrepares DEF WontDo, Found
  <2>7. CASE ApproveWontDo(r, t)
    BY <2>7, <1>0, <1>o, <1>r, <1>s, StartPrepares DEF ApproveWontDo, Found
  <2>8. CASE RejectWontDo(r, t)
    BY <2>8, <1>0, <1>o, <1>r, <1>s, StartPrepares DEF RejectWontDo, Found
  <2>9. CASE MarkTaskSeen(r, t)
    BY <2>9, <1>0, <1>o, <1>r, <1>s, StartPrepares DEF MarkTaskSeen, Found
  <2>10. CASE DeleteTask(r, t)
    BY <2>10, <1>0, <1>o, <1>r, <1>s, StartPrepares DEF DeleteTask, Found
  <2>11. CASE MoveTaskToProject(r, t)
    BY <2>11, <1>0, <1>o, <1>r, <1>s, StartPrepares DEF MoveTaskToProject, Found
  <2>12. CASE \E d \in Tasks : AddDependency(r, t, d)
    <3>1. PICK d \in Tasks : AddDependency(r, t, d)
      BY <2>12
    <3>2. <<t, d>> \in Tasks \X Tasks
      OBVIOUS
    <3>3. QED
      BY <3>1, <3>2, <1>0, <1>s, StartPrepares DEF AddDependency
  <2>20. QED
    BY <1>1, <2>1, <2>2, <2>3, <2>4, <2>5, <2>6, <2>7, <2>8, <2>9, <2>10, <2>11, <2>12
<1>2. CASE ContinueUnblock(r)
  BY <1>2, <1>0, <1>o, <1>r, <1>s, StartPrepares, FinishPrepares
     DEF ContinueUnblock, Reload, Found, Columns
<1>3. CASE ContinueWontDo(r)
  BY <1>3, <1>0, <1>o, <1>r, <1>s, StartPrepares, FinishPrepares
     DEF ContinueWontDo, Reload, Found, Columns
<1>4. CASE ContinueEstimate(r)
  BY <1>4, <1>0, <1>o, <1>r, <1>s, StartPrepares, FinishPrepares
     DEF ContinueEstimate, Reload, Found, Columns
<1>5. CASE CheckDependencies(r)
  BY <1>5, FinishPrepares, GotoPrepares DEF CheckDependencies
<1>6. CASE WriteFails(r)
  BY <1>6, FinishPrepares DEF WriteFails
<1>7. CASE PostComment(r)
  BY <1>7, FinishPrepares, GotoPrepares DEF PostComment
<1>8. CASE CheckCycle(r)
  BY <1>8, FinishPrepares, GotoPrepares DEF CheckCycle
<1>9. CASE Abort(r)
  BY <1>9, FinishPrepares DEF Abort
<1>10. QED
  BY <1>1, <1>2, <1>3, <1>4, <1>5, <1>6, <1>7, <1>8, <1>9 DEF ReadStep

---------------------------------------------------------------------------
(* TypeOK is inductive with one addition: the row a transfer is about to    *)
(* insert fits the columns, because it was read from the table.             *)
TypeInv ==
  /\ TypeOK
  /\ \A r \in Requests :
       req[r].step \in {"delete", "recreate"} => req[r].row.tokens <= MaxInteger

(* It holds on the empty board.                                             *)
LEMMA TypeInvInit == Init => TypeInv
<1> SUFFICES ASSUME Init PROVE TypeInv
  OBVIOUS
<1>1. NewRow("todo") \in Row /\ NewRow("todo").tokens = 0
  BY DEF NewRow, Row, Columns
<1>2. TypeOK
  BY <1>1, IdleIsRequest, TaskBoardAssumption DEF Init, TypeOK
<1>3. \A r \in Requests : req[r].step = "idle"
  BY DEF Init, Idle
<1>4. QED
  BY <1>2, <1>3 DEF TypeInv

(* Every step keeps it.                                                     *)
LEMMA TypeInvNext == TypeInv /\ [Next]_vars => TypeInv'
<1> USE TaskBoardAssumption
<1>1. CASE UNCHANGED vars
  BY <1>1 DEF vars, TypeInv, TypeOK
<1>2. ASSUME TypeInv, NEW r \in Requests, Begin(r) \/ Proceed(r) \/ Abort(r)
      PROVE  TypeInv'
  <2> USE <1>2
  <2>0. /\ req \in [Requests -> Request] /\ req[r] \in Request
        /\ req[r].task \in Tasks /\ req[r].row \in Row
        /\ req[r].usage \in Nat
        /\ \A t \in Tasks : row[t] \in Row /\ row[t].tokens \in Nat
    BY DEF TypeInv, TypeOK, Request, Row
  <2>i. Idle \in Request /\ Idle.step = "idle"
    BY IdleIsRequest DEF Idle
  <2>n. \A c \in Columns : NewRow(c) \in Row /\ NewRow(c).tokens = 0
    BY DEF NewRow, Row
  <2>c. {"todo", "backlog"} \subseteq Columns
    BY DEF Columns
  <2>f. \A step \in Steps : [req[r] EXCEPT !.step = step] \in Request
    BY <2>0 DEF Request
  <2>1. CASE ReadStep(r)
    <3>1. PICK q : Prepared(r, q)
      BY <2>1, ReadStepsPrepare DEF TypeInv
    <3>2. TypeOK'
      BY <2>0, <3>1 DEF Prepared, TypeInv, TypeOK, board
    <3>3. q.step \in {"delete", "recreate"} => q.row.tokens <= MaxInteger
      <4>1. CASE Empty(q)
        BY <4>1, <2>n, <2>c DEF Empty
      <4>2. CASE Kept(q, req[r])
        BY <4>2, <3>1 DEF Kept, Prepared
      <4>3. CASE Made(q)
        BY <4>3, <3>1, <2>0 DEF Made, MadeFrom, Prepared, TypeInv, TypeOK
      <4>4. QED
        BY <3>1, <4>1, <4>2, <4>3 DEF Prepared
    <3>4. QED
      BY <2>0, <3>1, <3>2, <3>3 DEF Prepared, TypeInv
  <2>2. CASE Creation(r)
    <3>1. CASE \E t \in Tasks, c \in {"todo", "backlog"} : CreateTask(r, t, c)
      BY <3>1, <2>n, <2>c DEF CreateTask, TypeInv, TypeOK
    <3>2. ASSUME NEW new \in SUBSET (Tasks \ used), NEW backlog \in SUBSET new,
                 NEW edges \in SUBSET (new \X live), BulkCreateTasks(r, new, backlog, edges)
          PROVE  TypeInv'
      <4>1. /\ live' \subseteq used' /\ used' \subseteq Tasks /\ row' \in [Tasks -> Row]
            /\ \A t \in live' : row'[t].tokens <= MaxInteger
        BY <3>2, <2>n, <2>c DEF BulkCreateTasks, TypeInv, TypeOK
      <4>2. edges \in SUBSET (Tasks \X Tasks)
        BY DEF TypeInv, TypeOK
      <4>3. req' \in [Requests -> Request]
        BY <3>2, <4>2, <2>0, <2>n, <2>c, AnyTaskIsTask
           DEF BulkCreateTasks, Start, Request, Steps, AllOperations
      <4>4. \A s \in Requests :
              req'[s].step \in {"delete", "recreate"} => req'[s].row.tokens <= MaxInteger
        BY <3>2, <2>0 DEF BulkCreateTasks, Start, TypeInv
      <4>5. UNCHANGED <<deps, reported, origin>>
        BY <3>2 DEF BulkCreateTasks
      <4>6. QED
        BY <4>1, <4>3, <4>4, <4>5 DEF TypeInv, TypeOK
    <3>3. QED
      BY <2>2, <3>1, <3>2 DEF Creation
  <2>3. CASE WriteRow(r)
    <3>1. row' = [row EXCEPT ![req[r].task] = WrittenOver(row[req[r].task], req[r].row)]
      BY <2>3 DEF WriteRow
    <3>2. WrittenOver(row[req[r].task], req[r].row) \in Row
      BY <2>0, OperationsReturnRows, <2>c
    <3>3. WrittenOver(row[req[r].task], req[r].row).tokens <= MaxInteger
      BY <2>3, <2>0 DEF WriteRow, Writable, WrittenOver, Row
    <3>4. row' \in [Tasks -> Row] /\ \A t \in live : row'[t].tokens <= MaxInteger
      BY <2>0, <3>1, <3>2, <3>3 DEF TypeInv, TypeOK
    <3>5. reported' \in [Tasks -> Nat]
      BY <2>3, <2>0 DEF WriteRow, TypeInv, TypeOK
    <3>6. \E q \in Request : req' = [req EXCEPT ![r] = q] /\ q.step \notin {"delete", "recreate"}
      <4>1. CASE Finish(r)
        BY <4>1, <2>i DEF Finish
      <4>2. ASSUME NEW step \in {"comment", "estimate"}, Followup(r, step)
            PROVE  \E q \in Request : /\ req' = [req EXCEPT ![r] = q]
                                      /\ q.step \notin {"delete", "recreate"}
        <5> DEFINE q == [step |-> step, op |-> req[r].op, task |-> req[r].task,
                         row |-> NewRow("todo"), usage |-> 0, edges |-> {}]
        <5>1. q \in Request
          BY <2>0, <2>n, <2>c DEF Request, Steps
        <5>2. req' = [req EXCEPT ![r] = q]
          BY <4>2 DEF Followup, Start
        <5>3. QED
          BY <5>1, <5>2
      <4>3. QED
        BY <2>3, <4>1, <4>2 DEF WriteRow
    <3>7. UNCHANGED <<live, used, deps, origin>>
      BY <2>3 DEF WriteRow
    <3>8. QED
      BY <2>0, <3>4, <3>5, <3>6, <3>7 DEF TypeInv, TypeOK
  <2>4. CASE MarkSeenRow(r)
    <3>1. /\ Seen(row[req[r].task]) \in Row
          /\ Seen(row[req[r].task]).tokens = row[req[r].task].tokens
      BY <2>0, <2>c, OperationsReturnRows, OperationsCountTokens
    <3>2. row' \in [Tasks -> Row] /\ \A t \in live : row'[t].tokens <= MaxInteger
      BY <2>4, <2>0, <3>1 DEF MarkSeenRow, TypeInv, TypeOK
    <3>3. QED
      BY <2>4, <2>0, <2>i, <3>2 DEF MarkSeenRow, Finish, TypeInv, TypeOK
  <2>5. CASE SessionUpdate(r)
    <3>1. PICK t \in Tasks, session \in BOOLEAN : UpdateTaskSession(r, t, session)
      BY <2>5 DEF SessionUpdate
    <3>2. /\ [row[t] EXCEPT !.session = session] \in Row
          /\ [row[t] EXCEPT !.session = session].tokens = row[t].tokens
      BY <2>0 DEF Row
    <3>3. row' = [row EXCEPT ![t] = [row[t] EXCEPT !.session = session]]
      BY <3>1 DEF UpdateTaskSession
    <3>4. row' \in [Tasks -> Row] /\ \A x \in live : row'[x].tokens <= MaxInteger
      BY <3>2, <3>3, <2>0 DEF TypeInv, TypeOK
    <3>5. QED
      BY <3>1, <3>4 DEF UpdateTaskSession, TypeInv, TypeOK
  <2>6. CASE DeleteRow(r)
    <3>1. live' \subseteq live /\ deps' \subseteq deps
      BY <2>6 DEF DeleteRow, WithoutTask
    <3>2. row' \in [Tasks -> Row] /\ \A t \in live' : row'[t].tokens <= MaxInteger
      BY <2>6, <2>0, <2>n, <2>c DEF DeleteRow, TypeInv, TypeOK
    <3>3. \/ req' = [req EXCEPT ![r] = [req[r] EXCEPT !.step = "recreate"]]
          \/ req' = [req EXCEPT ![r] = Idle]
      BY <2>6, <2>0 DEF DeleteRow, Goto, Finish
    <3>4. req[r].row.tokens <= MaxInteger
      BY <2>6 DEF DeleteRow, TypeInv
    <3>5. [req[r] EXCEPT !.step = "recreate"].row.tokens <= MaxInteger
      BY <3>4, <2>0 DEF Request
    <3>6. /\ req' \in [Requests -> Request]
          /\ \A s \in Requests :
               req'[s].step \in {"delete", "recreate"} => req'[s].row.tokens <= MaxInteger
      BY <3>3, <3>5, <2>0, <2>f, <2>i DEF TypeInv, Steps
    <3>7. UNCHANGED <<used, reported, origin>>
      BY <2>6 DEF DeleteRow
    <3>8. QED
      BY <3>1, <3>2, <3>6, <3>7 DEF TypeInv, TypeOK
  <2>7. CASE \E t \in Tasks : RecreateTask(r, t)
    <3>1. req[r].row.tokens <= MaxInteger
      BY <2>7 DEF RecreateTask, TypeInv
    <3>2. QED
      BY <2>7, <2>0, <2>i, <3>1 DEF RecreateTask, Finish, TypeInv, TypeOK
  <2>8. CASE \E e \in Tasks \X Tasks : InsertDependency(r, e)
    <3>1. PICK e \in Tasks \X Tasks : InsertDependency(r, e)
      BY <2>8
    <3>2. [req[r] EXCEPT !.edges = req[r].edges \ {e}] \in Request
      BY <2>0 DEF Request
    <3>3. /\ req' \in [Requests -> Request]
          /\ \A s \in Requests : req'[s].step \in {"delete", "recreate"} =>
                                    s # r /\ req'[s] = req[s]
      BY <3>1, <3>2, <2>0, <2>i DEF InsertDependency, Finish, Request
    <3>4. deps' \subseteq Tasks \X Tasks
      BY <3>1 DEF InsertDependency, TypeInv, TypeOK
    <3>5. QED
      BY <3>1, <3>3, <3>4 DEF InsertDependency, TypeInv, TypeOK
  <2>9. CASE \E e \in Tasks \X Tasks : RemoveDependency(r, e)
    BY <2>9 DEF RemoveDependency, TypeInv, TypeOK
  <2>10. QED
    BY StepKinds, <2>1, <2>2, <2>3, <2>4, <2>5, <2>6, <2>7, <2>8, <2>9
<1>3. QED
  BY <1>1, <1>2 DEF Next

(* The type of the board and of what its requests prepare is invariant.     *)
LEMMA TypeInvariant == Spec => []TypeInv
<1>1. Init => TypeInv
  BY TypeInvInit
<1>2. TypeInv /\ [Next]_vars => TypeInv'
  BY TypeInvNext
<1>3. QED
  BY <1>1, <1>2, PTL DEF Spec

(* Rows, requests, edges and histories have their types in every reachable  *)
(* state, and no stored counter exceeds the width of its column.            *)
THEOREM TypeCorrect == Spec => []TypeOK
<1>1. TypeInv => TypeOK
  BY DEF TypeInv
<1>2. QED
  BY <1>1, TypeInvariant, PTL

---------------------------------------------------------------------------
(* Lost updates never mix two states: the rows are consistent, and so is    *)
(* every row a request still has to write, whatever the table holds by now. *)
RowInv ==
  /\ \A t \in Tasks : RowConsistent(row[t])
  /\ \A r \in Requests : RowConsistent(req[r].row)

(* A new row is consistent.                                                 *)
LEMMA NewRowConsistent ==
  \A c \in {"todo", "backlog"} : NewRow(c) \in Row /\ RowConsistent(NewRow(c))
BY DEF NewRow, Row, Columns, RowConsistent, BlockedFlagIsColumn, BlockedHasCause,
       InProgressIsStarted, CompletionIsWhole

(* It holds on the empty board.                                             *)
LEMMA RowInvInit == Init => RowInv
BY NewRowConsistent DEF Init, RowInv, Idle

(* Every step writes consistent rows and prepares consistent rows.          *)
LEMMA RowInvNext == TypeInv /\ RowInv /\ [Next]_vars => RowInv'
<1>1. CASE UNCHANGED vars
  BY <1>1 DEF vars, RowInv
<1>2. ASSUME TypeInv, RowInv, NEW r \in Requests, Begin(r) \/ Proceed(r) \/ Abort(r)
      PROVE  RowInv'
  <2> USE <1>2
  <2>0. /\ req \in [Requests -> Request] /\ req[r] \in Request
        /\ req[r].task \in Tasks /\ req[r].row \in Row
        /\ row \in [Tasks -> Row]
        /\ RowConsistent(req[r].row)
        /\ 0 \in Nat /\ "todo" \in Columns
    BY DEF TypeInv, TypeOK, Request, RowInv, Columns
  <2>i. RowConsistent(Idle.row)
    BY NewRowConsistent DEF Idle
  <2>1. CASE ReadStep(r)
    <3>1. PICK q : Prepared(r, q)
      BY <2>1, ReadStepsPrepare DEF TypeInv
    <3>2. RowConsistent(q.row)
      BY <3>1, <2>0, NewRowConsistent
         DEF Prepared, Empty, Kept, Made, MadeFrom, RowInv, TypeInv, TypeOK
    <3>3. QED
      BY <2>0, <3>1, <3>2 DEF Prepared, RowInv, board
  <2>2. CASE Creation(r)
    <3>1. CASE \E t \in Tasks, c \in {"todo", "backlog"} : CreateTask(r, t, c)
      BY <3>1, <2>0, NewRowConsistent DEF CreateTask, RowInv
    <3>2. ASSUME NEW new \in SUBSET (Tasks \ used), NEW backlog \in SUBSET new,
                 NEW edges \in SUBSET (new \X live), BulkCreateTasks(r, new, backlog, edges)
          PROVE  RowInv'
      BY <3>2, <2>0, NewRowConsistent DEF BulkCreateTasks, Start, RowInv
    <3>3. QED
      BY <2>2, <3>1, <3>2 DEF Creation
  <2>3. CASE WriteRow(r)
    <3>1. row' = [row EXCEPT ![req[r].task] = WrittenOver(row[req[r].task], req[r].row)]
      BY <2>3 DEF WriteRow
    <3>2. RowConsistent(WrittenOver(row[req[r].task], req[r].row))
      BY <2>0, OperationsKeepConsistency DEF RowInv
    <3>3. \A s \in Requests : RowConsistent(req'[s].row)
      BY <2>3, <2>0, NewRowConsistent, <2>i DEF WriteRow, Followup, Start, Finish, RowInv
    <3>4. QED
      BY <2>0, <3>1, <3>2, <3>3 DEF RowInv
  <2>4. CASE MarkSeenRow(r)
    <3>1. RowConsistent(Seen(row[req[r].task]))
      BY <2>0, OperationsKeepConsistency DEF RowInv
    <3>2. QED
      BY <2>4, <2>0, <2>i, <3>1 DEF MarkSeenRow, Finish, RowInv
  <2>5. CASE SessionUpdate(r)
    <3>1. PICK t \in Tasks, session \in BOOLEAN : UpdateTaskSession(r, t, session)
      BY <2>5 DEF SessionUpdate
    <3>2. RowConsistent([row[t] EXCEPT !.session = session])
      BY <2>0, OperationsKeepConsistency DEF RowInv
    <3>3. row' = [row EXCEPT ![t] = [row[t] EXCEPT !.session = session]] /\ req' = req
      BY <3>1 DEF UpdateTaskSession
    <3>4. QED
      BY <3>2, <3>3, <2>0 DEF RowInv
  <2>6. CASE DeleteRow(r)
    <3>1. \A t \in Tasks : row'[t] = row[t] \/ row'[t] = NewRow("todo")
      BY <2>6, <2>0 DEF DeleteRow
    <3>2. \A s \in Requests : req'[s].row = req[s].row \/ req'[s].row = Idle.row
      BY <2>6, <2>0 DEF DeleteRow, Goto, Finish, Request
    <3>3. QED
      BY <3>1, <3>2, <2>i, NewRowConsistent DEF RowInv
  <2>7. CASE \E t \in Tasks : RecreateTask(r, t)
    BY <2>7, <2>0, <2>i DEF RecreateTask, Finish, RowInv
  <2>8. CASE \E e \in Tasks \X Tasks : InsertDependency(r, e)
    <3>1. \A s \in Requests : req'[s].row = req[s].row \/ req'[s].row = Idle.row
      BY <2>8, <2>0 DEF InsertDependency, Finish, Request
    <3>2. row' = row
      BY <2>8 DEF InsertDependency
    <3>3. QED
      BY <3>1, <3>2, <2>i DEF RowInv
  <2>9. CASE \E e \in Tasks \X Tasks : RemoveDependency(r, e)
    BY <2>9 DEF RemoveDependency, RowInv
  <2>10. QED
    BY StepKinds, <2>1, <2>2, <2>3, <2>4, <2>5, <2>6, <2>7, <2>8, <2>9
<1>3. QED
  BY <1>1, <1>2 DEF Next

(* Rows and prepared rows are consistent in every reachable state.          *)
LEMMA RowInvariant == Spec => [](TypeInv /\ RowInv)
<1>1. Init => TypeInv /\ RowInv
  BY TypeInvInit, RowInvInit
<1>2. TypeInv /\ RowInv /\ [Next]_vars => TypeInv' /\ RowInv'
  BY TypeInvNext, RowInvNext
<1>3. QED
  BY <1>1, <1>2, PTL DEF Spec

(* It is what the property asks for.                                        *)
LEMMA RowInvImplies == TypeInv /\ RowInv => RowsConsistent
BY DEF TypeInv, TypeOK, RowInv, RowsConsistent

(* Any number of overlapping requests leave rows that a single request could *)
(* have written: flag, column, reasons, times and summary fit together.      *)
THEOREM RowsAlwaysConsistent == Spec => []RowsConsistent
BY RowInvariant, RowInvImplies, PTL

---------------------------------------------------------------------------
(* Usage is never counted twice.  A request may write a row that is out of  *)
(* date, so the bound must hold for its row too: it counts at most what had *)
(* been reported when it read, plus the usage it reports itself.            *)
CountInv ==
  /\ \A t \in Tasks : row[t].tokens <= reported[t]
  /\ \A r \in Requests :
       /\ req[r].row.tokens <= reported[req[r].task] + req[r].usage
       /\ req[r].row.tokens > 0 => req[r].task \in used
       /\ req[r].step \in {"delete", "recreate"} => req[r].usage = 0

(* It holds on the empty board.                                             *)
LEMMA CountInvInit == Init => CountInv
<1> SUFFICES ASSUME Init PROVE CountInv
  OBVIOUS
<1>1. NewRow("todo").tokens = 0
  BY DEF NewRow
<1>2. \A t \in Tasks : row[t].tokens = 0 /\ reported[t] = 0
  BY <1>1 DEF Init
<1>3. \A r \in Requests : req[r].row.tokens = 0 /\ req[r].usage = 0 /\ req[r].task \in Tasks
  BY <1>1, AnyTaskIsTask DEF Init, Idle
<1>4. QED
  BY <1>2, <1>3 DEF CountInv

(* No step counts more usage than was reported to the task.                 *)
LEMMA CountInvNext == TypeInv /\ CountInv /\ [Next]_vars => CountInv'
<1>1. CASE UNCHANGED vars
  BY <1>1 DEF vars, CountInv
<1>2. ASSUME TypeInv, CountInv, NEW r \in Requests, Begin(r) \/ Proceed(r) \/ Abort(r)
      PROVE  CountInv'
  <2> USE <1>2
  <2>0. /\ req \in [Requests -> Request] /\ req[r] \in Request
        /\ \A s \in Requests : /\ req[s].task \in Tasks /\ req[s].row.tokens \in Nat
                               /\ req[s].usage \in Nat
        /\ req[r].row \in Row
        /\ row \in [Tasks -> Row] /\ reported \in [Tasks -> Nat]
        /\ \A t \in Tasks : row[t].tokens \in Nat
        /\ 0 \in Nat /\ "todo" \in Columns
        /\ used \subseteq Tasks /\ live \subseteq used
    BY TaskBoardAssumption DEF TypeInv, TypeOK, Request, Row, Columns
  <2>n. \A c : NewRow(c).tokens = 0
    BY DEF NewRow
  <2>i. Idle.row.tokens = 0 /\ Idle.usage = 0 /\ Idle.task \in Tasks
    BY <2>n, AnyTaskIsTask DEF Idle
  <2>1. CASE ReadStep(r)
    <3>1. PICK q : Prepared(r, q)
      BY <2>1, ReadStepsPrepare DEF TypeInv
    <3>2. q.task \in Tasks /\ q.usage \in Nat /\ q.row.tokens \in Nat /\ q.step # "recreate"
      BY <3>1, TaskBoardAssumption DEF Prepared, Request, Row
    <3>3. /\ q.row.tokens <= reported[q.task] + q.usage
          /\ q.row.tokens > 0 => q.task \in used
          /\ q.step \in {"delete", "recreate"} => q.usage = 0
      <4>1. CASE Empty(q)
        BY <4>1, <3>2, <2>0, <2>n DEF Empty
      <4>2. CASE Kept(q, req[r])
        BY <4>2, <3>2 DEF Kept, CountInv
      <4>3. CASE Made(q)
        BY <4>3, <3>2, <2>0 DEF Made, MadeFrom, CountInv
      <4>4. QED
        BY <3>1, <4>1, <4>2, <4>3 DEF Prepared
    <3>4. QED
      BY <2>0, <3>1, <3>3 DEF Prepared, CountInv, board
  <2>2. CASE Creation(r)
    <3>1. CASE \E t \in Tasks, c \in {"todo", "backlog"} : CreateTask(r, t, c)
      BY <3>1, <2>0, <2>n DEF CreateTask, CountInv
    <3>2. ASSUME NEW new \in SUBSET (Tasks \ used), NEW backlog \in SUBSET new,
                 NEW edges \in SUBSET (new \X live), BulkCreateTasks(r, new, backlog, edges)
          PROVE  CountInv'
      <4>1. /\ \A t \in Tasks : row'[t].tokens <= reported'[t]
            /\ used \subseteq used' /\ reported' = reported
        BY <3>2, <2>0, <2>n DEF BulkCreateTasks, CountInv
      <4>2. \A s \in Requests :
              \/ req'[s] = req[s]
              \/ /\ req'[s].row.tokens = 0 /\ req'[s].usage = 0
                 /\ req'[s].task \in Tasks /\ req'[s].step = "link"
        BY <3>2, <2>0, <2>n, AnyTaskIsTask DEF BulkCreateTasks, Start
      <4>3. QED
        BY <4>1, <4>2, <2>0 DEF CountInv
    <3>3. QED
      BY <2>2, <3>1, <3>2 DEF Creation
  <2>3. CASE WriteRow(r)
    <3>1. row' = [row EXCEPT ![req[r].task] = WrittenOver(row[req[r].task], req[r].row)]
      BY <2>3 DEF WriteRow
    <3>2. WrittenOver(row[req[r].task], req[r].row).tokens = req[r].row.tokens
      BY <2>0 DEF WrittenOver, Row
    <3>3. reported' = [reported EXCEPT ![req[r].task] = @ + req[r].usage]
      BY <2>3 DEF WriteRow
    <3>4. \A t \in Tasks : reported'[t] \in Nat /\ reported[t] <= reported'[t]
      BY <3>3, <2>0
    <3>5. \A t \in Tasks : row'[t].tokens <= reported'[t]
      BY <3>1, <3>2, <3>3, <2>0 DEF CountInv
    <3>6. \A s \in Requests :
            \/ req'[s] = req[s]
            \/ /\ req'[s].row.tokens = 0 /\ req'[s].usage = 0
               /\ req'[s].task \in Tasks /\ req'[s].step \notin {"delete", "recreate"}
      BY <2>3, <2>0, <2>n, <2>i DEF WriteRow, Followup, Start, Finish, Idle
    <3>7. used' = used
      BY <2>3 DEF WriteRow
    <3>8. QED
      BY <3>4, <3>5, <3>6, <3>7, <2>0 DEF CountInv
  <2>4. CASE MarkSeenRow(r)
    <3>1. Seen(row[req[r].task]).tokens = row[req[r].task].tokens
      BY <2>0, OperationsCountTokens
    <3>2. \A t \in Tasks : row'[t].tokens = row[t].tokens
      BY <2>4, <2>0, <3>1 DEF MarkSeenRow
    <3>3. req' = [req EXCEPT ![r] = Idle] /\ UNCHANGED <<reported, used>>
      BY <2>4 DEF MarkSeenRow, Finish
    <3>4. QED
      BY <3>2, <3>3, <2>0, <2>i DEF CountInv, Idle
  <2>5. CASE SessionUpdate(r)
    <3>1. PICK t \in Tasks, session \in BOOLEAN : UpdateTaskSession(r, t, session)
      BY <2>5 DEF SessionUpdate
    <3>2. [row[t] EXCEPT !.session = session].tokens = row[t].tokens
      BY <2>0 DEF Row
    <3>3. /\ row' = [row EXCEPT ![t] = [row[t] EXCEPT !.session = session]]
          /\ UNCHANGED <<req, used, reported>>
      BY <3>1 DEF UpdateTaskSession
    <3>4. QED
      BY <3>2, <3>3, <2>0 DEF CountInv
  <2>6. CASE DeleteRow(r)
    <3>1. \A t \in Tasks : row'[t] = row[t] \/ row'[t].tokens = 0
      BY <2>6, <2>0, <2>n DEF DeleteRow
    <3>2. \A s \in Requests :
            \/ /\ req'[s].row = req[s].row /\ req'[s].task = req[s].task
               /\ req'[s].usage = req[s].usage
               /\ s = r \/ req'[s].step = req[s].step
            \/ req'[s] = Idle
      BY <2>6, <2>0 DEF DeleteRow, Goto, Finish, Request
    <3>3. UNCHANGED <<used, reported>> /\ req[r].step = "delete"
      BY <2>6 DEF DeleteRow
    <3>4. QED
      BY <3>1, <3>2, <3>3, <2>0, <2>i DEF CountInv
  <2>7. CASE \E t \in Tasks : RecreateTask(r, t)
    <3>1. PICK t \in Tasks : RecreateTask(r, t)
      BY <2>7
    <3>2. /\ req[r].step = "recreate" /\ t \notin used
          /\ row' = [row EXCEPT ![t] = req[r].row]
          /\ reported' = [reported EXCEPT ![t] = reported[req[r].task]]
          /\ used' = used \cup {t} /\ req' = [req EXCEPT ![r] = Idle]
      BY <3>1 DEF RecreateTask, Finish
    <3>3. req[r].row.tokens <= reported[req[r].task]
      BY <3>2, <2>0 DEF CountInv
    <3>4. \A x \in Tasks : row'[x].tokens <= reported'[x]
      BY <3>2, <3>3, <2>0 DEF CountInv
    <3>5. \A s \in Requests : req[s].task = t => req[s].row.tokens = 0
      BY <3>2, <2>0 DEF CountInv
    <3>6. \A s \in Requests :
            /\ req'[s].row.tokens <= reported'[req'[s].task] + req'[s].usage
            /\ req'[s].row.tokens > 0 => req'[s].task \in used'
            /\ req'[s].step \in {"delete", "recreate"} => req'[s].usage = 0
      <4>1. \A x \in Tasks : reported'[x] \in Nat /\ (x # t => reported'[x] = reported[x])
        BY <3>2, <2>0
      <4>2. SUFFICES ASSUME NEW s \in Requests
                     PROVE  /\ req'[s].row.tokens <= reported'[req'[s].task] + req'[s].usage
                            /\ req'[s].row.tokens > 0 => req'[s].task \in used'
                            /\ req'[s].step \in {"delete", "recreate"} => req'[s].usage = 0
        OBVIOUS
      <4>3. CASE s = r
        BY <4>1, <4>3, <3>2, <2>0, <2>i
      <4>4. CASE s # r
        BY <4>1, <4>4, <3>2, <3>5, <2>0 DEF CountInv
      <4>5. QED
        BY <4>3, <4>4
    <3>7. QED
      BY <3>4, <3>6 DEF CountInv
  <2>8. CASE \E e \in Tasks \X Tasks : InsertDependency(r, e)
    <3>1. \A s \in Requests :
            \/ /\ req'[s].row = req[s].row /\ req'[s].task = req[s].task
               /\ req'[s].usage = req[s].usage /\ req'[s].step = req[s].step
            \/ req'[s] = Idle
      BY <2>8, <2>0 DEF InsertDependency, Finish, Request
    <3>2. UNCHANGED <<row, used, reported>>
      BY <2>8 DEF InsertDependency
    <3>3. QED
      BY <3>1, <3>2, <2>0, <2>i DEF CountInv
  <2>9. CASE \E e \in Tasks \X Tasks : RemoveDependency(r, e)
    BY <2>9 DEF RemoveDependency, CountInv
  <2>10. QED
    BY StepKinds, <2>1, <2>2, <2>3, <2>4, <2>5, <2>6, <2>7, <2>8, <2>9
<1>3. QED
  BY <1>1, <1>2 DEF Next

(* However updates are lost and retried, a row never claims more tokens     *)
(* than were reported for the task, in whichever projects it has been.      *)
THEOREM TokensNeverOverCounted == Spec => []NeverOverCounted
<1>1. Init => TypeInv /\ CountInv
  BY TypeInvInit, CountInvInit
<1>2. TypeInv /\ CountInv /\ [Next]_vars => TypeInv' /\ CountInv'
  BY TypeInvNext, CountInvNext
<1>3. TypeInv /\ CountInv => NeverOverCounted
  BY DEF TypeInv, TypeOK, CountInv, NeverOverCounted
<1>4. QED
  BY <1>1, <1>2, <1>3, PTL DEF Spec

---------------------------------------------------------------------------
(* A task is in at most one project.  Between the DELETE and the INSERT of  *)
(* a transfer it is in none and travels in the request, so the live tasks   *)
(* and the requests about to insert together hold each task at most once.   *)
Travels(r) == req[r].step = "recreate"

TwinInv ==
  /\ NeverDuplicated
  /\ \A r, s \in Requests :
       Travels(r) /\ Travels(s) /\ origin[req[r].task] = origin[req[s].task] => r = s
  /\ \A r \in Requests, t \in live : Travels(r) => origin[req[r].task] # origin[t]
  /\ \A r \in Requests : Travels(r) => req[r].task \in used
  /\ \A t \in used : origin[t] \in used
  /\ \A t \in Tasks \ used : origin[t] = t

(* It holds on the empty board.                                             *)
LEMMA TwinInvInit == Init => TwinInv
BY TaskBoardAssumption DEF Init, TwinInv, Travels, Idle, NeverDuplicated

(* Steps that leave the board alone, or change only rows and edges.         *)
LEMMA TwinInvUnchanged ==
  ASSUME TwinInv, UNCHANGED <<live, used, origin>>,
         \A s \in Requests : req'[s] = req[s] \/ req'[s].step # "recreate"
  PROVE  TwinInv'
BY DEF TwinInv, Travels, NeverDuplicated

(* No step gives a task that was moved away a second copy.                  *)
LEMMA TwinInvNext == TypeInv /\ TwinInv /\ [Next]_vars => TwinInv'
<1>1. CASE UNCHANGED vars
  BY <1>1 DEF vars, TwinInv, Travels, NeverDuplicated
<1>2. ASSUME TypeInv, TwinInv, NEW r \in Requests, Begin(r) \/ Proceed(r) \/ Abort(r)
      PROVE  TwinInv'
  <2> USE <1>2
  <2>0. /\ req \in [Requests -> Request] /\ req[r] \in Request
        /\ req[r].task \in Tasks /\ origin \in [Tasks -> Tasks]
        /\ used \subseteq Tasks /\ live \subseteq used
    BY DEF TypeInv, TypeOK, Request
  <2>i. Idle.step # "recreate"
    BY DEF Idle
  <2>1. CASE ReadStep(r)
    <3>1. PICK q : Prepared(r, q)
      BY <2>1, ReadStepsPrepare DEF TypeInv
    <3>2. QED
      BY <2>0, <3>1, TwinInvUnchanged DEF Prepared, board
  <2>2. CASE Creation(r)
    <3>1. PICK new \in SUBSET (Tasks \ used) :
            /\ live' = live \cup new /\ used' = used \cup new /\ origin' = origin
            /\ \A s \in Requests : req'[s] = req[s] \/ req'[s].step # "recreate"
      <4>1. CASE \E t \in Tasks, c \in {"todo", "backlog"} : CreateTask(r, t, c)
        <5>1. PICK t \in Tasks : t \notin used /\ \E c \in {"todo", "backlog"} : CreateTask(r, t, c)
          BY <4>1 DEF CreateTask
        <5>2. {t} \in SUBSET (Tasks \ used)
          BY <5>1
        <5>3. QED
          BY <5>1, <5>2 DEF CreateTask
      <4>2. ASSUME NEW new \in SUBSET (Tasks \ used), NEW backlog \in SUBSET new,
                   NEW edges \in SUBSET (new \X live), BulkCreateTasks(r, new, backlog, edges)
            PROVE  /\ live' = live \cup new /\ used' = used \cup new /\ origin' = origin
                   /\ \A s \in Requests : req'[s] = req[s] \/ req'[s].step # "recreate"
        BY <4>2, <2>0 DEF BulkCreateTasks, Start
      <4>3. QED
        BY <2>2, <4>1, <4>2 DEF Creation
    <3>2. \A t \in new : origin[t] = t /\ t \notin used
      BY DEF TwinInv
    <3>3. \A t \in used : origin[t] \in used
      BY DEF TwinInv
    <3>4. \A s \in Requests : Travels(s) => origin[req[s].task] \in used
      BY DEF TwinInv
    <3>5. NeverDuplicated'
      BY <3>1, <3>2, <3>3, <2>0 DEF TwinInv, NeverDuplicated
    <3>6. \A s \in Requests, t \in live' : Travels(s)' => origin'[req'[s].task] # origin'[t]
      BY <3>1, <3>2, <3>4 DEF TwinInv, Travels
    <3>7. QED
      BY <3>1, <3>2, <3>3, <3>5, <3>6 DEF TwinInv, Travels
  <2>3. CASE WriteRow(r)
    <3>1. \A s \in Requests : req'[s] = req[s] \/ req'[s].step # "recreate"
      BY <2>3, <2>0, <2>i DEF WriteRow, Followup, Start, Finish
    <3>2. QED
      BY <2>3, <3>1, TwinInvUnchanged DEF WriteRow
  <2>4. CASE MarkSeenRow(r)
    BY <2>4, <2>0, <2>i, TwinInvUnchanged DEF MarkSeenRow, Finish
  <2>5. CASE SessionUpdate(r)
    BY <2>5, TwinInvUnchanged DEF SessionUpdate, UpdateTaskSession
  <2>6. CASE DeleteRow(r)
    <3>1. CASE req[r].task \in live
      <4>1. live' = live \ {req[r].task} /\ UNCHANGED <<used, origin>>
        BY <2>6, <3>1 DEF DeleteRow
      <4>2. \A s \in Requests :
              \/ req'[s] = req[s]
              \/ s = r /\ req'[s].task = req[s].task
              \/ s = r /\ req'[s].step # "recreate"
        BY <2>6, <3>1, <2>0, <2>i DEF DeleteRow, Goto, Finish, Request
      <4>3. \A s \in Requests : Travels(s) => origin[req[s].task] # origin[req[r].task]
        BY <3>1 DEF TwinInv
      <4>4. \A t \in live' : origin[t] # origin[req[r].task]
        BY <3>1, <4>1 DEF TwinInv, NeverDuplicated
      <4>5. NeverDuplicated'
        BY <4>1 DEF TwinInv, NeverDuplicated
      <4>6. \A s, u \in Requests :
              Travels(s)' /\ Travels(u)' /\ origin'[req'[s].task] = origin'[req'[u].task] => s = u
        BY <4>1, <4>2, <4>3 DEF TwinInv, Travels
      <4>7. \A s \in Requests, t \in live' : Travels(s)' => origin'[req'[s].task] # origin'[t]
        BY <4>1, <4>2, <4>4 DEF TwinInv, Travels
      <4>8. QED
        BY <3>1, <4>1, <4>2, <4>5, <4>6, <4>7, <2>0 DEF TwinInv, Travels
    <3>2. CASE req[r].task \notin live
      BY <2>6, <3>2, <2>0, <2>i, TwinInvUnchanged DEF DeleteRow, Finish
    <3>3. QED
      BY <3>1, <3>2
  <2>7. CASE \E t \in Tasks : RecreateTask(r, t)
    <3>1. PICK t \in Tasks : RecreateTask(r, t)
      BY <2>7
    <3>2. /\ Travels(r) /\ t \notin used
          /\ live' = live \cup {t} /\ used' = used \cup {t}
          /\ origin' = [origin EXCEPT ![t] = origin[req[r].task]]
          /\ req' = [req EXCEPT ![r] = Idle]
      BY <3>1 DEF RecreateTask, Finish, Travels
    <3>3. /\ origin'[t] = origin[req[r].task]
          /\ \A x \in Tasks : x # t => origin'[x] = origin[x]
      BY <3>2, <2>0
    <3>4. t \notin live /\ \A s \in Requests : Travels(s) => req[s].task # t
      BY <3>2, <2>0 DEF TwinInv
    <3>5. \A x \in live : origin'[x] # origin'[t]
      BY <3>2, <3>3, <3>4, <2>0 DEF TwinInv
    <3>6. NeverDuplicated'
      BY <3>2, <3>3, <3>4, <3>5, <2>0 DEF TwinInv, NeverDuplicated
    <3>7. \A s \in Requests : Travels(s)' => s # r /\ Travels(s) /\ req'[s] = req[s]
      BY <3>2, <2>0, <2>i DEF Travels
    <3>8. \A s, u \in Requests :
            Travels(s)' /\ Travels(u)' /\ origin'[req'[s].task] = origin'[req'[u].task] => s = u
      BY <3>3, <3>4, <3>7, <2>0 DEF TwinInv, TypeInv, TypeOK
    <3>9. \A s \in Requests, x \in live' : Travels(s)' => origin'[req'[s].task] # origin'[x]
      BY <3>2, <3>3, <3>4, <3>7, <2>0 DEF TwinInv, TypeInv, TypeOK
    <3>10. origin'[t] \in used
      BY <3>2, <3>3 DEF TwinInv
    <3>11. QED
      BY <3>2, <3>3, <3>6, <3>7, <3>8, <3>9, <3>10, <2>0 DEF TwinInv
  <2>8. CASE \E e \in Tasks \X Tasks : InsertDependency(r, e)
    <3>1. /\ req[r].step = "link"
          /\ \/ req' = req
             \/ req' = [req EXCEPT ![r] = Idle]
             \/ \E e : req' = [req EXCEPT ![r] = [req[r] EXCEPT !.edges = req[r].edges \ {e}]]
      BY <2>8, <2>0 DEF InsertDependency, Finish
    <3>2. \A e : [req[r] EXCEPT !.edges = req[r].edges \ {e}].step = req[r].step
      BY <2>0 DEF Request
    <3>3. \A s \in Requests : req'[s] = req[s] \/ req'[s].step # "recreate"
      BY <3>1, <3>2, <2>0, <2>i
    <3>4. QED
      BY <2>8, <3>3, TwinInvUnchanged DEF InsertDependency
  <2>9. CASE \E e \in Tasks \X Tasks : RemoveDependency(r, e)
    BY <2>9, TwinInvUnchanged DEF RemoveDependency
  <2>10. QED
    BY StepKinds, <2>1, <2>2, <2>3, <2>4, <2>5, <2>6, <2>7, <2>8, <2>9
<1>3. QED
  BY <1>1, <1>2 DEF Next

(* However many requests move a task to other projects, it is in at most    *)
(* one of them: the request whose DELETE found no row inserts nothing.      *)
THEOREM TasksNeverDuplicated == Spec => []NeverDuplicated
<1>1. Init => TypeInv /\ TwinInv
  BY TypeInvInit, TwinInvInit
<1>2. TypeInv /\ TwinInv /\ [Next]_vars => TypeInv' /\ TwinInv'
  BY TypeInvNext, TwinInvNext
<1>3. TypeInv /\ TwinInv => NeverDuplicated
  BY DEF TwinInv
<1>4. QED
  BY <1>1, <1>2, <1>3, PTL DEF Spec

---------------------------------------------------------------------------
(* What a step can do to the tasks and to the edges, whatever it is.        *)
LEMMA StepsOnGraph ==
  ASSUME TypeInv, NEW r \in Requests, Begin(r) \/ Proceed(r) \/ Abort(r)
  PROVE  \/ deps' \subseteq deps /\ live \subseteq live' /\ live' \cap used \subseteq live
         \/ \E t \in live : live' = live \ {t} /\ deps' = WithoutTask(deps, t)
         \/ /\ live' = live /\ req[r].step = "link"
            /\ \E e \in req[r].edges : Insertable(e) /\ deps' = deps \cup {e}
<1>0. req[r].task \in Tasks /\ live \subseteq used
  BY DEF TypeInv, TypeOK, Request
<1>1. CASE ReadStep(r)
  BY <1>1, ReadStepsPrepare DEF TypeInv, Prepared, board
<1>2. CASE Creation(r)
  BY <1>2, <1>0 DEF Creation, CreateTask, BulkCreateTasks
<1>3. CASE WriteRow(r) \/ MarkSeenRow(r) \/ SessionUpdate(r)
  BY <1>3 DEF WriteRow, MarkSeenRow, SessionUpdate, UpdateTaskSession
<1>4. CASE DeleteRow(r)
  BY <1>4 DEF DeleteRow
<1>5. CASE \E t \in Tasks : RecreateTask(r, t)
  BY <1>5, <1>0 DEF RecreateTask
<1>6. CASE \E e \in Tasks \X Tasks : InsertDependency(r, e)
  BY <1>6 DEF InsertDependency
<1>7. CASE \E e \in Tasks \X Tasks : RemoveDependency(r, e)
  BY <1>7 DEF RemoveDependency
<1>8. QED
  BY StepKinds, <1>1, <1>2, <1>3, <1>4, <1>5, <1>6, <1>7

(* No step adds an edge to a task that is not there, or leaves one there.   *)
LEMMA DependenciesJoinTasksNext ==
  TypeInv /\ DependenciesJoinTasks /\ [Next]_vars => DependenciesJoinTasks'
<1>1. CASE UNCHANGED vars
  BY <1>1 DEF vars, DependenciesJoinTasks
<1>2. ASSUME TypeInv, DependenciesJoinTasks,
             NEW r \in Requests, Begin(r) \/ Proceed(r) \/ Abort(r)
      PROVE  DependenciesJoinTasks'
  BY <1>2, StepsOnGraph DEF DependenciesJoinTasks, WithoutTask, Insertable
<1>3. QED
  BY <1>1, <1>2 DEF Next

(* The edges join existing, different tasks, although AddDependency looks   *)
(* the tasks up long before it inserts: the foreign keys look again.        *)
THEOREM DependenciesAlwaysJoinTasks == Spec => []DependenciesJoinTasks
<1>1. Init => DependenciesJoinTasks
  BY DEF Init, DependenciesJoinTasks
<1>2. QED
  BY <1>1, TypeInvariant, DependenciesJoinTasksNext, PTL DEF Spec

(* A deleted task stays deleted: no write of a request that still has its   *)
(* row brings it back.                                                      *)
THEOREM DeletedTasksStayDeleted == Spec => DeletedStaysDeleted
<1>1. TypeInv /\ [Next]_vars => [\A t \in used \ live : t \notin live']_vars
  <2>1. ASSUME TypeInv, NEW r \in Requests, Begin(r) \/ Proceed(r) \/ Abort(r)
        PROVE  \A t \in used \ live : t \notin live'
    BY <2>1, StepsOnGraph
  <2>2. QED
    BY <2>1 DEF Next
<1>2. QED
  BY <1>1, TypeInvariant, PTL DEF Spec, DeletedStaysDeleted

---------------------------------------------------------------------------
(* With one request at a time the dependencies have no cycle: what the      *)
(* check found still holds when the edge is inserted, and the tasks of a    *)
(* bulk creation have nothing that depends on them yet.                     *)
OneAtATime == \A r, s \in Requests : r = s

SafeToLink(r) ==
  /\ req[r].step = "check_cycle" => \E e \in Tasks \X Tasks : req[r].edges = {e}
  /\ req[r].step = "link" =>
       \/ \E e \in Tasks \X Tasks :
            req[r].edges = {e} /\ ~WouldCreateCycle(Tasks, deps, e[1], e[2])
       \/ \A e \in req[r].edges :
            /\ \A f \in deps : f[2] # e[1]
            /\ \A f \in req[r].edges : f[2] # e[1]

GraphInv ==
  /\ DependenciesAcyclic
  /\ DependenciesJoinTasks
  /\ \A r \in Requests : SafeToLink(r)

(* It holds on the empty board.                                             *)
LEMMA GraphInvInit == Init => GraphInv
<1> SUFFICES ASSUME Init PROVE GraphInv
  OBVIOUS
<1>1. DependenciesAcyclic
  BY DEF Init, DependenciesAcyclic, Acyclic, Reachable, DirectDependencies, ClosedUnder
<1>2. QED
  BY <1>1 DEF Init, GraphInv, DependenciesJoinTasks, SafeToLink, Idle

(* What is about to be inserted closes no cycle, and keeps the edges without *)
(* one.                                                                     *)
LEMMA SafeLink ==
  ASSUME TypeInv, GraphInv, NEW r \in Requests, req[r].step = "link",
         NEW e \in req[r].edges, Insertable(e)
  PROVE  /\ ~WouldCreateCycle(Tasks, deps, e[1], e[2])
         /\ Acyclic(Tasks, deps \cup {e})
<1>1. deps \in SUBSET (Tasks \X Tasks) /\ e \in Tasks \X Tasks
  BY DEF TypeInv, TypeOK, Request
<1>2. ~WouldCreateCycle(Tasks, deps, e[1], e[2])
  <2>1. CASE \E x \in Tasks \X Tasks :
               req[r].edges = {x} /\ ~WouldCreateCycle(Tasks, deps, x[1], x[2])
    BY <2>1
  <2>2. CASE \A f \in deps : f[2] # e[1]
    BY <2>2, <1>1, SourceCreatesNoCycle DEF Insertable
  <2>3. QED
    BY <2>1, <2>2 DEF GraphInv, SafeToLink
<1>3. e = <<e[1], e[2]>> /\ e[1] \in Tasks /\ e[2] \in Tasks
  BY <1>1
<1>4. Acyclic(Tasks, deps \cup {<<e[1], e[2]>>})
  BY <1>1, <1>2, <1>3, SafeEdgeKeepsAcyclic DEF GraphInv, DependenciesAcyclic
<1>5. QED
  BY <1>2, <1>3, <1>4

(* No step of the one request closes a cycle.                               *)
LEMMA GraphInvNext == OneAtATime /\ TypeInv /\ GraphInv /\ [Next]_vars => GraphInv'
<1>1. CASE UNCHANGED vars
  BY <1>1 DEF vars, GraphInv, DependenciesAcyclic, DependenciesJoinTasks, SafeToLink
<1>2. ASSUME OneAtATime, TypeInv, GraphInv,
             NEW r \in Requests, Begin(r) \/ Proceed(r) \/ Abort(r)
      PROVE  GraphInv'
  <2> USE <1>2
  <2>0. /\ req \in [Requests -> Request] /\ req[r] \in Request
        /\ deps \in SUBSET (Tasks \X Tasks) /\ live \subseteq used
        /\ \A s \in Requests : s = r
    BY DEF TypeInv, TypeOK, OneAtATime
  <2>1. DependenciesJoinTasks'
    BY StepsOnGraph DEF GraphInv, DependenciesJoinTasks, WithoutTask, Insertable
  <2>2. DependenciesAcyclic'
    <3>1. CASE deps' \subseteq deps
      BY <3>1, <2>0, FewerEdgesKeepAcyclic DEF GraphInv, DependenciesAcyclic
    <3>2. CASE \E t \in live : deps' = WithoutTask(deps, t)
      <4>1. deps' \subseteq deps
        BY <3>2 DEF WithoutTask
      <4>2. QED
        BY <4>1, <3>1
    <3>3. CASE /\ req[r].step = "link"
               /\ \E e \in req[r].edges : Insertable(e) /\ deps' = deps \cup {e}
      BY <3>3, SafeLink DEF DependenciesAcyclic
    <3>4. QED
      BY StepsOnGraph, <3>1, <3>2, <3>3
  <2>3. SafeToLink(r)'
    <3>i. Idle.step = "idle"
      BY DEF Idle
    <3>1. CASE ReadStep(r)
      <4>1. PICK q : Prepared(r, q)
        BY <3>1, ReadStepsPrepare DEF TypeInv
      <4>2. req'[r] = q /\ deps' = deps
        BY <4>1, <2>0 DEF Prepared, board
      <4>3. q.step = "check_cycle" => \E e \in Tasks \X Tasks : q.edges = {e}
        BY <4>1 DEF Prepared, Linking
      <4>4. q.step = "link" =>
              \E e \in Tasks \X Tasks :
                q.edges = {e} /\ ~WouldCreateCycle(Tasks, deps, e[1], e[2])
        BY <4>1 DEF Prepared, Linking, GraphInv, SafeToLink
      <4>5. QED
        BY <4>2, <4>3, <4>4 DEF SafeToLink
    <3>2. CASE Creation(r)
      <4>1. CASE \E t \in Tasks, c \in {"todo", "backlog"} : CreateTask(r, t, c)
        BY <4>1 DEF CreateTask, GraphInv, SafeToLink
      <4>2. ASSUME NEW new \in SUBSET (Tasks \ used), NEW backlog \in SUBSET new,
                   NEW edges \in SUBSET (new \X live), BulkCreateTasks(r, new, backlog, edges)
            PROVE  SafeToLink(r)'
        <5>1. deps' = deps
          BY <4>2 DEF BulkCreateTasks
        <5>2. \A e \in edges : /\ \A f \in deps : f[2] # e[1]
                              /\ \A f \in edges : f[2] # e[1]
          BY <2>0 DEF GraphInv, DependenciesJoinTasks
        <5>3. CASE edges = {}
          BY <4>2, <5>1, <5>3 DEF BulkCreateTasks, GraphInv, SafeToLink
        <5>4. CASE edges # {}
          <6>1. req'[r].edges = edges /\ req'[r].step = "link"
            BY <4>2, <5>4, <2>0 DEF BulkCreateTasks, Start
          <6>2. QED
            BY <5>1, <5>2, <6>1 DEF SafeToLink
        <5>5. QED
          BY <5>3, <5>4
      <4>3. QED
        BY <3>2, <4>1, <4>2 DEF Creation
    <3>3. CASE WriteRow(r) \/ MarkSeenRow(r) \/ DeleteRow(r)
      <4>1. req'[r].step \notin {"check_cycle", "link"}
        BY <3>3, <2>0, <3>i DEF WriteRow, MarkSeenRow, DeleteRow, Followup, Start, Goto, Finish, Request
      <4>2. QED
        BY <4>1 DEF SafeToLink
    <3>4. CASE SessionUpdate(r)
      BY <3>4 DEF SessionUpdate, UpdateTaskSession, GraphInv, SafeToLink
    <3>5. CASE \E t \in Tasks : RecreateTask(r, t)
      BY <3>5, <2>0, <3>i DEF RecreateTask, Finish, SafeToLink
    <3>6. CASE \E e \in Tasks \X Tasks : InsertDependency(r, e)
      <4>1. PICK e \in Tasks \X Tasks : InsertDependency(r, e)
        BY <3>6
      <4>2. CASE ~Insertable(e) \/ req[r].edges = {e}
        BY <4>1, <4>2, <2>0, <3>i DEF InsertDependency, Finish, SafeToLink
      <4>3. CASE Insertable(e) /\ req[r].edges # {e}
        <5>1. /\ deps' = deps \cup {e} /\ req'[r].edges = req[r].edges \ {e}
              /\ req'[r].step = "link" /\ req[r].step = "link" /\ e \in req[r].edges
          BY <4>1, <4>3, <2>0 DEF InsertDependency, Request
        <5>2. \A x \in req[r].edges : /\ \A f \in deps : f[2] # x[1]
                                     /\ \A f \in req[r].edges : f[2] # x[1]
          BY <4>3, <5>1 DEF GraphInv, SafeToLink
        <5>3. QED
          BY <5>1, <5>2 DEF SafeToLink
      <4>4. QED
        BY <4>2, <4>3
    <3>7. CASE \E e \in Tasks \X Tasks : RemoveDependency(r, e)
      <4>1. req' = req /\ req[r].step = "idle"
        BY <3>7 DEF RemoveDependency, Free
      <4>2. QED
        BY <4>1 DEF SafeToLink
    <3>8. QED
      BY StepKinds, <3>1, <3>2, <3>3, <3>4, <3>5, <3>6, <3>7
  <2>4. QED
    BY <2>0, <2>1, <2>2, <2>3 DEF GraphInv
<1>3. QED
  BY <1>1, <1>2 DEF Next

(* Requests that run one after the other never close a cycle.               *)
THEOREM SequentialDependenciesAcyclic ==
  ASSUME OneAtATime
  PROVE  Spec => []DependenciesAcyclic
<1>1. Init => TypeInv /\ GraphInv
  BY TypeInvInit, GraphInvInit
<1>2. TypeInv /\ GraphInv /\ [Next]_vars => TypeInv' /\ GraphInv'
  BY TypeInvNext, GraphInvNext
<1>3. GraphInv => DependenciesAcyclic
  BY DEF GraphInv
<1>4. QED
  BY <1>1, <1>2, <1>3, PTL DEF Spec

---------------------------------------------------------------------------
(***************************************************************************)
(* Requests that run one after the other.  The rest of this module assumes  *)
(* OneAtATime: what a request read is then still there when it writes, and  *)
(* three more properties and the refinement of TaskLifecycle hold.          *)
(***************************************************************************)

(* The column each operation puts a task in.                                *)
LEMMA OperationsPlace ==
  ASSUME NEW old \in Row, NEW usage \in Nat, NEW c \in Columns
  PROVE  /\ NewRow(c).col = c
         /\ TransferredRow(old).col = "todo"
         /\ Updated(old, usage).col = old.col
         /\ Moved(old, c).col = c
         /\ Completed(old, usage).col = "done"
         /\ Blocked(old).col = "blocked"
         /\ WontDoRequested(old).col = "blocked"
         /\ WontDoApproved(old).col = "done"
         /\ WontDoRejected(old).col = "todo"
         /\ Seen(old).col = old.col
         /\ \A new \in Row : WrittenOver(old, new).col = new.col
<1>1. Unblocked(old).col = old.col /\ Unblocked(old) \in Row
  BY DEF Unblocked, Row
<1>2. Moved(old, c).col = c
  BY <1>1 DEF Moved, Row
<1>3. Seen(old).col = old.col
  BY DEF Seen, Row
<1>4. NewRow(c).col = c /\ TransferredRow(old).col = "todo"
  BY DEF NewRow, TransferredRow
<1>5. /\ Updated(old, usage).col = old.col
      /\ Completed(old, usage).col = "done"
      /\ Blocked(old).col = "blocked"
      /\ WontDoRequested(old).col = "blocked"
      /\ WontDoApproved(old).col = "done"
      /\ WontDoRejected(old).col = "todo"
  BY DEF Updated, Completed, Blocked, WontDoRequested, WontDoApproved, WontDoRejected, Row
<1>6. \A new \in Row : WrittenOver(old, new).col = new.col
  BY DEF WrittenOver, Row
<1>7. QED
  BY <1>2, <1>3, <1>4, <1>5, <1>6

(* With one request at a time, what it is about to write is what it makes   *)
(* of the row that is there: usage is added to what was spent, a report     *)
(* moves nothing but to done, and nothing that is blocked, and a start has  *)
(* found the dependencies done.                                             *)
Intended(q, old) ==
  /\ q.row.tokens = old.tokens + q.usage
  /\ \/ q.op = "update" /\ q.row.col = old.col
     \/ q.op = "complete" /\ ~old.isBlocked /\ q.row.col = "done"
     \/ q.op \in {"block", "wont_do"} /\ q.usage = 0 /\ q.row.col = "blocked"
     \/ /\ q.op \in {"move", "unblock", "approve", "reject"} /\ q.usage = 0
        /\ q.row.col = "in_progress" => q.op = "move"

UpToDate(q) ==
  /\ q.step \in {"check_deps", "write"} => q.task \in live /\ Intended(q, row[q.task])
  /\ q.step = "write" /\ q.op = "move" /\ q.row.col = "in_progress" =>
       ~HasUnresolvedDependencies(q.task)
  /\ q.step = "delete" => q.task \in live
  /\ q.step = "delete" /\ q.op = "transfer" =>
       q.row.tokens = row[q.task].tokens /\ q.row.col = "todo"
  /\ q.step = "recreate" => q.row.tokens = reported[q.task] /\ q.row.col = "todo"

SequentialInv ==
  /\ TokensAccounted
  /\ \A t \in Tasks \ used : reported[t] = 0
  /\ \A r \in Requests : UpToDate(req[r])

(* Nothing is reported and nothing is prepared on the empty board.          *)
LEMMA SequentialInvInit == Init => SequentialInv
<1> SUFFICES ASSUME Init PROVE SequentialInv
  OBVIOUS
<1>1. NewRow("todo").tokens = 0
  BY DEF NewRow
<1>2. TokensAccounted /\ \A t \in Tasks \ used : reported[t] = 0
  BY <1>1, TaskBoardAssumption DEF Init, TokensAccounted
<1>3. \A r \in Requests : UpToDate(req[r])
  BY DEF Init, UpToDate, Idle
<1>4. QED
  BY <1>2, <1>3 DEF SequentialInv

(* A step that reads and prepares leaves the request up to date.            *)
LEMMA ReadStepsUpToDate ==
  ASSUME TypeInv, SequentialInv, NEW r \in Requests, ReadStep(r)
  PROVE  UpToDate(req[r])'
<1>0. /\ req \in [Requests -> Request] /\ req[r] \in Request /\ req[r].task \in Tasks
      /\ \A t \in Tasks : row[t] \in Row /\ row[t].tokens \in Nat
      /\ 0 \in Nat /\ "todo" \in Columns
      /\ \A n \in Nat : n + 0 = n
      /\ \A u \in 0 .. MaxUsage : u \in Nat
  BY TaskBoardAssumption DEF TypeInv, TypeOK, Request, Row, Columns
<1>1. UNCHANGED board
  BY ReadStepsPrepare DEF TypeInv, Prepared
<1>2. ASSUME NEW q, req'[r] = q, UpToDate(q)
      PROVE  UpToDate(req[r])'
  BY <1>1, <1>2 DEF board, UpToDate, Intended, HasUnresolvedDependencies
<1>3. UpToDate(req[r])
  BY DEF SequentialInv
<1>i. \A q : q.step \notin {"check_deps", "write", "delete", "recreate"} => UpToDate(q)
  BY DEF UpToDate
<1>f. ASSUME Finish(r) PROVE UpToDate(req[r])'
  <2>1. req'[r] = Idle /\ Idle.step = "idle"
    BY <1>f, <1>0 DEF Finish, Idle
  <2>2. QED
    BY <2>1, <1>i, <1>2
<1>s. ASSUME NEW step, NEW op, NEW t, NEW new, NEW usage, NEW edges,
             Start(r, step, op, t, new, usage, edges),
             \/ step \notin {"check_deps", "write", "delete", "recreate"}
             \/ /\ step \in {"check_deps", "write"}
                /\ t \in live /\ new.tokens = row[t].tokens + usage
                /\ \/ op = "update" /\ new.col = row[t].col
                   \/ op = "complete" /\ ~row[t].isBlocked /\ new.col = "done"
                   \/ op \in {"block", "wont_do"} /\ usage = 0 /\ new.col = "blocked"
                   \/ /\ op \in {"move", "unblock", "approve", "reject"} /\ usage = 0
                      /\ new.col = "in_progress" => op = "move" /\ step = "check_deps"
             \/ step = "delete" /\ op = "delete" /\ t \in live
             \/ /\ step = "delete" /\ t \in live
                /\ new.tokens = row[t].tokens /\ new.col = "todo"
      PROVE  UpToDate(req[r])'
  <2> DEFINE q == [step |-> step, op |-> op, task |-> t,
                   row |-> new, usage |-> usage, edges |-> edges]
  <2>1. req'[r] = q
    BY <1>s, <1>0 DEF Start
  <2>2. UpToDate(q)
    BY <1>s DEF UpToDate, Intended
  <2>3. QED
    BY <2>1, <2>2, <1>2
<1>4. ASSUME NEW t \in Tasks,
             \/ \E u \in 0 .. MaxUsage : UpdateTask(r, t, u) \/ CompleteTask(r, t, u)
             \/ \E c \in Columns : MoveTask(r, t, c)
             \/ BlockTask(r, t)
             \/ UnblockTask(r, t)
             \/ WontDo(r, t)
             \/ ApproveWontDo(r, t)
             \/ RejectWontDo(r, t)
             \/ MarkTaskSeen(r, t)
             \/ DeleteTask(r, t)
             \/ MoveTaskToProject(r, t)
             \/ \E d \in Tasks : AddDependency(r, t, d)
      PROVE  UpToDate(req[r])'
  <2>1. CASE \E u \in 0 .. MaxUsage : UpdateTask(r, t, u)
    BY <2>1, <1>0, <1>s, OperationsPlace, OperationsCountTokens DEF UpdateTask, Found
  <2>2. CASE \E u \in 0 .. MaxUsage : CompleteTask(r, t, u)
    BY <2>2, <1>0, <1>s, OperationsPlace, OperationsCountTokens DEF CompleteTask, CanComplete, Found
  <2>3. CASE \E c \in Columns : MoveTask(r, t, c)
    BY <2>3, <1>0, <1>s, OperationsPlace, OperationsCountTokens DEF MoveTask, Found
  <2>4. CASE BlockTask(r, t)
    BY <2>4, <1>0, <1>s, OperationsPlace, OperationsCountTokens DEF BlockTask, Found
  <2>5. CASE UnblockTask(r, t)
    BY <2>5, <1>s DEF UnblockTask
  <2>6. CASE WontDo(r, t)
    BY <2>6, <1>0, <1>s, OperationsPlace, OperationsCountTokens DEF WontDo, Found
  <2>7. CASE ApproveWontDo(r, t)
    BY <2>7, <1>0, <1>s, OperationsPlace, OperationsCountTokens DEF ApproveWontDo, Found
  <2>8. CASE RejectWontDo(r, t)
    BY <2>8, <1>0, <1>s, OperationsPlace, OperationsCountTokens DEF RejectWontDo, Found
  <2>9. CASE MarkTaskSeen(r, t)
    BY <2>9, <1>s DEF MarkTaskSeen
  <2>10. CASE DeleteTask(r, t)
    BY <2>10, <1>s DEF DeleteTask, Found
  <2>11. CASE MoveTaskToProject(r, t)
    BY <2>11, <1>0, <1>s, OperationsPlace, OperationsCountTokens DEF MoveTaskToProject, Found
  <2>12. CASE \E d \in Tasks : AddDependency(r, t, d)
    BY <2>12, <1>s DEF AddDependency
  <2>13. QED
    BY <1>4, <2>1, <2>2, <2>3, <2>4, <2>5, <2>6, <2>7, <2>8, <2>9, <2>10, <2>11, <2>12
<1>5. CASE ContinueUnblock(r)
  BY <1>5, <1>0, <1>s, <1>f, OperationsPlace, OperationsCountTokens
     DEF ContinueUnblock, Reload, Found
<1>6. CASE ContinueWontDo(r)
  BY <1>6, <1>0, <1>s, <1>f, OperationsPlace, OperationsCountTokens
     DEF ContinueWontDo, Reload, Found
<1>7. CASE ContinueEstimate(r)
  BY <1>7, <1>0, <1>s, <1>f, OperationsPlace, OperationsCountTokens
     DEF ContinueEstimate, Reload, Found
<1>g. ASSUME NEW step, Goto(r, step)
      PROVE  /\ req'[r].step = step /\ req'[r].op = req[r].op /\ req'[r].task = req[r].task
             /\ req'[r].row = req[r].row /\ req'[r].usage = req[r].usage
  BY <1>g, <1>0 DEF Goto, Request
<1>8. CASE CheckDependencies(r)
  <2>1. CASE HasUnresolvedDependencies(req[r].task)
    BY <1>8, <2>1, <1>f DEF CheckDependencies
  <2>2. CASE ~HasUnresolvedDependencies(req[r].task)
    <3>1. Goto(r, "write") /\ req[r].step = "check_deps"
      BY <1>8, <2>2 DEF CheckDependencies
    <3>2. UpToDate(req'[r])
      BY <3>1, <1>g, <1>3, <2>2 DEF UpToDate, Intended
    <3>3. QED
      BY <3>2, <1>2
  <2>3. QED
    BY <2>1, <2>2
<1>9. CASE PostComment(r)
  <2>1. CASE req[r].op = "wont_do"
    BY <1>9, <2>1, <1>g, <1>i, <1>2 DEF PostComment
  <2>2. CASE req[r].op # "wont_do"
    BY <1>9, <2>2, <1>f DEF PostComment
  <2>3. QED
    BY <2>1, <2>2
<1>10. CASE CheckCycle(r)
  <2>1. Finish(r) \/ Goto(r, "link")
    BY <1>10 DEF CheckCycle
  <2>2. QED
    BY <2>1, <1>g, <1>f, <1>i, <1>2
<1>11. CASE WriteFails(r) \/ Abort(r)
  BY <1>11, <1>f DEF WriteFails, Abort
<1>12. QED
  BY <1>4, <1>5, <1>6, <1>7, <1>8, <1>9, <1>10, <1>11 DEF ReadStep

(* Every step of the one request keeps them.                                *)
LEMMA SequentialInvNext ==
  OneAtATime /\ TypeInv /\ SequentialInv /\ [Next]_vars => SequentialInv'
<1>1. CASE UNCHANGED vars
  BY <1>1 DEF vars, SequentialInv, TokensAccounted, UpToDate, Intended, HasUnresolvedDependencies
<1>2. ASSUME OneAtATime, TypeInv, SequentialInv,
             NEW r \in Requests, Begin(r) \/ Proceed(r) \/ Abort(r)
      PROVE  SequentialInv'
  <2> USE <1>2
  <2>0. /\ req \in [Requests -> Request] /\ req[r] \in Request /\ req[r].task \in Tasks
        /\ req[r].row \in Row /\ req[r].usage \in Nat
        /\ row \in [Tasks -> Row] /\ reported \in [Tasks -> Nat]
        /\ \A t \in Tasks : row[t] \in Row /\ row[t].tokens \in Nat
        /\ live \subseteq used /\ used \subseteq Tasks
        /\ \A s \in Requests : s = r
        /\ 0 \in Nat /\ "todo" \in Columns
    BY TaskBoardAssumption DEF TypeInv, TypeOK, Request, Row, OneAtATime, Columns
  <2>n. \A c : NewRow(c).tokens = 0
    BY DEF NewRow
  <2>i. Idle.step = "idle"
    BY DEF Idle
  <2>u. UpToDate(req[r]) /\ (\A t \in live : row[t].tokens = reported[t])
        /\ \A t \in Tasks \ used : reported[t] = 0
    BY DEF SequentialInv, TokensAccounted
  <2>q. SUFFICES ASSUME TRUE
                 PROVE  /\ \A t \in live' : row'[t].tokens = reported'[t]
                        /\ \A t \in Tasks \ used' : reported'[t] = 0
                        /\ UpToDate(req[r])'
    BY <2>0 DEF SequentialInv, TokensAccounted
  <2>w. ASSUME req'[r].step \notin {"check_deps", "write", "delete", "recreate"}
        PROVE  UpToDate(req[r])'
    BY <2>w DEF UpToDate
  <2>1. CASE ReadStep(r)
    <3>1. UNCHANGED board
      BY <2>1, ReadStepsPrepare DEF TypeInv, Prepared
    <3>2. QED
      BY <3>1, <2>1, <2>u, ReadStepsUpToDate DEF board
  <2>2. CASE Creation(r)
    <3>1. CASE \E t \in Tasks, c \in {"todo", "backlog"} : CreateTask(r, t, c)
      BY <3>1, <2>0, <2>n, <2>u, <2>w DEF CreateTask, Free
    <3>2. ASSUME NEW new \in SUBSET (Tasks \ used), NEW backlog \in SUBSET new,
                 NEW edges \in SUBSET (new \X live), BulkCreateTasks(r, new, backlog, edges)
          PROVE  /\ \A t \in live' : row'[t].tokens = reported'[t]
                 /\ \A t \in Tasks \ used' : reported'[t] = 0
                 /\ UpToDate(req[r])'
      <4>1. req'[r].step \in {"idle", "link"}
        BY <3>2, <2>0 DEF BulkCreateTasks, Start, Free
      <4>2. \A t \in live' : row'[t].tokens = reported'[t]
        BY <3>2, <2>0, <2>n, <2>u DEF BulkCreateTasks
      <4>3. \A t \in Tasks \ used' : reported'[t] = 0
        BY <3>2, <2>u DEF BulkCreateTasks
      <4>4. QED
        BY <4>1, <4>2, <4>3, <2>w
    <3>3. QED
      BY <2>2, <3>1, <3>2 DEF Creation
  <2>3. CASE WriteRow(r)
    <3>1. /\ row' = [row EXCEPT ![req[r].task] = WrittenOver(row[req[r].task], req[r].row)]
          /\ reported' = [reported EXCEPT ![req[r].task] = @ + req[r].usage]
          /\ req[r].step = "write" /\ UNCHANGED <<live, used>>
      BY <2>3 DEF WriteRow
    <3>2. WrittenOver(row[req[r].task], req[r].row).tokens = req[r].row.tokens
      BY <2>0, OperationsCountTokens
    <3>3. /\ req[r].task \in live
          /\ req[r].row.tokens = row[req[r].task].tokens + req[r].usage
      BY <3>1, <2>u DEF UpToDate, Intended
    <3>4. req'[r].step \in {"idle", "comment", "estimate"}
      BY <2>3, <2>0, <2>i DEF WriteRow, Followup, Start, Finish
    <3>5. \A t \in live : row'[t].tokens = reported'[t]
      BY <3>1, <3>2, <3>3, <2>0, <2>u
    <3>6. QED
      BY <3>1, <3>3, <3>4, <3>5, <2>0, <2>u, <2>w
  <2>4. CASE MarkSeenRow(r)
    <3>1. Seen(row[req[r].task]).tokens = row[req[r].task].tokens
      BY <2>0, OperationsCountTokens
    <3>2. \A t \in Tasks : row'[t].tokens = row[t].tokens
      BY <2>4, <2>0, <3>1 DEF MarkSeenRow
    <3>3. req'[r].step = "idle"
      BY <2>4, <2>0, <2>i DEF MarkSeenRow, Finish
    <3>4. UNCHANGED <<live, used, reported>>
      BY <2>4 DEF MarkSeenRow
    <3>5. QED
      BY <3>2, <3>3, <3>4, <2>0, <2>u, <2>w
  <2>5. CASE SessionUpdate(r)
    <3>1. PICK t \in Tasks, session \in BOOLEAN : UpdateTaskSession(r, t, session)
      BY <2>5 DEF SessionUpdate
    <3>2. [row[t] EXCEPT !.session = session].tokens = row[t].tokens
      BY <2>0 DEF Row
    <3>3. \A x \in Tasks : row'[x].tokens = row[x].tokens
      BY <3>1, <3>2, <2>0 DEF UpdateTaskSession
    <3>4. UNCHANGED <<live, used, reported, req>> /\ req[r].step = "idle"
      BY <3>1 DEF UpdateTaskSession, Free
    <3>5. QED
      BY <3>3, <3>4, <2>0, <2>u, <2>w
  <2>6. CASE DeleteRow(r)
    <3> DEFINE t == req[r].task
    <3>1. req[r].step = "delete" /\ t \in live /\ UNCHANGED <<used, reported>>
      BY <2>6, <2>u DEF DeleteRow, UpToDate
    <3>2. /\ live' = live \ {t} /\ row' = [row EXCEPT ![t] = NewRow("todo")]
          /\ IF req[r].op = "transfer" THEN Goto(r, "recreate") ELSE Finish(r)
      BY <2>6, <3>1 DEF DeleteRow
    <3>3. \A x \in live' : row'[x].tokens = reported'[x]
      BY <3>1, <3>2, <2>0, <2>u
    <3>4. CASE req[r].op = "transfer"
      <4>1. /\ req'[r].step = "recreate" /\ req'[r].row = req[r].row
            /\ req'[r].task = req[r].task
        BY <3>2, <3>4, <2>0 DEF Goto, Request
      <4>2. req[r].row.tokens = reported[t] /\ req[r].row.col = "todo"
        BY <3>1, <3>4, <2>u DEF UpToDate
      <4>3. UpToDate(req[r])'
        BY <4>1, <4>2, <3>1 DEF UpToDate
      <4>4. QED
        BY <3>1, <3>3, <4>3, <2>u
    <3>5. CASE req[r].op # "transfer"
      <4>1. req'[r].step = "idle"
        BY <3>2, <3>5, <2>0, <2>i DEF Finish
      <4>2. QED
        BY <3>1, <3>3, <4>1, <2>u, <2>w
    <3>6. QED
      BY <3>4, <3>5
  <2>7. CASE \E t \in Tasks : RecreateTask(r, t)
    <3>1. PICK t \in Tasks : RecreateTask(r, t)
      BY <2>7
    <3>2. /\ req[r].step = "recreate" /\ t \notin used
          /\ live' = live \cup {t} /\ used' = used \cup {t}
          /\ row' = [row EXCEPT ![t] = req[r].row]
          /\ reported' = [reported EXCEPT ![t] = reported[req[r].task]]
          /\ req'[r].step = "idle"
      BY <3>1, <2>0, <2>i DEF RecreateTask, Finish
    <3>3. req[r].row.tokens = reported[req[r].task]
      BY <3>2, <2>u DEF UpToDate
    <3>4. QED
      BY <3>2, <3>3, <2>0, <2>u, <2>w
  <2>8. CASE \E e \in Tasks \X Tasks : InsertDependency(r, e)
    <3>1. UNCHANGED <<live, used, row, reported>>
      BY <2>8 DEF InsertDependency
    <3>2. req'[r].step \in {"idle", "link"}
      BY <2>8, <2>0, <2>i DEF InsertDependency, Finish, Request
    <3>3. QED
      BY <3>1, <3>2, <2>u, <2>w
  <2>9. CASE \E e \in Tasks \X Tasks : RemoveDependency(r, e)
    BY <2>9, <2>u, <2>w DEF RemoveDependency, Free
  <2>10. QED
    BY StepKinds, <2>1, <2>2, <2>3, <2>4, <2>5, <2>6, <2>7, <2>8, <2>9
<1>3. QED
  BY <1>1, <1>2 DEF Next

(* The invariants of the requests that run one after the other.             *)
LEMMA SequentialInvariant ==
  ASSUME OneAtATime
  PROVE  Spec => [](TypeInv /\ SequentialInv)
<1>1. Init => TypeInv /\ SequentialInv
  BY TypeInvInit, SequentialInvInit
<1>2. TypeInv /\ SequentialInv /\ [Next]_vars => TypeInv' /\ SequentialInv'
  BY TypeInvNext, SequentialInvNext
<1>3. QED
  BY <1>1, <1>2, PTL DEF Spec

(* Requests that run one after the other lose no usage: each accepted       *)
(* report is in the row, also after the task has moved to another project.  *)
THEOREM SequentialTokensAccounted ==
  ASSUME OneAtATime
  PROVE  Spec => []TokensAccounted
<1>1. SequentialInv => TokensAccounted
  BY DEF SequentialInv
<1>2. QED
  BY <1>1, SequentialInvariant, PTL

---------------------------------------------------------------------------
(* What the steps do to the board as its users see it: which tasks there    *)
(* are, in which column, what they depend on and what was spent on them.    *)
Unseen ==
  /\ UNCHANGED <<live, deps>>
  /\ \A t \in Tasks : row'[t].col = row[t].col /\ row'[t].tokens = row[t].tokens

Arrival ==
  \E new \in SUBSET (Tasks \ used) :
    /\ new # {} /\ live' = live \cup new /\ deps' = deps
    /\ \A t \in new : row'[t].col \in {"backlog", "todo"} /\ row'[t].tokens \in Nat
    /\ \A t \in Tasks \ new : row'[t] = row[t]

Departure ==
  \E t \in live :
    /\ live' = live \ {t} /\ deps' = WithoutTask(deps, t)
    /\ row' = [row EXCEPT ![t] = NewRow("todo")]

NewEdge ==
  /\ UNCHANGED <<live, row>>
  /\ \E e \in Tasks \X Tasks : /\ e[1] \in live /\ e[2] \in live
                               /\ ~WouldCreateCycle(Tasks, deps, e[1], e[2])
                               /\ deps' = deps \cup {e}

NoEdge == UNCHANGED <<live, row>> /\ \E e \in deps : deps' = deps \ {e}

(* The write of a request that is up to date.                               *)
Written(q) ==
  /\ q.step = "write" /\ q.task \in live /\ Intended(q, row[q.task])
  /\ q.op = "move" /\ q.row.col = "in_progress" => ~HasUnresolvedDependencies(q.task)
  /\ UNCHANGED <<live, deps>>
  /\ \A t \in Tasks \ {q.task} : row'[t] = row[t]
  /\ row'[q.task].col = q.row.col /\ row'[q.task].tokens = q.row.tokens

(* Whatever one request does, its users see one of these changes.           *)
LEMMA StepsOnBoard ==
  ASSUME OneAtATime, TypeInv, GraphInv, SequentialInv,
         NEW r \in Requests, Begin(r) \/ Proceed(r) \/ Abort(r)
  PROVE  \/ Unseen \/ Arrival \/ Departure \/ NewEdge \/ NoEdge
         \/ Written(req[r]) /\ req'[r] # req[r]
<1>0. /\ req \in [Requests -> Request] /\ req[r] \in Request /\ req[r].task \in Tasks
      /\ req[r].row \in Row /\ req[r].edges \subseteq Tasks \X Tasks
      /\ row \in [Tasks -> Row]
      /\ \A t \in Tasks : row[t] \in Row
      /\ live \subseteq used /\ used \subseteq Tasks /\ deps \subseteq Tasks \X Tasks
      /\ 0 \in Nat /\ "todo" \in Columns /\ "backlog" \in Columns
      /\ \A new \in Row : new.tokens \in Nat
  BY TaskBoardAssumption DEF TypeInv, TypeOK, Request, Row, Columns
<1>n. \A c : NewRow(c).tokens = 0 /\ NewRow(c).col = c
  BY DEF NewRow
<1>i. Idle.step = "idle"
  BY DEF Idle
<1>u. UpToDate(req[r])
  BY DEF SequentialInv
<1>1. CASE ReadStep(r)
  BY <1>1, ReadStepsPrepare DEF TypeInv, Prepared, board, Unseen
<1>2. CASE Creation(r)
  <2>1. ASSUME NEW t \in Tasks, NEW c \in {"todo", "backlog"}, CreateTask(r, t, c)
        PROVE  Arrival
    <3>1. {t} \in SUBSET (Tasks \ used) /\ {t} # {}
      BY <2>1 DEF CreateTask
    <3>2. row'[t].col \in {"backlog", "todo"} /\ row'[t].tokens \in Nat
      BY <2>1, <1>0, <1>n DEF CreateTask
    <3>3. \A x \in Tasks \ {t} : row'[x] = row[x]
      BY <2>1, <1>0 DEF CreateTask
    <3>4. QED
      BY <2>1, <3>1, <3>2, <3>3 DEF CreateTask, Arrival
  <2>2. ASSUME NEW new \in SUBSET (Tasks \ used), NEW backlog \in SUBSET new,
               NEW edges \in SUBSET (new \X live), BulkCreateTasks(r, new, backlog, edges)
        PROVE  Arrival
    <3>1. \A t \in new : row'[t].col \in {"backlog", "todo"} /\ row'[t].tokens \in Nat
      BY <2>2, <1>0, <1>n DEF BulkCreateTasks
    <3>2. \A t \in Tasks \ new : row'[t] = row[t]
      BY <2>2, <1>0 DEF BulkCreateTasks
    <3>3. QED
      BY <2>2, <3>1, <3>2 DEF BulkCreateTasks, Arrival
  <2>3. QED
    BY <1>2, <2>1, <2>2 DEF Creation
<1>3. CASE WriteRow(r)
  <2>1. /\ row' = [row EXCEPT ![req[r].task] = WrittenOver(row[req[r].task], req[r].row)]
        /\ req[r].step = "write" /\ UNCHANGED <<live, deps>>
    BY <1>3 DEF WriteRow
  <2>2. LET new == WrittenOver(row[req[r].task], req[r].row) IN
        new.tokens = req[r].row.tokens /\ new.col = req[r].row.col
    BY <1>0, OperationsCountTokens, OperationsPlace
  <2>3. /\ req[r].task \in live /\ Intended(req[r], row[req[r].task])
        /\ req[r].op = "move" /\ req[r].row.col = "in_progress" =>
             ~HasUnresolvedDependencies(req[r].task)
    BY <2>1, <1>u DEF UpToDate
  <2>4. req'[r].step \in {"idle", "comment", "estimate"}
    BY <1>3, <1>0, <1>i DEF WriteRow, Followup, Start, Finish
  <2>5. Written(req[r])
    BY <2>1, <2>2, <2>3, <1>0 DEF Written
  <2>6. QED
    BY <2>1, <2>4, <2>5
<1>4. CASE MarkSeenRow(r)
  <2>1. LET old == row[req[r].task] IN Seen(old).tokens = old.tokens /\ Seen(old).col = old.col
    BY <1>0, OperationsCountTokens, OperationsPlace
  <2>2. \A t \in Tasks : row'[t].col = row[t].col /\ row'[t].tokens = row[t].tokens
    BY <1>4, <1>0, <2>1 DEF MarkSeenRow
  <2>3. QED
    BY <1>4, <2>2 DEF MarkSeenRow, Unseen
<1>5. CASE SessionUpdate(r)
  <2>1. PICK t \in Tasks, session \in BOOLEAN : UpdateTaskSession(r, t, session)
    BY <1>5 DEF SessionUpdate
  <2>2. LET new == [row[t] EXCEPT !.session = session] IN
        new.tokens = row[t].tokens /\ new.col = row[t].col
    BY <1>0 DEF Row
  <2>3. \A x \in Tasks : row'[x].col = row[x].col /\ row'[x].tokens = row[x].tokens
    BY <2>1, <2>2, <1>0 DEF UpdateTaskSession
  <2>4. QED
    BY <2>1, <2>3 DEF UpdateTaskSession, Unseen
<1>6. CASE DeleteRow(r)
  BY <1>6 DEF DeleteRow, Departure, Unseen
<1>7. CASE \E t \in Tasks : RecreateTask(r, t)
  <2>1. PICK t \in Tasks : RecreateTask(r, t)
    BY <1>7
  <2>2. /\ req[r].step = "recreate" /\ t \notin used
        /\ live' = live \cup {t} /\ deps' = deps /\ row' = [row EXCEPT ![t] = req[r].row]
    BY <2>1 DEF RecreateTask
  <2>3. req[r].row.col = "todo" /\ req[r].row.tokens \in Nat
    BY <2>2, <1>u, <1>0 DEF UpToDate
  <2>4. {t} \in SUBSET (Tasks \ used) /\ {t} # {}
    BY <2>2
  <2>5. /\ row'[t].col \in {"backlog", "todo"} /\ row'[t].tokens \in Nat
        /\ \A x \in Tasks \ {t} : row'[x] = row[x]
    BY <2>2, <2>3, <1>0
  <2>6. QED
    BY <2>2, <2>4, <2>5 DEF Arrival
<1>8. CASE \E e \in Tasks \X Tasks : InsertDependency(r, e)
  <2>1. PICK e \in Tasks \X Tasks : InsertDependency(r, e)
    BY <1>8
  <2>2. CASE Insertable(e)
    <3>1. ~WouldCreateCycle(Tasks, deps, e[1], e[2])
      BY <2>1, <2>2, SafeLink DEF InsertDependency
    <3>2. QED
      BY <2>1, <2>2, <3>1 DEF InsertDependency, Insertable, NewEdge
  <2>3. CASE ~Insertable(e)
    BY <2>1, <2>3 DEF InsertDependency, Unseen
  <2>4. QED
    BY <2>2, <2>3
<1>9. CASE \E e \in Tasks \X Tasks : RemoveDependency(r, e)
  BY <1>9 DEF RemoveDependency, NoEdge
<1>10. QED
  BY StepKinds, <1>1, <1>2, <1>3, <1>4, <1>5, <1>6, <1>7, <1>8, <1>9

(* The three invariants of requests that run one after the other.           *)
LEMMA OneByOne ==
  ASSUME OneAtATime
  PROVE  Spec => [](TypeInv /\ GraphInv /\ SequentialInv)
<1>1. Init => TypeInv /\ GraphInv /\ SequentialInv
  BY TypeInvInit, GraphInvInit, SequentialInvInit
<1>2. TypeInv /\ GraphInv /\ SequentialInv /\ [Next]_vars =>
        TypeInv' /\ GraphInv' /\ SequentialInv'
  BY TypeInvNext, GraphInvNext, SequentialInvNext
<1>3. QED
  BY <1>1, <1>2, PTL DEF Spec

(* Requests that run one after the other start a task only when everything  *)
(* it depends on is done: nothing changes between the check of MoveTask and *)
(* its write.                                                               *)
THEOREM SequentialStartsAfterDependencies ==
  ASSUME OneAtATime
  PROVE  Spec => StartsAfterDependencies
<1> DEFINE Ready ==
      \A t \in live \cap live' :
        row[t].col # "in_progress" /\ row'[t].col = "in_progress"
          => ~HasUnresolvedDependencies(t)
<1>1. ASSUME TypeInv, GraphInv, SequentialInv,
             NEW r \in Requests, Begin(r) \/ Proceed(r) \/ Abort(r)
      PROVE  Ready
  <2>0. live \subseteq used /\ used \subseteq Tasks /\ row \in [Tasks -> Row]
    BY <1>1 DEF TypeInv, TypeOK
  <2>1. CASE Unseen \/ NewEdge \/ NoEdge
    BY <2>0, <2>1 DEF Unseen, NewEdge, NoEdge
  <2>2. CASE Arrival
    BY <2>0, <2>2 DEF Arrival
  <2>3. CASE Departure
    BY <2>0, <2>3 DEF Departure
  <2>4. CASE Written(req[r])
    BY <2>0, <2>4 DEF Written, Intended
  <2>5. QED
    BY <1>1, <2>1, <2>2, <2>3, <2>4, StepsOnBoard
<1>2. TypeInv /\ GraphInv /\ SequentialInv /\ [Next]_vars => [Ready]_vars
  BY <1>1 DEF Next
<1>3. QED
  BY <1>2, OneByOne, PTL DEF Spec, StartsAfterDependencies

(* Requests that run one after the other leave a task blocked until one     *)
(* moves it, unblocks it or answers a won't-do request: no report on a task *)
(* lifts its block.                                                         *)
THEOREM SequentialBlockIsLiftedExplicitly ==
  ASSUME OneAtATime
  PROVE  Spec => BlockIsLiftedExplicitly
<1> DEFINE Explicit ==
      \A t \in live \cap live' :
        row[t].col = "blocked" /\ row'[t].col # "blocked"
          => \E r \in Requests : /\ req[r].task = t
                                 /\ req[r].op \in {"move", "unblock", "approve", "reject"}
                                 /\ req'[r] # req[r]
<1>1. ASSUME TypeInv, GraphInv, SequentialInv, RowsConsistent,
             NEW r \in Requests, Begin(r) \/ Proceed(r) \/ Abort(r)
      PROVE  Explicit
  <2>0. live \subseteq used /\ used \subseteq Tasks /\ row \in [Tasks -> Row]
    BY <1>1 DEF TypeInv, TypeOK
  <2>1. CASE Unseen \/ NewEdge \/ NoEdge
    BY <2>0, <2>1 DEF Unseen, NewEdge, NoEdge
  <2>2. CASE Arrival
    BY <2>0, <2>2 DEF Arrival
  <2>3. CASE Departure
    BY <2>0, <2>3 DEF Departure
  <2>4. CASE Written(req[r]) /\ req'[r] # req[r]
    <3>1. \A t \in live : row[t].isBlocked <=> row[t].col = "blocked"
      BY <1>1 DEF RowsConsistent, RowConsistent, BlockedFlagIsColumn
    <3>2. QED
      BY <2>0, <2>4, <3>1 DEF Written, Intended
  <2>5. QED
    BY <1>1, <2>1, <2>2, <2>3, <2>4, StepsOnBoard
<1>2. TypeInv /\ GraphInv /\ SequentialInv /\ RowsConsistent /\ [Next]_vars => [Explicit]_vars
  BY <1>1 DEF Next
<1>3. QED
  BY <1>2, OneByOne, RowsAlwaysConsistent, PTL DEF Spec, BlockIsLiftedExplicitly

---------------------------------------------------------------------------
(* The board as TaskLifecycle has it.                                       *)
Status == [t \in Tasks |-> IF t \in live THEN row[t].col ELSE "absent"]

Spent == [t \in Tasks |-> row[t].tokens]

(* The tasks that are present are the rows there are.                       *)
LEMMA PresentAreLive == ASSUME TypeInv PROVE Lifecycle!Present = live
<1>1. \A t \in Tasks : row[t].col \in Columns /\ "absent" \notin Columns
  BY DEF TypeInv, TypeOK, Row, Columns
<1>2. QED
  BY <1>1 DEF Lifecycle!Present, TypeInv, TypeOK

(* The empty board, or the one that is there at the start, is one that      *)
(* TaskLifecycle starts with.                                               *)
LEMMA LifecycleInit == Init => Lifecycle!Init
<1>1. NewRow("todo").col = "todo" /\ NewRow("todo").tokens = 0
  BY DEF NewRow
<1>2. QED
  BY <1>1 DEF Init, Lifecycle!Init

(* A step that nobody sees is a stuttering step.                            *)
LEMMA UnseenStutters ==
  ASSUME Unseen
  PROVE  UNCHANGED <<Status, deps, Spent>>
BY DEF Unseen, Status, Spent

(* New tasks are created by the operation of the lifecycle.                 *)
LEMMA ArrivalCreates ==
  ASSUME TypeInv, Arrival
  PROVE  Lifecycle!Next
<1>1. PICK new \in SUBSET (Tasks \ used) :
        /\ new # {} /\ live' = live \cup new /\ deps' = deps
        /\ \A t \in new : row'[t].col \in {"backlog", "todo"} /\ row'[t].tokens \in Nat
        /\ \A t \in Tasks \ new : row'[t] = row[t]
  BY DEF Arrival
<1>2. new \cap Lifecycle!Present = {}
  BY PresentAreLive DEF TypeInv, TypeOK
<1>3. Lifecycle!Create(new)
  BY <1>1, <1>2 DEF Lifecycle!Create
<1>4. new \in SUBSET Tasks
  OBVIOUS
<1>5. QED
  BY <1>3, <1>4 DEF Lifecycle!Next

(* A task that is deleted leaves with its edges, and is then unknown.       *)
LEMMA DepartureRemoves ==
  ASSUME TypeInv, Departure
  PROVE  Lifecycle!Next
<1>1. PICK t \in live :
        /\ live' = live \ {t} /\ deps' = WithoutTask(deps, t)
        /\ row' = [row EXCEPT ![t] = NewRow("todo")]
  BY DEF Departure
<1>2. NewRow("todo").tokens = 0
  BY DEF NewRow
<1>3. row \in [Tasks -> Row] /\ t \in Tasks /\ live \subseteq Tasks
  BY DEF TypeInv, TypeOK
<1>4. Status' = [Status EXCEPT ![t] = "absent"]
  BY <1>1, <1>3 DEF Status
<1>5. Spent' = [Spent EXCEPT ![t] = 0]
  BY <1>1, <1>2, <1>3 DEF Spent
<1>6. Lifecycle!Remove(t)
  BY <1>1, <1>4, <1>5 DEF Lifecycle!Remove, Lifecycle!Place, Lifecycle!WithoutTask, WithoutTask,
                          Status, Spent
<1>7. QED
  BY <1>6, PresentAreLive DEF Lifecycle!Next

(* An edge that passed the cycle check is linked, one of those there is     *)
(* unlinked.                                                                *)
LEMMA EdgesChange ==
  ASSUME TypeInv, NewEdge \/ NoEdge
  PROVE  Lifecycle!Next
<1>1. live' = live /\ row' = row
  BY DEF NewEdge, NoEdge
<1>2. UNCHANGED <<Status, Spent>>
  BY <1>1 DEF Status, Spent
<1>3. CASE NewEdge
  <2>1. PICK e \in Tasks \X Tasks : /\ e[1] \in live /\ e[2] \in live
                                    /\ ~WouldCreateCycle(Tasks, deps, e[1], e[2])
                                    /\ deps' = deps \cup {e}
    BY <1>3 DEF NewEdge
  <2>2. e = <<e[1], e[2]>>
    OBVIOUS
  <2>3. ~Lifecycle!WouldCreateCycle(Tasks, deps, e[1], e[2])
    BY <2>1 DEF Lifecycle!WouldCreateCycle, WouldCreateCycle, Lifecycle!Reachable, Reachable,
                Lifecycle!ClosedUnder, ClosedUnder, Lifecycle!DirectDependencies,
                DirectDependencies
  <2>4. Lifecycle!Link(e[1], e[2])
    BY <1>2, <2>1, <2>2, <2>3, PresentAreLive DEF Lifecycle!Link, Status, Spent
  <2>5. QED
    BY <2>1, <2>4, PresentAreLive DEF Lifecycle!Next
<1>4. CASE NoEdge
  <2>1. PICK e \in deps : deps' = deps \ {e}
    BY <1>4 DEF NoEdge
  <2>2. Lifecycle!Unlink(e)
    BY <1>2, <2>1 DEF Lifecycle!Unlink, Status, Spent
  <2>3. QED
    BY <2>2 DEF Lifecycle!Next
<1>5. QED
  BY <1>3, <1>4

(* What can be done to a task that is present.                              *)
LEMMA OperationsOnPresent ==
  ASSUME NEW t \in Lifecycle!Present,
         \/ Lifecycle!Begin(t) \/ Lifecycle!Block(t)
         \/ \E c \in {"backlog", "todo", "done"} : Lifecycle!PutAt(t, c)
         \/ \E u \in 0 .. MaxUsage : Lifecycle!Report(t, u) \/ Lifecycle!Complete(t, u)
  PROVE  Lifecycle!Next
BY DEF Lifecycle!Next

(* A write of a request that is up to date is the operation done at once.   *)
LEMMA WriteOperates ==
  ASSUME TypeInv, GraphInv, RowsConsistent, NEW r \in Requests, Written(req[r])
  PROVE  Lifecycle!Next \/ UNCHANGED <<Status, deps, Spent>>
<1>q. PICK q : q = req[r]
  OBVIOUS
<1> DEFINE t == q.task
<1>0. /\ q.row.col \in Columns /\ q.usage \in 0 .. MaxUsage
      /\ \A x \in Tasks : row[x].tokens \in Nat /\ row[x].col \in Columns
      /\ t \in Tasks /\ live \subseteq Tasks /\ "absent" \notin Columns
      /\ q.row.tokens \in Nat /\ q.usage \in Nat
  BY <1>q, TaskBoardAssumption DEF TypeInv, TypeOK, Request, Row, Columns
<1>1. /\ t \in live /\ Intended(q, row[t]) /\ live' = live /\ deps' = deps
      /\ \A x \in Tasks \ {t} : row'[x] = row[x]
      /\ row'[t].col = q.row.col /\ row'[t].tokens = q.row.tokens
      /\ q.op = "move" /\ q.row.col = "in_progress" => ~HasUnresolvedDependencies(t)
  BY <1>q DEF Written
<1>2. Status' = [Status EXCEPT ![t] = q.row.col]
  BY <1>0, <1>1 DEF Status
<1>3. Spent' = [Spent EXCEPT ![t] = @ + q.usage]
  BY <1>0, <1>1 DEF Spent, Intended
<1>4. t \in Lifecycle!Present /\ Status[t] = row[t].col
  BY <1>0, <1>1, PresentAreLive DEF Status
<1>5. ASSUME q.usage = 0 PROVE Spent' = Spent
  BY <1>0, <1>3, <1>5 DEF Spent
<1>6. CASE q.op = "update" /\ q.row.col = row[t].col
  <2>1. Status' = Status
    BY <1>2, <1>4, <1>6, <1>0 DEF Status
  <2>2. Lifecycle!Report(t, q.usage)
    BY <1>1, <1>3, <2>1 DEF Lifecycle!Report, Status, Spent
  <2>3. QED
    BY <1>0, <1>4, <2>2, OperationsOnPresent
<1>7. CASE q.op = "complete" /\ ~row[t].isBlocked /\ q.row.col = "done"
  <2>0. row[t].col # "blocked"
    BY <1>1, <1>7 DEF RowsConsistent, RowConsistent, BlockedFlagIsColumn
  <2>1. Lifecycle!Complete(t, q.usage)
    BY <1>1, <1>2, <1>3, <1>4, <1>7, <2>0 DEF Lifecycle!Complete, Lifecycle!Place, Status, Spent
  <2>2. QED
    BY <1>0, <1>4, <2>1, OperationsOnPresent
<1>8. CASE q.usage = 0 /\ q.row.col = "blocked"
  <2>1. CASE row[t].col = "blocked"
    <3>1. Status' = Status
      BY <1>2, <1>4, <1>8, <2>1, <1>0 DEF Status
    <3>2. QED
      BY <1>1, <1>5, <1>8, <3>1
  <2>2. CASE row[t].col # "blocked"
    <3>1. Lifecycle!Block(t)
      BY <1>1, <1>2, <1>4, <1>5, <1>8, <2>2 DEF Lifecycle!Block, Lifecycle!Place, Status, Spent
    <3>2. QED
      BY <1>4, <3>1, OperationsOnPresent
  <2>3. QED
    BY <2>1, <2>2
<1>9. CASE q.usage = 0 /\ q.op = "move" /\ q.row.col = "in_progress"
  <2>1. \A d \in Lifecycle!DirectDependencies(t, deps) : Status[d] = "done"
    <3>1. ASSUME NEW d \in Lifecycle!DirectDependencies(t, deps) PROVE Status[d] = "done"
      <4>1. PICK e \in deps : e[1] = t /\ e[2] = d
        BY <3>1 DEF Lifecycle!DirectDependencies
      <4>2. e = <<t, d>> /\ d \in Tasks /\ d \in live
        BY <4>1 DEF TypeInv, TypeOK, GraphInv, DependenciesJoinTasks
      <4>3. row[d].col = "done"
        BY <1>1, <1>9, <4>2 DEF HasUnresolvedDependencies
      <4>4. QED
        BY <4>2, <4>3 DEF Status
    <3>2. QED
      BY <3>1
  <2>2. Lifecycle!Begin(t)
    BY <1>1, <1>2, <1>5, <1>9, <2>1 DEF Lifecycle!Begin, Lifecycle!Place, Status, Spent
  <2>3. QED
    BY <1>4, <2>2, OperationsOnPresent
<1>10. CASE q.usage = 0 /\ q.row.col \in {"backlog", "todo", "done"}
  <2>1. Lifecycle!PutAt(t, q.row.col)
    BY <1>1, <1>2, <1>5, <1>10 DEF Lifecycle!PutAt, Lifecycle!Place, Status, Spent
  <2>2. QED
    BY <1>4, <1>10, <2>1, OperationsOnPresent
<1>11. QED
  BY <1>0, <1>1, <1>6, <1>7, <1>8, <1>9, <1>10 DEF Intended, Columns

(* Requests that run one after the other behave like the operations of      *)
(* TaskLifecycle done at once, for any tasks and any usage.                 *)
THEOREM SequentialRefinesLifecycle ==
  ASSUME OneAtATime
  PROVE  Spec => RefinesLifecycle
<1>1. ASSUME TypeInv, GraphInv, SequentialInv, RowsConsistent, [Next]_vars
      PROVE  Lifecycle!Next \/ UNCHANGED <<Status, deps, Spent>>
  <2>1. CASE UNCHANGED vars
    BY <2>1 DEF vars, Status, Spent
  <2>2. ASSUME NEW r \in Requests, Begin(r) \/ Proceed(r) \/ Abort(r)
        PROVE  Lifecycle!Next \/ UNCHANGED <<Status, deps, Spent>>
    BY <1>1, <2>2, StepsOnBoard, UnseenStutters, ArrivalCreates, DepartureRemoves, EdgesChange,
       WriteOperates
  <2>3. QED
    BY <1>1, <2>1, <2>2 DEF Next
<1>2. TypeInv /\ GraphInv /\ SequentialInv /\ RowsConsistent /\ [Next]_vars =>
        [Lifecycle!Next]_<<[t \in Tasks |-> IF t \in live THEN row[t].col ELSE "absent"],
                           deps, [t \in Tasks |-> row[t].tokens]>>
  BY <1>1 DEF Status, Spent
<1>3. QED
  BY <1>2, LifecycleInit, OneByOne, RowsAlwaysConsistent, PTL DEF Spec, RefinesLifecycle, Lifecycle!Spec
=============================================================================
