----------------------------- MODULE NextTasks -----------------------------
(***************************************************************************)
(* The query GET /projects/{id}/next-tasks, by which an orchestrator asks  *)
(* for tasks that can be started: one SELECT for the project and, if it    *)
(* asks for them, one for each project directly below, while other         *)
(* requests change the board; then the rows are put in order in memory.    *)
(***************************************************************************)
EXTENDS LiveBoard, Ranking

CONSTANTS
  RoleOf,        \* assigned_role of a task, "" when there is none
  Questions,     \* the queries asked: [project, role, count, below]
  MaxCount       \* maxNextCount

ASSUME NextTasksAssumption ==
  /\ IsFiniteSet(Tasks) /\ Tasks \subseteq DOMAIN CreatedAt
  /\ MaxCount \in Nat \ {0}
  /\ \A q \in Questions :
       q.project \in DOMAIN ChildrenOf /\ q.count \in Int /\ q.below \in BOOLEAN

VARIABLE query   \* the query being answered

NoQuery == [stage |-> "idle"]

FirstOf(list, n) == SubSeq(list, 1, IF n < Len(list) THEN n ELSE Len(list))

(* The WHERE clause: an unassigned task is for every role, and a query
   without a role is for every task. *)
Ready(p, role) ==
  {t \in live : /\ ProjectOf[t] = p
                /\ row[t].col = "todo" /\ ~row[t].isBlocked /\ ~row[t].wontDo
                /\ ~HasUnresolvedDependencies(t)
                /\ role # "" => RoleOf[t] \in {role, ""}}

Asked(q) == IF q.below THEN ToSet(Projects(q.project)) ELSE {q.project}

ReadyFor(q) == UNION {Ready(p, q.role) : p \in Asked(q)}

Limit(q) == IF q.count < 1 THEN 1 ELSE IF q.count > MaxCount THEN MaxCount ELSE q.count

AskNextTasks(q) ==
  /\ Offered("next") /\ query.stage = "idle"
  /\ query' = [stage  |-> "reading",
               asked  |-> q,
               left   |-> IF q.below THEN Projects(q.project) ELSE <<q.project>>,
               rows   |-> {},
               answer |-> <<>>,
               ready  |-> ReadyFor(q),  \* history: whatever was ready meanwhile
               steady |-> TRUE]         \* history: that has not changed
  /\ UNCHANGED liveVars

ReadReady ==
  /\ query.stage = "reading" /\ query.left # <<>>
  /\ LET q == query.asked
         n == IF q.below THEN 10 * Limit(q) ELSE Limit(q)
         found == Foremost(Ready(Head(query.left), q.role), n)
     IN  query' = [query EXCEPT !.left = Tail(@), !.rows = @ \cup found]
  /\ UNCHANGED liveVars

(* The SELECT on a project below fails, and the answer does without it. *)
ReadBelowFails ==
  /\ Offered("fail")
  /\ query.stage = "reading" /\ query.left # <<>>
  /\ Head(query.left) # query.asked.project
  /\ query' = [query EXCEPT !.left = Tail(@), !.steady = FALSE]
  /\ UNCHANGED liveVars

(* The rows were kept in a map, which is listed in any order. *)
AnswerQuery ==
  /\ query.stage = "reading" /\ query.left = <<>>
  /\ \E list \in SetToSeqs(query.rows) :
       query' = [query EXCEPT !.stage = "answered",
                              !.answer = FirstOf(Sorted(list), Limit(query.asked))]
  /\ UNCHANGED liveVars

TakeNextTasks ==
  /\ query.stage = "answered"
  /\ query' = NoQuery
  /\ UNCHANGED liveVars

QueryNext ==
  \/ \E q \in Questions : AskNextTasks(q)
  \/ ReadReady
  \/ ReadBelowFails
  \/ AnswerQuery
  \/ TakeNextTasks

(* What happens to the board while the query is answered. *)
Watch ==
  IF query.stage # "reading" THEN UNCHANGED query
  ELSE \E q \in {query.asked} :
         query' = [query EXCEPT !.ready = @ \cup ReadyFor(q)',
                                !.steady = @ /\ ReadyFor(q)' = ReadyFor(q)]

---------------------------------------------------------------------------
(* The answer names at most as many tasks as were asked for, no task twice, *)
(* the most urgent first and then the oldest; each of them could have been  *)
(* started at some moment of the query, although its parts are read at      *)
(* different moments; and if nothing changed meanwhile, no task that was    *)
(* left out goes before one of them.                                        *)
RankedAnswer ==
  query.stage = "answered" =>
    LET answer == query.answer
        named  == ToSet(answer)
    IN  /\ Len(answer) <= Limit(query.asked)
        /\ \A i, j \in 1 .. Len(answer) : i < j => Precedes(answer[i], answer[j])
        /\ named \subseteq query.ready
        /\ query.steady =>
             \A t \in query.ready \ named :
               /\ Len(answer) = Limit(query.asked)
               /\ \A s \in named : Precedes(s, t)
=============================================================================
