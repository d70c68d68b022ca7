------------------------------ MODULE Ranking ------------------------------
(***************************************************************************)
(* The order in which tasks are offered to an orchestrator, as the SELECT  *)
(* of the repository has it and as the handler has it once more, with two  *)
(* loops, for rows of several projects that it took out of a map.          *)
(***************************************************************************)
EXTENDS Integers, Sequences, FiniteSets

CONSTANTS
  PriorityOf,    \* priority_score of a task
  CreatedAt      \* created_at of a task; different for different tasks

ASSUME RankingAssumption ==
  /\ PriorityOf \in [DOMAIN CreatedAt -> Int] /\ CreatedAt \in [DOMAIN CreatedAt -> Int]
  /\ \A s, t \in DOMAIN CreatedAt : CreatedAt[s] = CreatedAt[t] => s = t

(* ORDER BY priority_score DESC, created_at ASC. *)
Precedes(s, t) ==
  \/ PriorityOf[s] > PriorityOf[t]
  \/ PriorityOf[s] = PriorityOf[t] /\ CreatedAt[s] < CreatedAt[t]

(* ... LIMIT n. *)
Foremost(set, n) == {t \in set : Cardinality({s \in set : Precedes(s, t)}) < n}

(* Mutant: the younger of two equally urgent tasks goes first. *)
ComparedYoungestFirst(list, i, j) ==
  IF \/ PriorityOf[list[j]] > PriorityOf[list[i]]
     \/ PriorityOf[list[j]] = PriorityOf[list[i]] /\ CreatedAt[list[i]] < CreatedAt[list[j]]
  THEN [list EXCEPT ![i] = list[j], ![j] = list[i]] ELSE list

Compared(list, i, j) ==
  IF Precedes(list[j], list[i])
  THEN [list EXCEPT ![i] = list[j], ![j] = list[i]] ELSE list

(* The inner loop: position i against each of those after it. *)
Pass(list, i) ==
  LET after[k \in 0 .. Len(list) - i] ==
        IF k = 0 THEN list ELSE Compared(after[k - 1], i, i + k)
  IN  after[Len(list) - i]

Sorted(list) ==
  LET after[i \in 0 .. Len(list)] == IF i = 0 THEN list ELSE Pass(after[i - 1], i)
  IN  after[Len(list)]
=============================================================================
