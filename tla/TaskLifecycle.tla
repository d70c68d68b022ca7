--------------------------- MODULE TaskLifecycle ---------------------------
(***************************************************************************)
(* What the board promises to the people and agents who use it, with every *)
(* operation done at once: where each task is, which tasks it waits for,   *)
(* and how much was spent on it.                                           *)
(*                                                                         *)
(* A task is started only when everything it depends on is done, the       *)
(* dependencies never form a cycle, spent usage only adds up, and a report *)
(* moves a task nowhere but to done, and never out of the blocked column.  *)
(***************************************************************************)
EXTENDS Naturals, DependencyGraph

CONSTANTS
  Tasks,
  Usage      \* the amounts that can be reported at once

VARIABLES
  status,    \* the column of each task, or "absent"
  deps,
  spent

Statuses == {"absent", "backlog", "todo", "in_progress", "done", "blocked"}

Present == {t \in Tasks : status[t] # "absent"}

Init ==
  /\ status \in [Tasks -> {"absent", "todo"}]
  /\ deps = {}
  /\ spent = [t \in Tasks |-> 0]

Place(t, c) == status' = [status EXCEPT ![t] = c]

(* New tasks appear together; a task that comes from another project brings
   along what was spent on it there. *)
Create(new) ==
  /\ new # {} /\ new \cap Present = {}
  /\ \A t \in Tasks :
       IF t \in new THEN status'[t] \in {"backlog", "todo"} /\ spent'[t] \in Nat
       ELSE status'[t] = status[t] /\ spent'[t] = spent[t]
  /\ UNCHANGED deps

Remove(t) ==
  /\ Place(t, "absent")
  /\ deps' = WithoutTask(deps, t)
  /\ spent' = [spent EXCEPT ![t] = 0]

Begin(t) ==
  /\ \A d \in DirectDependencies(t, deps) : status[d] = "done"
  /\ Place(t, "in_progress")
  /\ UNCHANGED <<deps, spent>>

Block(t) == status[t] # "blocked" /\ Place(t, "blocked") /\ UNCHANGED <<deps, spent>>

(* A human puts the task aside, back in the queue, or away. *)
PutAt(t, c) == Place(t, c) /\ UNCHANGED <<deps, spent>>

Report(t, u) ==
  /\ spent' = [spent EXCEPT ![t] = @ + u]
  /\ UNCHANGED <<status, deps>>

(* Out of any column but this one: the board asks for in_progress only while
   it can tell which column a task is in. *)
Complete(t, u) ==
  /\ status[t] # "blocked"
  /\ Place(t, "done")
  /\ spent' = [spent EXCEPT ![t] = @ + u]
  /\ UNCHANGED deps

Link(t, d) ==
  /\ {t, d} \subseteq Present
  /\ ~WouldCreateCycle(Tasks, deps, t, d)
  /\ deps' = deps \cup {<<t, d>>}
  /\ UNCHANGED <<status, spent>>

Unlink(e) == deps' = deps \ {e} /\ UNCHANGED <<status, spent>>

Next ==
  \/ \E new \in SUBSET Tasks : Create(new)
  \/ \E t \in Present :
       \/ Remove(t) \/ Begin(t) \/ Block(t)
       \/ \E c \in {"backlog", "todo", "done"} : PutAt(t, c)
       \/ \E u \in Usage : Report(t, u) \/ Complete(t, u)
       \/ \E d \in Present : Link(t, d)
  \/ \E e \in deps : Unlink(e)

Spec == Init /\ [][Next]_<<status, deps, spent>>
=============================================================================
