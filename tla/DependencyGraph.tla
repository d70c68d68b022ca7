-------------------------- MODULE DependencyGraph --------------------------
(***************************************************************************)
(* The dependencies between tasks as a set of edges <<task, dependency>>,  *)
(* and the question AddDependency asks the database with a recursive       *)
(* query: which tasks does a task depend on, directly or not?              *)
(*                                                                         *)
(* Reachability is stated without recursion: b is reached from a if b is   *)
(* in every set of tasks that holds the direct dependencies of a and is    *)
(* closed under the edges, which is what WITH RECURSIVE ... UNION computes *)
(* (the least such set).                                                   *)
(***************************************************************************)
EXTENDS Naturals

ClosedUnder(S, edges) == \A e \in edges : e[1] \in S => e[2] \in S

DirectDependencies(a, edges) == {e[2] : e \in {x \in edges : x[1] = a}}

(* The tasks that a depends on, directly or through others. *)
Reachable(T, edges, a) ==
  {b \in T : \A S \in SUBSET T :
     DirectDependencies(a, edges) \subseteq S /\ ClosedUnder(S, edges) => b \in S}

WouldCreateCycle(T, edges, t, d) == t = d \/ t \in Reachable(T, edges, d)

Acyclic(T, edges) == \A t \in T : t \notin Reachable(T, edges, t)

(* ON DELETE CASCADE on both columns of task_dependencies. *)
WithoutTask(edges, t) == {e \in edges : e[1] # t /\ e[2] # t}
=============================================================================
