------------------------------ MODULE Handlers ------------------------------
(***************************************************************************)
(* What the HTTP handlers of the server have in common.  A request is a    *)
(* goroutine that validates, reads, decides and writes; the database       *)
(* executes one statement at a time, and nothing locks a row between two   *)
(* statements of a request.  The tables are functions from the ids of the  *)
(* rows to the rows.                                                       *)
(*                                                                         *)
(* A behaviour has a workload: what its clients ask for, and whether they  *)
(* wait for an answer before they ask again.  It is chosen at the start,   *)
(* so that one run of the checker looks at several groups of operations    *)
(* one after the other, instead of at all of their combinations.           *)
(*                                                                         *)
(* Bound: a new row takes an id that no row has, although an earlier row   *)
(* may have had it.  The program never uses an id twice, so that a request *)
(* that holds an old id may here find a row that it could not find.        *)
(***************************************************************************)
EXTENDS Naturals, FiniteSets

CONSTANTS
  Requests,    \* the handlers that can be running at the same time
  Workloads    \* the workloads: [operations : set of names, overlap : BOOLEAN]

(* A server serves any finite number of requests at a time. *)
ASSUME HandlersAssumption ==
  /\ IsFiniteSet(Requests)
  /\ \A w \in Workloads : w.overlap \in BOOLEAN

VARIABLES
  req,         \* the requests being served
  workload     \* what clients do in this behaviour

Idle == [op |-> "none", step |-> "idle"]

HandlersInit ==
  /\ req = [r \in Requests |-> Idle]
  /\ workload \in Workloads

Busy(r) == req[r].step # "idle"

Offered(op) == op \in workload.operations

(* A client may ask for op now. *)
Free(r, op) ==
  /\ Offered(op)
  /\ ~Busy(r)
  /\ workload.overlap \/ \A other \in Requests : ~Busy(other)

(* The request op goes on with step, and remembers data. *)
Begin(r, op, step, data) ==
  req' = [req EXCEPT ![r] = [op |-> op, step |-> step, data |-> data]]

At(r, op, step) == req[r].op = op /\ req[r].step = step

Goto(r, step) == req' = [req EXCEPT ![r].step = step]

Continue(r, step, data) == Begin(r, req[r].op, step, data)

Finish(r) == req' = [req EXCEPT ![r] = Idle]

(* One row more, or another row for an id. *)
Put(table, id, row) ==
  [i \in DOMAIN table \cup {id} |-> IF i = id THEN row ELSE table[i]]

(* UPDATE ... WHERE id: nothing happens when there is no such row. *)
Overwrite(table, id, row) ==
  IF id \in DOMAIN table THEN [table EXCEPT ![id] = row] ELSE table

(* DELETE ... WHERE id IN ids. *)
Without(table, ids) == [i \in DOMAIN table \ ids |-> table[i]]
=============================================================================
