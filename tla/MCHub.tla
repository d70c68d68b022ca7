------------------------------- MODULE MCHub -------------------------------
(***************************************************************************)
(* Constants of Hub for model checking: connections of dashboards and of   *)
(* daemons, all from one address, the case the limits are made for.        *)
(***************************************************************************)
EXTENDS Hub, TLC

CONSTANTS board, other, daemon, again, a1, p1, n1

OneProject == {p1}
OneNode    == {n1}

OneAddress   == {a1}

TwoBoards      == {board, other}
BoardAndDaemon == {board, daemon}
Daemons        == {daemon, again}
Everyone       == {board, other, daemon}

(* board follows a project, other follows none, as the dashboard does; the
   daemons are two connections of one node. *)
Scope == [c \in Clients |-> IF c = board THEN p1 ELSE Nothing]
Node  == [c \in Clients |-> IF c \in {daemon, again} THEN n1 ELSE Nothing]

SameAddress == [c \in Clients |-> a1]

(* The dashboard as it is built: no connection names a project. *)
Unscoped == [c \in Clients |-> Nothing]
=============================================================================
