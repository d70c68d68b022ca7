----------------------------- MODULE MCIdentity -----------------------------
(***************************************************************************)
(* Constants of Identity for model checking: the workloads, and addresses  *)
(* such that one person's is free and another's is that of the member.     *)
(***************************************************************************)
EXTENDS Identity, TLC

CONSTANTS u1, u2, u3, e1, e2, e3, s1, s2, k1, tm1, tm2, n1, n2, c1, r1, r2

Addresses == u1 :> e1 @@ u2 :> e2 @@ s1 :> e3 @@ s2 :> e2

Work(operations, overlap) == [operations |-> operations, overlap |-> overlap]

RowOperations == {"profile", "password", "role", "block", "unblock", "login"}

ArrivalOperations == {"register", "invite", "complete_invite", "sso", "login"}

SessionOperations == {"login", "refresh", "restart"}

NodeOperations ==
  {"code", "enrol", "expire", "revoke_node", "admin_revoke_node", "rename_node"}

DaemonOperations == {"code", "enrol", "revoke_node", "rename_node", "daemon"}

AllWorkloads ==
  {Work(RowOperations, TRUE),
   Work({"role", "block", "profile", "register", "login"}, FALSE),
   Work(ArrivalOperations, TRUE), Work(ArrivalOperations, FALSE),
   Work(SessionOperations, TRUE), Work(SessionOperations, FALSE),
   Work({"create_team", "delete_team", "join", "leave"}, TRUE),
   Work({"create_team", "delete_team", "code", "enrol", "access"}, TRUE),
   Work(NodeOperations, TRUE), Work(DaemonOperations, TRUE)}

(* Requests and nodes are interchangeable. *)
Interchangeable == Permutations({r1, r2}) \cup Permutations({n1, n2})
=============================================================================
