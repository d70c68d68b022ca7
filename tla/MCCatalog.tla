----------------------------- MODULE MCCatalog -----------------------------
(***************************************************************************)
(* Constants of Catalog for model checking: one workload for each group of *)
(* operations that share rows.                                             *)
(***************************************************************************)
EXTENDS Catalog, TLC

CONSTANTS p1, p2, p3, f1, f2, d1, d2, n1, t1, c1, a1, a2, s1, s2, x1, x2, alice, red, r1, r2

Membership == alice :> {red}

Versions == {<<"go", 1>>, <<"go", 2>>}

Work(operations, overlap) == [operations |-> operations, overlap |-> overlap]

ProjectOperations == {"create_project", "update_project", "delete_project", "info"}

FeatureOperations ==
  {"create_feature", "update_feature", "changelogs", "status", "delete_feature",
   "delete_project"}

AllWorkloads ==
  {Work(ProjectOperations, TRUE),
   Work(FeatureOperations, TRUE),
   Work({"notification", "read", "delete_notification", "delete_project"}, TRUE),
   Work({"grant", "revoke", "create_feature", "delete_feature"}, TRUE),
   Work({"create_image", "update_image", "delete_image", "set_image", "clear_image"}, FALSE),
   Work({"create_image", "delete_image", "set_image", "clear_image", "delete_project"}, TRUE),
   Work({"create_project", "create_feature", "delete_feature", "create_task",
         "update_task", "delete_task", "delete_project"}, FALSE),
   Work({"create_agent", "clone_agent", "update_agent", "delete_agent", "create_special"}, TRUE),
   Work({"create_skill", "update_skill", "delete_skill", "add_skill", "remove_skill"}, FALSE),
   Work({"create_skill", "delete_skill", "add_skill", "delete_agent", "fail"}, TRUE),
   Work({"create_skill", "delete_skill", "create_special", "update_special",
         "delete_special", "delete_agent"}, FALSE),
   Work({"create_skill", "delete_skill", "create_special", "delete_special"}, TRUE),
   Work({"create_agent", "create_special", "assign", "remove_agent", "reassign", "create_task",
         "update_task", "delete_project"}, FALSE),
   Work({"assign", "remove_agent", "reassign", "create_task", "delete_agent",
         "delete_project"}, TRUE),
   Work({"create_task", "comment", "update_comment", "delete_comment",
         "delete_task", "delete_project"}, TRUE)}

(* Rows of one table are interchangeable, and so are requests. *)
Interchangeable ==
  UNION {Permutations(set) : set \in
           {{p2, p3}, {f1, f2}, {d1, d2}, {a1, a2}, {s1, s2}, {x1, x2}, {r1, r2}}}
=============================================================================
