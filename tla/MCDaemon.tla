------------------------------ MODULE MCDaemon ------------------------------
(***************************************************************************)
(* Constants of Daemon for model checking: what may happen around it.      *)
(***************************************************************************)
EXTENDS Daemon

AllWorkloads ==
  {{"crash", "stop", "expire", "outage", "proxy", "lost_answer"},
   {"stop", "expire", "break", "revoke", "proxy"},
   {"crash", "expire", "proxy", "unwritable"},
   {"rebuild", "overlap", "prune", "crash"},
   {"rebuild", "prune"},
   {"rebuild", "break"},
   {"rebuild", "crash", "expire"},
   {"resources", "release", "outage", "disk_full"},
   {"resources", "release", "outage", "crash"},
   {"resources", "break", "expire"}}

(* Nothing happens that could keep the daemon from connecting. *)
Peace == {{}}
=============================================================================
