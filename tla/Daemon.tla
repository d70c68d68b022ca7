------------------------------- MODULE Daemon -------------------------------
(***************************************************************************)
(* The daemon: its connection, its builds and its cache.  The end of the   *)
(* process ends whatever is under way; commands and manifests come over    *)
(* the connection, and events are lost while there is none.                *)
(***************************************************************************)
EXTENDS Resources

vars == <<connectionVars, buildsVars, resourcesVars>>

Init == ConnectionInit /\ BuildsInit /\ ResourcesInit

ProcessEnds ==
  /\ ConnectionStep
  /\ Running /\ ~Running'
  /\ BuildsDie /\ SyncsDie

LinkOpens ==
  /\ ConnectionStep
  /\ link # "open" /\ link' = "open"
  /\ Greet
  /\ UNCHANGED buildsVars

LinkBreaks ==
  /\ ConnectionStep
  /\ Running = Running' /\ link = "open" /\ link' # "open"
  /\ LinkLost
  /\ UNCHANGED buildsVars

ConnectionOnly ==
  /\ ConnectionStep
  /\ ~Running \/ Running'
  /\ (link = "open") = (link' = "open")
  /\ UNCHANGED <<buildsVars, resourcesVars>>

Next ==
  \/ ProcessEnds \/ LinkOpens \/ LinkBreaks \/ ConnectionOnly
  \/ BuildsStep /\ UNCHANGED <<connectionVars, resourcesVars>>
  \/ ResourcesStep /\ UNCHANGED <<connectionVars, buildsVars>>

Spec == Init /\ [][Next]_vars

(* Timers fire, clients give up after 30 seconds, and a reader that hears
   nothing gets an error after 60: no step of Run or of a proxy is put off
   forever.  Nothing of the kind is assumed of the world around the daemon,
   nor of builds, whose requests have no time limit. *)
FairSpec ==
  /\ Spec
  /\ WF_vars(RunStep /\ Next)
  /\ WF_vars(ProxyStep /\ Next)

---------------------------------------------------------------------------

(* Each part of the state has its type. *)
TypeOK == ConnectionTypeOK /\ BuildsTypeOK /\ ResourcesTypeOK
=============================================================================
