------------------------------- MODULE Builds -------------------------------
(***************************************************************************)
(* The Docker builds of the daemon: a goroutine for each rebuild that a    *)
(* dashboard asks for, one that prunes, and the table of builds in SQLite. *)
(* There is one Dockerfile; nothing but the loop of PruneNonLatest has to  *)
(* do with two.                                                            *)
(***************************************************************************)
EXTENDS Connection

CONSTANTS
  MaxBuilds,     \* bound: rebuilds asked for, one after the other ...
  MaxOverlapping,   \* ... or while others are under way
  MaxVersions    \* bound: versions of the Dockerfile

ASSUME BuildsAssumption ==
  {MaxBuilds, MaxOverlapping} \subseteq Nat /\ MaxVersions \in Nat \ {0}

VARIABLES
  builder,    \* Rebuild, for each build
  pruner,     \* PruneNonLatest
  builds,     \* the table
  clock,      \* the second in which the last record was created
  images,     \* Docker: versions whose tag an image has
  made,       \* builds that made their image
  cut,        \* builds whose output ended too soon
  unsaved,    \* builds whose outcome could not be stored
  told        \* what the dashboards heard last of each build

buildsVars == <<builder, pruner, builds, clock, images, made, cut, unsaved, told>>

Builds == 1..MaxBuilds
Versions == 1..MaxVersions

NotAsked == [step |-> "none", version |-> 0]

BuildsInit ==
  /\ builder = [b \in Builds |-> NotAsked]
  /\ pruner = "idle"
  /\ builds = <<>> /\ clock = 0
  /\ images = {} /\ made = {}
  /\ cut = {} /\ unsaved = {}
  /\ told = [b \in Builds |-> "nothing"]

(* The daemon receives commands and sends events while it is connected. *)
Online == link = "open"

(* The read pump dispatches a command to its handler. *)
Asked(command) == Happens(command) /\ Online

Goto(b, step) == builder' = [builder EXCEPT ![b].step = step]

(* What it worked with is forgotten. *)
Done(b) == builder' = [builder EXCEPT ![b] = [step |-> "done", version |-> 0]]

At(b, step) == builder[b].step = step

(* An event that cannot be sent is lost. *)
Tell(b, status) == told' = IF Online THEN [told EXCEPT ![b] = status] ELSE told

(* Two connections write at once, and SQLite turns one away. *)
Busy(b) ==
  \/ pruner = "delete"
  \/ \E other \in Builds \ {b} :
       builder[other].step \in {"create", "store_failed", "store_success"}

---------------------------------------------------------------------------
(* Rebuild. *)

UnderWay == {b \in Builds : builder[b].step \notin {"none", "done"}}

(* Builds get new ids; here they are numbered. *)
Rebuild(b) ==
  /\ Asked("rebuild")
  /\ At(b, "none") /\ \A earlier \in 1..(b - 1) : ~At(earlier, "none")
  /\ IF Happens("overlap") THEN b <= MaxOverlapping ELSE UnderWay = {}
  /\ Goto(b, "fetch") /\ Tell(b, "started")
  /\ UNCHANGED <<pruner, builds, clock, images, made, cut, unsaved>>

(* The service still has the token of the start.  What the server has for the
   latest version changes from one rebuild to the next, and may go back. *)
Fetch(b, v) ==
  /\ At(b, "fetch")
  /\ online /\ Takes(firstToken)
  /\ builder' = [builder EXCEPT ![b] = [step |-> "create", version |-> v]]
  /\ UNCHANGED <<pruner, builds, clock, images, made, cut, unsaved, told>>

(* No record is made of it. *)
FetchFails(b) ==
  /\ At(b, "fetch")
  /\ ~online \/ ~Takes(firstToken)
  /\ Done(b) /\ Tell(b, "failed")
  /\ UNCHANGED <<pruner, builds, clock, images, made, cut, unsaved>>

(* UNIQUE(dockerfile_slug, version). *)
VersionIsBuilt(v) == \E b \in DOMAIN builds : builds[b].version = v

NewBuild(v, now) == [version |-> v, status |-> "pending", created |-> now]

Create(b, now) ==
  LET v == builder[b].version IN
  /\ At(b, "create") /\ ~VersionIsBuilt(v)
  /\ now \in {clock, clock + 1}
  /\ builds' = [i \in DOMAIN builds \cup {b} |->
                  IF i = b THEN NewBuild(v, now) ELSE builds[i]]
  /\ clock' = now
  /\ Goto(b, "build")
  /\ UNCHANGED <<pruner, images, made, cut, unsaved, told>>

(* Rebuild returns an error, which is logged; nobody hears of it. *)
CreateFails(b) ==
  /\ At(b, "create")
  /\ VersionIsBuilt(builder[b].version) \/ Busy(b)
  /\ Done(b)
  /\ UNCHANGED <<pruner, builds, clock, images, made, cut, unsaved, told>>

(* Mutant: the outcome is told and not stored. *)
BuildFailsUnstored(b) ==
  /\ At(b, "build")
  /\ Done(b) /\ Tell(b, "failed")
  /\ UNCHANGED <<pruner, builds, clock, images, made, cut, unsaved>>

(* ImageBuild fails, or a line of its output is an error. *)
BuildFails(b) ==
  /\ At(b, "build")
  /\ Goto(b, "store_failed") /\ Tell(b, "failed")
  /\ UNCHANGED <<pruner, builds, clock, images, made, cut, unsaved>>

BuildEnds(b) ==
  /\ At(b, "build")
  /\ images' = images \cup {builder[b].version} /\ made' = made \cup {b}
  /\ Goto(b, "inspect")
  /\ UNCHANGED <<pruner, builds, clock, cut, unsaved, told>>

(* A line is too long for the scanner, or the connection to Docker breaks. *)
OutputCut(b) ==
  /\ At(b, "build")
  /\ cut' = cut \cup {b}
  /\ Goto(b, "inspect")
  /\ UNCHANGED <<pruner, builds, clock, images, made, unsaved, told>>

(* Whoever built it: an image with the tag is a success. *)
Inspect(b) ==
  /\ At(b, "inspect")
  /\ IF builder[b].version \in images
     THEN Goto(b, "store_success") /\ UNCHANGED told
     ELSE Goto(b, "store_failed") /\ Tell(b, "failed")
  /\ UNCHANGED <<pruner, builds, clock, images, made, cut, unsaved>>

(* UPDATE ... WHERE id: a record that was pruned is not there. *)
UpdateStatus(b, status) ==
  /\ \/ /\ builds' = IF b \in DOMAIN builds
                     THEN [builds EXCEPT ![b].status = status] ELSE builds
        /\ UNCHANGED unsaved
     \/ /\ Busy(b)
        /\ unsaved' = unsaved \cup {b}
        /\ UNCHANGED builds
  /\ Done(b)
  /\ UNCHANGED <<pruner, clock, images, made, cut>>

StoreFailed(b) ==
  /\ At(b, "store_failed")
  /\ UpdateStatus(b, "failed") /\ UNCHANGED told

StoreSuccess(b) ==
  /\ At(b, "store_success")
  /\ UpdateStatus(b, "success") /\ Tell(b, "success")

---------------------------------------------------------------------------
(* PruneNonLatest.  No record has an image hash, so that no image goes. *)

PruneRequested == Asked("prune") /\ pruner = "idle"

Prune ==
  /\ PruneRequested
  /\ pruner' = IF DOMAIN builds = {} THEN "idle" ELSE "delete"
  /\ UNCHANGED <<builder, builds, clock, images, made, cut, unsaved, told>>

(* ORDER BY created_at DESC LIMIT 1: of records created in the same second
   any may be the first. *)
Newest(b) == \A other \in DOMAIN builds : builds[other].created <= builds[b].created

DeleteNonLatest ==
  /\ pruner = "delete"
  /\ \E b \in DOMAIN builds :
       Newest(b) /\ builds' = [i \in {b} |-> builds[i]]
  /\ pruner' = "idle"
  /\ UNCHANGED <<builder, clock, images, made, cut, unsaved, told>>

DeleteFails ==
  /\ pruner = "delete"
  /\ \E b \in Builds : builder[b].step \in {"create", "store_failed", "store_success"}
  /\ pruner' = "idle"
  /\ UNCHANGED <<builder, builds, clock, images, made, cut, unsaved, told>>

---------------------------------------------------------------------------

(* Nothing goes on with a build that was under way. *)
BuildsDie ==
  /\ builder' = [b \in Builds |->
                   IF b \in UnderWay THEN [step |-> "done", version |-> 0]
                   ELSE builder[b]]
  /\ unsaved' = unsaved \cup UnderWay
  /\ pruner' = "idle"
  /\ UNCHANGED <<builds, clock, images, made, cut, told>>

BuildsStep ==
  \/ \E b \in Builds :
       \/ Rebuild(b) \/ (\E v \in Versions : Fetch(b, v)) \/ FetchFails(b)
       \/ \E now \in 0..MaxBuilds : Create(b, now)
       \/ CreateFails(b)
       \/ BuildFails(b) \/ BuildEnds(b) \/ OutputCut(b) \/ Inspect(b)
       \/ StoreFailed(b) \/ StoreSuccess(b)
  \/ Prune \/ DeleteNonLatest \/ DeleteFails

---------------------------------------------------------------------------
(* Properties. *)

BuildsTypeOK ==
  /\ builder \in [Builds -> [step : {"none", "fetch", "create", "build", "inspect",
                                     "store_failed", "store_success", "done"},
                             version : Versions \cup {0}]]
  /\ pruner \in {"idle", "delete"}
  /\ DOMAIN builds \subseteq Builds
  /\ \A b \in DOMAIN builds :
       builds[b] \in [version : Versions, status : {"pending", "failed", "success"},
                      created : 0..clock]
  /\ clock \in 0..MaxBuilds
  /\ images \subseteq Versions
  /\ made \cup cut \cup unsaved \subseteq Builds
  /\ told \in [Builds -> {"nothing", "started", "failed", "success"}]

(* The record of a build that is over, however builds and prunings overlap,
   says how it ended: it is not pending, it is what the dashboards heard last,
   and a success made the image that it claims, which an image that an earlier
   build left under the same tag does not.  Excepted are a build that the
   process died in or whose outcome SQLite refused, since it is stored once and
   no one tries again, and for the image one whose output was cut. *)
OutcomeStored ==
  \A b \in DOMAIN builds :
    At(b, "done") /\ b \notin unsaved =>
      /\ builds[b].status # "pending"
      /\ told[b] \in {"failed", "success"} => builds[b].status = told[b]
      /\ builds[b].status = "success" => b \in made \cup cut
=============================================================================
