--------------------------- MODULE CatalogProofs ---------------------------
(***************************************************************************)
(* The safety properties of the catalog, for any ids, slugs, users and     *)
(* workloads, and any number of requests at a time.                        *)
(***************************************************************************)
EXTENDS Catalog, TLAPS

USE HandlersAssumption, ProjectsAssumption, AgentsAssumption
    DEF HandlersAssumption, ProjectsAssumption, AgentsAssumption

ProjectRow == [parent : ProjectIDs \cup {Nothing}, dockerfile : DockerfileIDs \cup {Nothing}]
FeatureRow == [project : ProjectIDs, status : FeatureStatuses]
ImageRow == [image : Images, latest : BOOLEAN]
NoticeRow == [project : ProjectIDs \cup {Nothing}, read : BOOLEAN]
TaskEntry == [project : ProjectIDs, feature : FeatureIDs \cup ProjectIDs \cup {Nothing},
              role : AgentSlugs \cup {Nobody}]

(* The rows of each group of tables, and what they refer to. *)
ProjectsOK ==
  /\ DOMAIN projects \subseteq ProjectIDs
  /\ \A p \in DOMAIN projects :
       /\ projects[p] \in ProjectRow
       /\ projects[p].parent \in DOMAIN projects \cup {Nothing}
       /\ projects[p].dockerfile \in DOMAIN dockerfiles \cup {Nothing}

NoticesOK ==
  /\ DOMAIN userAccess \subseteq (DOMAIN projects) \X Users
  /\ teamAccess \subseteq (DOMAIN projects) \X Teams
  /\ \A n \in DOMAIN notifications :
       /\ notifications[n] \in NoticeRow
       /\ notifications[n].project \in DOMAIN projects \cup {Nothing}

FeaturesOK ==
  /\ DOMAIN features \subseteq FeatureIDs
  /\ \A f \in DOMAIN features :
       features[f] \in FeatureRow /\ features[f].project \in DOMAIN projects

TasksOK ==
  /\ \A t \in DOMAIN tasks :
       /\ tasks[t] \in TaskEntry
       /\ tasks[t].project \in DOMAIN projects
       /\ tasks[t].feature \in DOMAIN features \cup {Nothing}
  /\ \A c \in DOMAIN comments : comments[c] \in DOMAIN tasks

ImagesOK ==
  /\ DOMAIN dockerfiles \subseteq DockerfileIDs
  /\ \A d \in DOMAIN dockerfiles : dockerfiles[d] \in ImageRow

AgentsOK ==
  /\ \A a \in DOMAIN agents : agents[a] \in AgentSlugs
  /\ \A s \in DOMAIN skills : skills[s] \in SkillSlugs
  /\ \A row \in agentSkills : row = <<row[1], row[2]>>
  /\ AgentReferences

(* The project that p has been created in, Nothing for a root. *)
ParentOf(p) ==
  IF Len(lineage[p]) = 1 THEN Nothing ELSE lineage[p][Len(lineage[p]) - 1]

(* The projects above a project are what they were when it was created: none
   moves, and no id is used twice. *)
LineageOK ==
  /\ DOMAIN lineage \subseteq ProjectIDs
  /\ \A p \in DOMAIN lineage :
       /\ lineage[p] \in Seq(ProjectIDs)
       /\ lineage[p] # <<>> /\ lineage[p][Len(lineage[p])] = p
       /\ \A i \in 1 .. Len(lineage[p]) :
            /\ lineage[p][i] \in DOMAIN lineage
            /\ ParentOf(lineage[p][i]) = IF i = 1 THEN Nothing ELSE lineage[p][i - 1]
  /\ DOMAIN projects \subseteq DOMAIN lineage
  /\ \A p \in DOMAIN projects : projects[p].parent = ParentOf(p)

(* A breadcrumb that is being read ends in a project, and goes up without a
   gap to the one below data.parent. *)
PathSoFar(data) ==
  LET p == data.path[Len(data.path)]
      above == Len(lineage[p]) - Len(data.path) IN
  /\ data.path \in Seq(ProjectIDs) /\ data.path # <<>> /\ p \in DOMAIN lineage
  /\ above >= 0
  /\ \A i \in 1 .. Len(data.path) : data.path[i] = lineage[p][above + i]
  /\ data.parent = IF above = 0 THEN Nothing ELSE lineage[p][above]

(* What a request remembers is what it needs. *)
ProjectData(q) ==
  /\ q.op = "update_project" =>
       q.data.project \in DOMAIN lineage /\ q.data.row.parent = ParentOf(q.data.project)
  /\ q.op = "info" => PathSoFar(q.data)
  /\ q.op = "info" /\ q.step = "answer" => q.data.parent = Nothing
  /\ q.op = "status" => q.data.status \in FeatureStatuses
  /\ q.op = "create_task" => q.data \in TaskEntry
  /\ q.op = "update_task" => q.data.row \in TaskEntry
  /\ q.op = "create_image" /\ q.step = "insert" => q.data.image \in Images /\ q.data.latest \in BOOLEAN
  /\ q.op = "update_image" /\ q.step = "write" => q.data.row \in ImageRow
  /\ q.op = "set_image" => q.data.dockerfile \in DockerfileIDs
  /\ q.step = "write_column" => q.op \in {"set_image", "clear_image"}

AgentData(q) ==
  /\ q.op \in {"create_agent", "clone_agent"} => q.data.slug \in AgentSlugs
  /\ q.op = "create_skill" => q.data.slug \in SkillSlugs
  /\ q.step \in {"find_heir", "update_tasks"} =>
       q.op \in {"remove_agent", "reassign"} /\ q.data.heir \in AgentSlugs \cup {Nobody}
  /\ q.op = "remove_agent" => q.data.heir \in AgentSlugs \cup {Nobody, Nothing}
  /\ q.step \in {"resolve", "clear_skills", "insert_skills"} =>
       q.op \in {"create_special", "update_special"}

Wellformed(q) ==
  /\ q = Idle \/ q = [op |-> q.op, step |-> q.step, data |-> q.data]
  /\ ProjectData(q) /\ AgentData(q)

RequestsOK == DOMAIN req = Requests /\ \A r \in Requests : Wellformed(req[r])

(* Clients that do not overlap have one request between them. *)
OneAtATime ==
  workload.overlap \/ \A r, s \in Requests : Busy(r) /\ Busy(s) => r = s

CatalogInv ==
  /\ ProjectsOK /\ LineageOK /\ NoticesOK /\ FeaturesOK /\ TasksOK /\ ImagesOK /\ AgentsOK
  /\ RequestsOK /\ OneAtATime

---------------------------------------------------------------------------
(* Without overlap, what a request has looked up is true when it writes. *)

Current(q) ==
  /\ q.op = "delete_image" /\ q.step = "delete" => ~ImageInUse(q.data.dockerfile)
  /\ q.op = "delete_skill" /\ q.step = "delete" => ~SkillInUse(q.data.id)
  /\ q.op = "update_image" /\ q.step = "write" /\ q.data.dockerfile \in DOMAIN dockerfiles =>
       /\ q.data.row.image = dockerfiles[q.data.dockerfile].image
       /\ q.data.row.latest => q.data.set \/ dockerfiles[q.data.dockerfile].latest
  /\ q.op = "remove_agent" /\ q.step \in {"list_tasks", "find_heir", "update_tasks", "remove"} =>
       q.data.agent \in DOMAIN agents /\ agents[q.data.agent] = q.data.slug
  /\ q.op = "remove_agent" /\ q.step = "remove" =>
       TasksOf(q.data.project, q.data.slug) = {} \/ q.data.heir = q.data.slug

SequentialInv == workload.overlap \/ \A r \in Requests : Current(req[r])

(* Two versions are the latest only as long as a request is about to settle
   which one it is. *)
SettledBy(r, d, e) == req[r].step = "set_latest" /\ req[r].data.dockerfile \in {d, e}

LatestInv ==
  Undisturbed =>
    \A d, e \in DOMAIN dockerfiles :
      dockerfiles[d].image[1] = dockerfiles[e].image[1]
        /\ dockerfiles[d].latest /\ dockerfiles[e].latest =>
          d = e \/ \E r \in Requests : SettledBy(r, d, e)

---------------------------------------------------------------------------
(* Requests. *)

Tables == <<catalogTables, agentTables, comments>>

(* r takes its turn: the others stand still and, when clients do not overlap,
   are idle. *)
Turn(r) ==
  /\ DOMAIN req' = Requests
  /\ \A s \in Requests \ {r} : req'[s] = req[s]
  /\ Busy(r) \/ workload.overlap \/ \A s \in Requests : ~Busy(s)

(* A request that begins, or goes on with other data. *)
LEMMA TurnBegin ==
  ASSUME RequestsOK, NEW r \in Requests, NEW op, NEW step, NEW data, NEW asked,
         Free(r, asked) \/ Busy(r), Begin(r, op, step, data)
  PROVE  Turn(r) /\ req'[r] = [op |-> op, step |-> step, data |-> data]
BY DEF RequestsOK, Turn, Begin, Free

(* A request that goes on with the data that it has. *)
LEMMA TurnGoto ==
  ASSUME RequestsOK, NEW r \in Requests, NEW step, Busy(r), Goto(r, step)
  PROVE  Turn(r) /\ req'[r] = [op |-> req[r].op, step |-> step, data |-> req[r].data]
<1>1. req[r] = [op |-> req[r].op, step |-> req[r].step, data |-> req[r].data]
  BY DEF RequestsOK, Wellformed, Busy, Idle
<1> QED
  BY <1>1 DEF RequestsOK, Turn, Goto

(* A request that ends. *)
LEMMA TurnFinish ==
  ASSUME RequestsOK, NEW r \in Requests, Busy(r), Finish(r)
  PROVE  Turn(r) /\ req'[r] = Idle
BY DEF RequestsOK, Turn, Finish

(* An idle request remembers nothing. *)
LEMMA IdleWellformed == Wellformed(Idle) /\ Wellformed(Idle)'
BY DEF Wellformed, ProjectData, AgentData, Idle

(* What a request remembers. *)
LEMMA Remembers ==
  ASSUME CatalogInv, NEW r \in Requests
  PROVE  ProjectData(req[r]) /\ AgentData(req[r])
BY DEF CatalogInv, RequestsOK, Wellformed

(* Projects are added to the lineage, and keep the one they have. *)
Grows ==
  /\ DOMAIN lineage \subseteq DOMAIN lineage'
  /\ \A p \in DOMAIN lineage : lineage'[p] = lineage[p]

(* A project stays where it is. *)
LEMMA ParentStays ==
  ASSUME Grows, NEW p \in DOMAIN lineage
  PROVE  ParentOf(p)' = ParentOf(p)
BY DEF Grows, ParentOf

(* And the path to it stays what it is. *)
LEMMA PathStays ==
  ASSUME Grows, NEW data, PathSoFar(data)
  PROVE  PathSoFar(data)'
<1> DEFINE p == data.path[Len(data.path)]
<1>1. p \in DOMAIN lineage /\ p \in DOMAIN lineage' /\ lineage'[p] = lineage[p]
  BY DEF PathSoFar, Grows
<1> QED
  BY <1>1 DEF PathSoFar

(* What a request remembers stays what it needs. *)
LEMMA StaysWellformed ==
  ASSUME Grows, NEW q, ProjectData(q)
  PROVE  ProjectData(q)'
<1>1. ASSUME q.op = "update_project"
      PROVE  (q.data.project \in DOMAIN lineage /\ q.data.row.parent = ParentOf(q.data.project))'
  <2>1. q.data.project \in DOMAIN lineage /\ q.data.row.parent = ParentOf(q.data.project)
    BY <1>1 DEF ProjectData
  <2> QED
    BY <2>1, ParentStays DEF Grows
<1>2. ASSUME q.op = "info" PROVE PathSoFar(q.data)'
  BY <1>2, PathStays DEF ProjectData
<1> QED
  BY <1>1, <1>2 DEF ProjectData, TaskEntry, ImageRow

(* A request has the data that the turn gives it. *)
LEMMA TurnWellformed ==
  ASSUME Grows, NEW r \in Requests, NEW q, req'[r] = q,
         q = Idle \/ q = [op |-> q.op, step |-> q.step, data |-> q.data],
         ProjectData(q), AgentData(q)
  PROVE  Wellformed(req[r])'
<1>1. ProjectData(q)' /\ AgentData(q)'
  BY StaysWellformed DEF AgentData
<1>2. PathSoFar(req[r].data)' <=> PathSoFar(q.data)'
  BY DEF PathSoFar
<1>3. ProjectData(req[r])'
  BY <1>1, <1>2 DEF ProjectData, ParentOf
<1>4. AgentData(req[r])'
  BY <1>1 DEF AgentData
<1> QED
  BY <1>3, <1>4 DEF Wellformed

(* A turn without a statement that changes a row. *)
Quiet(r) == Turn(r) /\ Wellformed(req[r])' /\ UNCHANGED Tables

(* The steps before a statement that relies on what was looked up. *)
Watched(q) ==
  \/ q.op \in {"delete_image", "delete_skill"} /\ q.step = "delete"
  \/ q.op = "update_image" /\ q.step = "write"
  \/ q.op = "remove_agent" /\ q.step \in {"list_tasks", "find_heir", "update_tasks", "remove"}
  \/ q.op = "status" /\ q.step = "write_status"

(* A quiet turn that does not lead there.  Only a failure keeps a request from
   saying which version is the latest. *)
Elsewhere(r) ==
  /\ Quiet(r) /\ ~Watched(req'[r])
  /\ req[r].step = "set_latest" => Offered("fail")

(* It is quiet to begin or to go on with well-formed data. *)
LEMMA QuietBegin ==
  ASSUME CatalogInv, NEW r \in Requests, NEW op, NEW step, NEW data, NEW asked,
         Free(r, asked) \/ Busy(r), Begin(r, op, step, data), UNCHANGED Tables,
         ProjectData([op |-> op, step |-> step, data |-> data]),
         AgentData([op |-> op, step |-> step, data |-> data])
  PROVE  Quiet(r) /\ req'[r] = [op |-> op, step |-> step, data |-> data]
<1>1. Turn(r) /\ req'[r] = [op |-> op, step |-> step, data |-> data]
  BY TurnBegin DEF CatalogInv
<1>2. Grows
  BY DEF Tables, catalogTables, projectTables, Grows
<1> DEFINE q == [op |-> op, step |-> step, data |-> data]
<1>3. Wellformed(req[r])'
  BY <1>1, <1>2, TurnWellformed, q = [op |-> q.op, step |-> q.step, data |-> q.data]
<1> QED
  BY <1>1, <1>3 DEF Quiet

(* Requests of which nothing needs to be known. *)
PlainOps ==
  {"notification", "create_project", "delete_project", "create_feature", "update_feature",
   "changelogs", "delete_feature", "delete_image", "update_agent", "delete_agent", "update_skill",
   "delete_skill", "add_skill", "remove_skill", "create_special", "update_special",
   "delete_special", "assign", "comment", "update_comment", "delete_comment"}

(* Such a request is quiet when it begins or goes on with other data. *)
LEMMA PlainBegin ==
  ASSUME CatalogInv, NEW r \in Requests, NEW op \in PlainOps, NEW step, NEW data, NEW asked,
         Free(r, asked) \/ (Busy(r) /\ req[r].step # "set_latest"),
         Begin(r, op, step, data), UNCHANGED Tables,
         step \notin {"write_column", "find_heir", "update_tasks", "delete"},
         step \in {"resolve", "clear_skills", "insert_skills"} =>
           op \in {"create_special", "update_special"}
  PROVE  Elsewhere(r)
<1>1. /\ ProjectData([op |-> op, step |-> step, data |-> data])
      /\ AgentData([op |-> op, step |-> step, data |-> data])
  BY DEF ProjectData, AgentData, PlainOps
<1>2. Quiet(r) /\ req'[r] = [op |-> op, step |-> step, data |-> data]
  BY <1>1, QuietBegin
<1> QED
  BY <1>2 DEF Elsewhere, Watched, PlainOps, Free, Busy

(* It is quiet to go on with the data that the request has, where nothing more
   needs to be known of them. *)
LEMMA QuietGoto ==
  ASSUME CatalogInv, NEW r \in Requests, NEW step, NEW q, q = req[r], Busy(r), Goto(r, step),
         UNCHANGED Tables, q.step # "set_latest",
         step \notin {"answer", "write_column", "list_tasks", "find_heir", "update_tasks", "remove",
                      "write_status", "resolve", "clear_skills", "insert_skills"},
         step = "insert" => q.op # "create_image", step = "write" => q.op # "update_image",
         step = "delete" => q.op \notin {"delete_image", "delete_skill"}
  PROVE  Elsewhere(r)
<1>1. Turn(r) /\ req'[r] = [op |-> q.op, step |-> step, data |-> q.data]
  BY TurnGoto DEF CatalogInv
<1>2. Grows
  BY DEF Tables, catalogTables, projectTables, Grows
<1> DEFINE p == [op |-> q.op, step |-> step, data |-> q.data]
<1>3. ProjectData(p) /\ AgentData(p)
  BY Remembers DEF ProjectData, AgentData
<1>4. Wellformed(req[r])'
  BY <1>1, <1>2, <1>3, TurnWellformed, p = [op |-> p.op, step |-> p.step, data |-> p.data]
<1> QED
  BY <1>1, <1>4 DEF Elsewhere, Quiet, Watched

(* And it is to end. *)
LEMMA QuietFinish ==
  ASSUME CatalogInv, NEW r \in Requests, Busy(r), Finish(r), UNCHANGED Tables,
         req[r].step = "set_latest" => Offered("fail")
  PROVE  Elsewhere(r)
<1>1. Turn(r) /\ req'[r] = Idle
  BY TurnFinish DEF CatalogInv
<1>2. Wellformed(req[r])'
  BY <1>1, IdleWellformed DEF Wellformed, ProjectData, AgentData, Idle
<1> QED
  BY <1>1, <1>2 DEF Elsewhere, Quiet, Watched, Idle

---------------------------------------------------------------------------
(* The quiet steps. *)

(* Requests that begin, of which something needs to be known. *)
BeginsProject(r) ==
  \/ \E p \in ProjectIDs : UpdateProjectRequest(r, p)
  \/ \E p \in ProjectIDs : GetProjectInfoRequest(r, p)
  \/ \E f \in FeatureIDs, status \in FeatureStatuses : UpdateFeatureStatusRequest(r, f, status)
  \/ \E p \in ProjectIDs, f \in FeatureIDs \cup ProjectIDs \cup {Nothing},
        role \in AgentSlugs \cup {Nobody} : CreateTaskRequest(r, p, f, role)
  \/ \E t \in TaskIDs, f \in FeatureIDs \cup {Nothing}, role \in AgentSlugs \cup {Nobody} :
       UpdateTaskRequest(r, t, f, role)
  \/ \E image \in Images, latest \in BOOLEAN : CreateDockerfileRequest(r, image, latest)
  \/ \E p \in ProjectIDs, d \in DockerfileIDs : SetProjectDockerfileRequest(r, p, d)
  \/ \E p \in ProjectIDs : ClearProjectDockerfileRequest(r, p)

(* They are quiet, with data that are what their statements need. *)
LEMMA BeginsProjectQuiet ==
  ASSUME CatalogInv, NEW r \in Requests, BeginsProject(r), UNCHANGED <<agentTables, comments>>
  PROVE  Elsewhere(r)
<1>1. ASSUME NEW op, NEW step, NEW data, Free(r, op), Begin(r, op, step, data), UNCHANGED Tables,
             op \notin {"update_image", "remove_agent"}, step \notin {"delete", "write_status"},
             ProjectData([op |-> op, step |-> step, data |-> data]),
             AgentData([op |-> op, step |-> step, data |-> data])
      PROVE  Elsewhere(r)
  <2>1. Quiet(r) /\ req'[r] = [op |-> op, step |-> step, data |-> data]
    BY <1>1, QuietBegin
  <2> QED
    BY <1>1, <2>1 DEF Elsewhere, Watched, Free, Busy
<1>2. ASSUME NEW p \in ProjectIDs, UpdateProjectRequest(r, p)
      PROVE  Elsewhere(r)
  <2> DEFINE data == [project |-> p, row |-> projects[p]]
  <2>1. Free(r, "update_project") /\ Begin(r, "update_project", "write", data) /\ UNCHANGED Tables
    BY <1>2 DEF UpdateProjectRequest, UpdateProject, Tables, catalogTables
  <2>2. /\ ProjectData([op |-> "update_project", step |-> "write", data |-> data])
        /\ AgentData([op |-> "update_project", step |-> "write", data |-> data])
    BY <1>2 DEF UpdateProjectRequest, UpdateProject, ProjectData, AgentData, CatalogInv, LineageOK
  <2> QED
    BY <1>1, <2>1, <2>2
<1>3. ASSUME NEW p \in ProjectIDs, GetProjectInfoRequest(r, p)
      PROVE  Elsewhere(r)
  <2> DEFINE data == [path |-> <<p>>, parent |-> projects[p].parent]
  <2>1. Free(r, "info") /\ Begin(r, "info", "children", data) /\ UNCHANGED Tables
    BY <1>3 DEF GetProjectInfoRequest, GetProjectInfo, Tables, catalogTables
  <2>2. /\ p \in DOMAIN projects /\ p \in DOMAIN lineage /\ projects[p].parent = ParentOf(p)
        /\ lineage[p] \in Seq(ProjectIDs) /\ lineage[p] # <<>> /\ lineage[p][Len(lineage[p])] = p
    BY <1>3 DEF GetProjectInfoRequest, GetProjectInfo, CatalogInv, LineageOK
  <2>3. PathSoFar(data)
    BY <2>2 DEF PathSoFar, ParentOf
  <2>4. /\ ProjectData([op |-> "info", step |-> "children", data |-> data])
        /\ AgentData([op |-> "info", step |-> "children", data |-> data])
    BY <2>3 DEF ProjectData, AgentData
  <2> QED
    BY <1>1, <2>1, <2>4
<1>4. ASSUME NEW f \in FeatureIDs, NEW status \in FeatureStatuses,
             UpdateFeatureStatusRequest(r, f, status)
      PROVE  Elsewhere(r)
  <2> DEFINE data == [feature |-> f, project |-> features[f].project, status |-> status]
  <2>1. Free(r, "status") /\ Begin(r, "status", "load", data) /\ UNCHANGED Tables
    BY <1>4 DEF UpdateFeatureStatusRequest, FeatureRequest, Tables, catalogTables
  <2>2. /\ ProjectData([op |-> "status", step |-> "load", data |-> data])
        /\ AgentData([op |-> "status", step |-> "load", data |-> data])
    BY DEF ProjectData, AgentData
  <2> QED
    BY <1>1, <2>1, <2>2
<1>5. ASSUME NEW p \in ProjectIDs, NEW f \in FeatureIDs \cup ProjectIDs \cup {Nothing},
             NEW role \in AgentSlugs \cup {Nobody}, CreateTaskRequest(r, p, f, role)
      PROVE  Elsewhere(r)
  <2> DEFINE data == [project |-> p, feature |-> f, role |-> role]
  <2>1. Free(r, "create_task") /\ Begin(r, "create_task", "check_feature", data) /\ UNCHANGED Tables
    BY <1>5 DEF CreateTaskRequest, Tables, catalogTables
  <2>2. data \in TaskEntry
    BY DEF TaskEntry
  <2>3. /\ ProjectData([op |-> "create_task", step |-> "check_feature", data |-> data])
        /\ AgentData([op |-> "create_task", step |-> "check_feature", data |-> data])
    BY <2>2 DEF ProjectData, AgentData
  <2> QED
    BY <1>1, <2>1, <2>3
<1>6. ASSUME NEW t \in TaskIDs, NEW f \in FeatureIDs \cup {Nothing},
             NEW role \in AgentSlugs \cup {Nobody}, UpdateTaskRequest(r, t, f, role)
      PROVE  Elsewhere(r)
  <2> DEFINE row == [tasks[t] EXCEPT !.feature = f, !.role = role]
             data == [task |-> t, row |-> row]
  <2>1. /\ Free(r, "update_task") /\ Begin(r, "update_task", "write_task", data) /\ UNCHANGED Tables
        /\ tasks[t] \in TaskEntry
    BY <1>6 DEF UpdateTaskRequest, Tables, catalogTables, CatalogInv, TasksOK
  <2>2. row \in TaskEntry
    BY <2>1 DEF TaskEntry
  <2> HIDE DEF row
  <2>3. /\ ProjectData([op |-> "update_task", step |-> "write_task", data |-> data])
        /\ AgentData([op |-> "update_task", step |-> "write_task", data |-> data])
    BY <2>2 DEF ProjectData, AgentData
  <2> QED
    BY <1>1, <2>1, <2>3
<1>7. ASSUME NEW image \in Images, NEW latest \in BOOLEAN, CreateDockerfileRequest(r, image, latest)
      PROVE  Elsewhere(r)
  <2> DEFINE data == [image |-> image, latest |-> latest]
  <2>1. Free(r, "create_image") /\ Begin(r, "create_image", "insert", data) /\ UNCHANGED Tables
    BY <1>7 DEF CreateDockerfileRequest, CreateDockerfile, Tables, catalogTables
  <2>2. /\ ProjectData([op |-> "create_image", step |-> "insert", data |-> data])
        /\ AgentData([op |-> "create_image", step |-> "insert", data |-> data])
    BY DEF ProjectData, AgentData
  <2> QED
    BY <1>1, <2>1, <2>2
<1>8. ASSUME NEW p \in ProjectIDs, NEW d \in DockerfileIDs, SetProjectDockerfileRequest(r, p, d)
      PROVE  Elsewhere(r)
  <2> DEFINE data == [project |-> p, dockerfile |-> d]
  <2>1. Free(r, "set_image") /\ Begin(r, "set_image", "find_image", data) /\ UNCHANGED Tables
    BY <1>8 DEF SetProjectDockerfileRequest, Tables, catalogTables
  <2>2. /\ ProjectData([op |-> "set_image", step |-> "find_image", data |-> data])
        /\ AgentData([op |-> "set_image", step |-> "find_image", data |-> data])
    BY DEF ProjectData, AgentData
  <2> QED
    BY <1>1, <2>1, <2>2
<1>9. ASSUME NEW p \in ProjectIDs, ClearProjectDockerfileRequest(r, p)
      PROVE  Elsewhere(r)
  <2> DEFINE data == [project |-> p, dockerfile |-> Nothing]
  <2>1. Free(r, "clear_image") /\ Begin(r, "clear_image", "write_column", data) /\ UNCHANGED Tables
    BY <1>9 DEF ClearProjectDockerfileRequest, ClearProjectDockerfile, Tables, catalogTables
  <2>2. /\ ProjectData([op |-> "clear_image", step |-> "write_column", data |-> data])
        /\ AgentData([op |-> "clear_image", step |-> "write_column", data |-> data])
    BY DEF ProjectData, AgentData
  <2> QED
    BY <1>1, <2>1, <2>2
<1> QED
  BY <1>2, <1>3, <1>4, <1>5, <1>6, <1>7, <1>8, <1>9 DEF BeginsProject

(* Requests that begin, and of which nothing needs to be known. *)
BeginsPlain(r) ==
  \/ \E p \in ProjectIDs : CreateNotificationRequest(r, p)
  \/ CreateGlobalNotificationRequest(r)
  \/ \E p \in ProjectIDs \cup {Nothing} : CreateProjectRequest(r, p)
  \/ \E p \in ProjectIDs, u \in Users : CreateFeatureRequest(r, p, u)
  \/ \E p \in ProjectIDs : DeleteProjectRequest(r, p)
  \/ \E f \in FeatureIDs :
       UpdateFeatureRequest(r, f) \/ UpdateFeatureChangelogsRequest(r, f) \/ DeleteFeatureRequest(r, f)
  \/ \E d \in DockerfileIDs : DeleteDockerfileRequest(r, d)

(* And these are quiet with any data. *)
LEMMA BeginsPlainQuiet ==
  ASSUME CatalogInv, NEW r \in Requests, BeginsPlain(r), UNCHANGED <<agentTables, comments>>
  PROVE  Elsewhere(r)
<1>1. ASSUME NEW op \in PlainOps, NEW step, NEW data, Free(r, op), Begin(r, op, step, data),
             UNCHANGED Tables,
             step \in {"notify", "insert_project", "check_access", "collect", "load", "in_use"}
      PROVE  Elsewhere(r)
  <2>1. Free(r, op) \/ (Busy(r) /\ req[r].step # "set_latest")
    BY <1>1
  <2> QED
    BY <1>1, <2>1, PlainBegin, ZenonT(30)
<1>2. ASSUME NEW p \in ProjectIDs, CreateNotificationRequest(r, p) PROVE Elsewhere(r)
  BY <1>1, <1>2, "notification" \in PlainOps
  DEF PlainOps, CreateNotificationRequest, Tables, catalogTables
<1>3. ASSUME CreateGlobalNotificationRequest(r) PROVE Elsewhere(r)
  BY <1>1, <1>3, "notification" \in PlainOps
  DEF PlainOps, CreateGlobalNotificationRequest, Tables, catalogTables
<1>4. ASSUME NEW p \in ProjectIDs \cup {Nothing}, CreateProjectRequest(r, p) PROVE Elsewhere(r)
  BY <1>1, <1>4, "create_project" \in PlainOps
  DEF PlainOps, CreateProjectRequest, CreateProject, Tables, catalogTables
<1>5. ASSUME NEW p \in ProjectIDs, NEW u \in Users, CreateFeatureRequest(r, p, u) PROVE Elsewhere(r)
  BY <1>1, <1>5, "create_feature" \in PlainOps DEF PlainOps, CreateFeatureRequest, Tables, catalogTables
<1>6. ASSUME NEW p \in ProjectIDs, DeleteProjectRequest(r, p) PROVE Elsewhere(r)
  BY <1>1, <1>6, "delete_project" \in PlainOps
  DEF PlainOps, DeleteProjectRequest, DeleteProject, Tables, catalogTables
<1>7. ASSUME NEW f \in FeatureIDs, UpdateFeatureRequest(r, f) PROVE Elsewhere(r)
  BY <1>1, <1>7, "update_feature" \in PlainOps
  DEF PlainOps, UpdateFeatureRequest, FeatureRequest, Tables, catalogTables
<1>8. ASSUME NEW f \in FeatureIDs, UpdateFeatureChangelogsRequest(r, f) PROVE Elsewhere(r)
  BY <1>1, <1>8, "changelogs" \in PlainOps
  DEF PlainOps, UpdateFeatureChangelogsRequest, FeatureRequest, Tables, catalogTables
<1>9. ASSUME NEW f \in FeatureIDs, DeleteFeatureRequest(r, f) PROVE Elsewhere(r)
  BY <1>1, <1>9, "delete_feature" \in PlainOps
  DEF PlainOps, DeleteFeatureRequest, FeatureRequest, Tables, catalogTables
<1>10. ASSUME NEW d \in DockerfileIDs, DeleteDockerfileRequest(r, d) PROVE Elsewhere(r)
  BY <1>1, <1>10, "delete_image" \in PlainOps
  DEF PlainOps, DeleteDockerfileRequest, Tables, catalogTables
<1> QED
  BY <1>2, <1>3, <1>4, <1>5, <1>6, <1>7, <1>8, <1>9, <1>10 DEF BeginsPlain

(* A request that looks something up goes on, or ends. *)
LEMMA QuietMove ==
  ASSUME CatalogInv, NEW r \in Requests, NEW step, Goto(r, step) \/ Finish(r), UNCHANGED Tables,
         req[r].step \notin {"idle", "set_latest"},
         step \notin {"answer", "write_column", "list_tasks", "find_heir", "update_tasks", "remove",
                      "write_status", "resolve", "clear_skills", "insert_skills"},
         step = "insert" => req[r].op # "create_image", step = "write" => req[r].op # "update_image",
         step = "delete" => req[r].op \notin {"delete_image", "delete_skill"}
  PROVE  Elsewhere(r)
<1>1. Busy(r)
  BY DEF Busy
<1>2. CASE Goto(r, step)
  BY <1>1, <1>2, QuietGoto, ZenonT(30)
<1>3. CASE Finish(r)
  BY <1>1, <1>3, QuietFinish
<1> QED
  BY <1>2, <1>3

(* The look-ups of the requests on projects, features, tasks and images. *)
MovesProject(r) ==
  \/ CheckProjectAccess(r) \/ CheckTeamAccess(r)
  \/ CollectTree(r)
  \/ ListSubProjects(r) \/ AnswerInfo(r)
  \/ CreateFeature(r)
  \/ UpdateFeature(r) \/ UpdateFeatureChangelogs(r) \/ WriteFeature(r) \/ WriteChangelogs(r)
  \/ DeleteFeature(r)
  \/ CreateTask(r)

(* Checks that only let a request go on or end it. *)
LEMMA MovesProjectQuiet ==
  ASSUME CatalogInv, NEW r \in Requests, MovesProject(r), UNCHANGED <<agentTables, comments>>
  PROVE  Elsewhere(r)
<1>1. CASE CheckProjectAccess(r) \/ CheckTeamAccess(r)
  <2>1. Goto(r, "allowed") \/ Goto(r, "check_teams") \/ Finish(r)
    BY <1>1 DEF CheckProjectAccess, CheckTeamAccess
  <2>2. req[r].step \notin {"idle", "set_latest"} /\ UNCHANGED Tables
    BY <1>1 DEF CheckProjectAccess, CheckTeamAccess, Tables, catalogTables
  <2> QED
    BY <2>1, <2>2, QuietMove
<1>2. CASE CollectTree(r)
  BY <1>2, QuietMove DEF CollectTree, At, Tables, catalogTables
<1>3. CASE ListSubProjects(r) \/ AnswerInfo(r)
  BY <1>3, QuietMove DEF ListSubProjects, AnswerInfo, At, Tables, catalogTables
<1>4. CASE CreateFeature(r)
  BY <1>4, QuietMove DEF CreateFeature, At, Tables, catalogTables
<1>5. CASE UpdateFeature(r) \/ UpdateFeatureChangelogs(r)
  BY <1>5, QuietMove DEF UpdateFeature, UpdateFeatureChangelogs, FindFeature, Tables, catalogTables
<1>6. CASE WriteFeature(r) \/ WriteChangelogs(r)
  BY <1>6, QuietMove DEF WriteFeature, WriteChangelogs, WriteTextsOf, At, Tables, catalogTables
<1>7. CASE DeleteFeature(r)
  BY <1>7, QuietMove DEF DeleteFeature, FindFeature, Tables, catalogTables
<1>8. CASE CreateTask(r)
  BY <1>8, QuietMove DEF CreateTask, At, Tables, catalogTables
<1> QED
  BY <1>1, <1>2, <1>3, <1>4, <1>5, <1>6, <1>7, <1>8 DEF MovesProject

(* The Dockerfile that a project gets is one. *)
LEMMA SetProjectDockerfileQuiet ==
  ASSUME CatalogInv, NEW r \in Requests, SetProjectDockerfile(r), UNCHANGED <<agentTables, comments>>
  PROVE  Elsewhere(r)
<1>1. At(r, "set_image", "find_image") /\ Busy(r) /\ UNCHANGED Tables
  BY DEF SetProjectDockerfile, At, Busy, Tables, catalogTables
<1>2. CASE Goto(r, "write_column")
  <2> DEFINE q == [op |-> "set_image", step |-> "write_column", data |-> req[r].data]
  <2>1. Turn(r) /\ req'[r] = q
    BY <1>1, <1>2, TurnGoto DEF CatalogInv, At
  <2>2. ProjectData(q) /\ AgentData(q)
    BY <1>1, Remembers DEF ProjectData, AgentData, At
  <2>3. Grows
    BY <1>1 DEF Tables, catalogTables, projectTables, Grows
  <2>4. Wellformed(req[r])'
    BY <2>1, <2>2, <2>3, TurnWellformed, q = [op |-> q.op, step |-> q.step, data |-> q.data]
  <2> QED
    BY <1>1, <2>1, <2>4 DEF Elsewhere, Quiet, Watched, At
<1>3. CASE Finish(r)
  BY <1>1, <1>3, QuietFinish DEF At
<1> QED
  BY <1>2, <1>3 DEF SetProjectDockerfile

(* The climb goes up one project: what it has read stays a path. *)
LEMMA ClimbOne ==
  ASSUME LineageOK, NEW data, PathSoFar(data), data.parent \in DOMAIN projects,
         \A p \in DOMAIN projects : p \in ProjectIDs
  PROVE  PathSoFar([path |-> <<data.parent>> \o data.path, parent |-> projects[data.parent].parent])
<1> DEFINE old == data.path
           new == <<data.parent>> \o old
<1>1. PICK p, above :
        /\ p = old[Len(old)] /\ above = Len(lineage[p]) - Len(old)
        /\ old \in Seq(ProjectIDs) /\ old # <<>> /\ p \in DOMAIN lineage
        /\ above >= 0 /\ \A i \in 1 .. Len(old) : old[i] = lineage[p][above + i]
        /\ data.parent = IF above = 0 THEN Nothing ELSE lineage[p][above]
  BY DEF PathSoFar
<1>2. lineage[p] \in Seq(ProjectIDs) /\ Len(lineage[p]) \in Nat /\ Len(old) \in Nat
  BY <1>1 DEF LineageOK
<1>3. data.parent \in ProjectIDs /\ data.parent = lineage[p][above] /\ above \in 1 .. Len(lineage[p])
  BY <1>1, <1>2
<1>4. projects[data.parent].parent = IF above = 1 THEN Nothing ELSE lineage[p][above - 1]
  <2>0. \A i \in 1 .. Len(lineage[p]) :
          ParentOf(lineage[p][i]) = IF i = 1 THEN Nothing ELSE lineage[p][i - 1]
    BY <1>1 DEF LineageOK
  <2>1. ParentOf(lineage[p][above]) = IF above = 1 THEN Nothing ELSE lineage[p][above - 1]
    BY <1>3, <2>0
  <2>2. projects[data.parent].parent = ParentOf(data.parent)
    BY DEF LineageOK
  <2> QED
    BY <1>3, <2>1, <2>2
<1>5. /\ new \in Seq(ProjectIDs) /\ Len(new) = Len(old) + 1 /\ new # <<>>
      /\ new[1] = data.parent /\ \A i \in 2 .. Len(new) : new[i] = old[i - 1]
  BY <1>1, <1>3
<1>6. new[Len(new)] = p
  BY <1>1, <1>2, <1>5
<1> HIDE DEF new, old
<1>7. Len(lineage[p]) - Len(new) = above - 1
  BY <1>1, <1>2, <1>5
<1>8. \A i \in 1 .. Len(new) : new[i] = lineage[p][(above - 1) + i]
  <2> TAKE i \in 1 .. Len(new)
  <2>1. CASE i = 1
    BY <1>3, <1>5, <2>1
  <2>2. CASE i # 1
    <3>1. i \in 2 .. Len(new) /\ i - 1 \in 1 .. Len(old) /\ above + (i - 1) = (above - 1) + i
      BY <1>2, <1>3, <1>5, <2>2
    <3>2. new[i] = old[i - 1] /\ old[i - 1] = lineage[p][above + (i - 1)]
      BY <1>1, <1>5, <3>1
    <3> QED
      BY <3>1, <3>2
  <2> QED
    BY <2>1, <2>2
<1> DEFINE up == [path |-> new, parent |-> projects[data.parent].parent]
<1>10. PathSoFar(up)
  <2>1. up.path = new /\ up.parent = projects[data.parent].parent
    OBVIOUS
  <2> HIDE DEF up
  <2>2. up.path \in Seq(ProjectIDs) /\ up.path # <<>> /\ up.path[Len(up.path)] = p
        /\ p \in DOMAIN lineage
    BY <1>1, <1>5, <1>6, <2>1
  <2>3. Len(lineage[p]) - Len(up.path) >= 0
    BY <1>3, <1>7, <2>1
  <2>4. \A i \in 1 .. Len(up.path) : up.path[i] = lineage[p][Len(lineage[p]) - Len(up.path) + i]
    BY <1>7, <1>8, <2>1
  <2>5. up.parent = IF Len(lineage[p]) - Len(up.path) = 0 THEN Nothing
                    ELSE lineage[p][Len(lineage[p]) - Len(up.path)]
    BY <1>3, <1>4, <1>7, <2>1
  <2> QED
    BY <2>2, <2>3, <2>4, <2>5 DEF PathSoFar
<1> QED
  BY <1>10 DEF new, old

(* A climb is quiet: the path stays the end of a lineage, and one without a
   parent is the whole lineage. *)
LEMMA BuildBreadcrumbQuiet ==
  ASSUME CatalogInv, NEW r \in Requests, BuildBreadcrumb(r), UNCHANGED <<agentTables, comments>>
  PROVE  Elsewhere(r)
<1> DEFINE data == req[r].data
<1>1. /\ At(r, "info", "climb") /\ Busy(r) /\ UNCHANGED Tables /\ PathSoFar(data)
  BY Remembers DEF BuildBreadcrumb, At, Busy, Tables, catalogTables, ProjectData
<1>2. Grows
  BY <1>1 DEF Tables, catalogTables, projectTables, Grows
<1>3. CASE data.parent = Nothing /\ Goto(r, "answer")
  <2> DEFINE q == [op |-> "info", step |-> "answer", data |-> data]
  <2>1. Turn(r) /\ req'[r] = q
    BY <1>1, <1>3, TurnGoto DEF CatalogInv, At
  <2>2. ProjectData(q) /\ AgentData(q)
    BY <1>1, <1>3 DEF ProjectData, AgentData
  <2>3. Wellformed(req[r])'
    BY <1>2, <2>1, <2>2, TurnWellformed, q = [op |-> q.op, step |-> q.step, data |-> q.data]
  <2> QED
    BY <1>1, <2>1, <2>3 DEF Elsewhere, Quiet, Watched, At
<1>4. ASSUME data.parent \in DOMAIN projects,
             Continue(r, "climb", [path |-> <<data.parent>> \o data.path,
                                   parent |-> projects[data.parent].parent])
      PROVE  Elsewhere(r)
  <2> DEFINE new == [path |-> <<data.parent>> \o data.path, parent |-> projects[data.parent].parent]
  <2>1. PathSoFar(new)
    BY <1>1, <1>4, ClimbOne DEF CatalogInv, ProjectsOK
  <2>2. Begin(r, "info", "climb", new)
    BY <1>1, <1>4 DEF Continue, At
  <2> HIDE DEF new
  <2>3. /\ ProjectData([op |-> "info", step |-> "climb", data |-> new])
        /\ AgentData([op |-> "info", step |-> "climb", data |-> new])
    BY <2>1 DEF ProjectData, AgentData
  <2>4. Quiet(r) /\ req'[r] = [op |-> "info", step |-> "climb", data |-> new]
    BY <1>1, <2>2, <2>3, QuietBegin
  <2> QED
    BY <1>1, <2>4 DEF Elsewhere, Watched, At
<1>5. CASE Finish(r)
  BY <1>1, <1>5, QuietFinish DEF At
<1> QED
  BY <1>3, <1>4, <1>5 DEF BuildBreadcrumb

(* The requests on agents, skills and specialized agents begin. *)
BeginsAgent(r) ==
  \/ \E a \in AgentIDs : UpdateAgentRequest(r, a) \/ DeleteAgentRequest(r, a)
  \/ \E s \in SkillIDs : UpdateSkillRequest(r, s) \/ DeleteSkillRequest(r, s)
  \/ \E a \in AgentIDs, slug \in SkillSlugs : AddSkillRequest(r, a, slug) \/ RemoveSkillRequest(r, a, slug)
  \/ \E a \in AgentIDs, slug \in AgentSlugs, wanted \in SUBSET SkillSlugs :
       CreateSpecialRequest(r, a, slug, wanted)
  \/ \E x \in SpecialIDs, wanted \in (SUBSET SkillSlugs) \cup {{Nothing}} :
       UpdateSpecialRequest(r, x, wanted)
  \/ \E x \in SpecialIDs : DeleteSpecialRequest(r, x)
  \/ \E p \in ProjectIDs, slug \in AgentSlugs : AssignAgentRequest(r, p, slug)

(* Requests for agents and skills are quiet when they begin. *)
LEMMA BeginsAgentQuiet ==
  ASSUME CatalogInv, NEW r \in Requests, BeginsAgent(r), UNCHANGED <<catalogTables, comments>>
  PROVE  Elsewhere(r)
<1>1. ASSUME NEW op \in PlainOps, NEW step \in {"load", "find_skill", "insert", "find_agent"}, NEW data,
             Free(r, op), Begin(r, op, step, data), UNCHANGED Tables
      PROVE  Elsewhere(r)
  <2>1. Free(r, op) \/ (Busy(r) /\ req[r].step # "set_latest")
    BY <1>1
  <2> QED
    BY <1>1, <2>1, PlainBegin, ZenonT(30)
<1>2. ASSUME NEW a \in AgentIDs, UpdateAgentRequest(r, a) PROVE Elsewhere(r)
  BY <1>1, <1>2, "update_agent" \in PlainOps DEF PlainOps, UpdateAgentRequest, RowRequest, Tables
<1>3. ASSUME NEW a \in AgentIDs, DeleteAgentRequest(r, a) PROVE Elsewhere(r)
  BY <1>1, <1>3, "delete_agent" \in PlainOps DEF PlainOps, DeleteAgentRequest, RowRequest, Tables
<1>4. ASSUME NEW s \in SkillIDs, UpdateSkillRequest(r, s) PROVE Elsewhere(r)
  BY <1>1, <1>4, "update_skill" \in PlainOps DEF PlainOps, UpdateSkillRequest, RowRequest, Tables
<1>5. ASSUME NEW s \in SkillIDs, DeleteSkillRequest(r, s) PROVE Elsewhere(r)
  BY <1>1, <1>5, "delete_skill" \in PlainOps DEF PlainOps, DeleteSkillRequest, RowRequest, Tables
<1>6. ASSUME NEW a \in AgentIDs, NEW slug \in SkillSlugs, AddSkillRequest(r, a, slug)
      PROVE  Elsewhere(r)
  BY <1>1, <1>6, "add_skill" \in PlainOps DEF PlainOps, AddSkillRequest, PairRequest, Tables
<1>7. ASSUME NEW a \in AgentIDs, NEW slug \in SkillSlugs, RemoveSkillRequest(r, a, slug)
      PROVE  Elsewhere(r)
  BY <1>1, <1>7, "remove_skill" \in PlainOps DEF PlainOps, RemoveSkillRequest, PairRequest, Tables
<1>8. ASSUME NEW a \in AgentIDs, NEW slug \in AgentSlugs, NEW wanted \in SUBSET SkillSlugs,
             CreateSpecialRequest(r, a, slug, wanted)
      PROVE  Elsewhere(r)
  BY <1>1, <1>8, "create_special" \in PlainOps DEF PlainOps, CreateSpecialRequest, CreateSpecial, Tables
<1>9. ASSUME NEW x \in SpecialIDs, NEW wanted \in (SUBSET SkillSlugs) \cup {{Nothing}},
             UpdateSpecialRequest(r, x, wanted)
      PROVE  Elsewhere(r)
  BY <1>1, <1>9, "update_special" \in PlainOps DEF PlainOps, UpdateSpecialRequest, RowRequest, Tables
<1>10. ASSUME NEW x \in SpecialIDs, DeleteSpecialRequest(r, x) PROVE Elsewhere(r)
  BY <1>1, <1>10, "delete_special" \in PlainOps DEF PlainOps, DeleteSpecialRequest, RowRequest, Tables
<1>11. ASSUME NEW p \in ProjectIDs, NEW slug \in AgentSlugs, AssignAgentRequest(r, p, slug)
       PROVE  Elsewhere(r)
  BY <1>1, <1>11, "assign" \in PlainOps DEF PlainOps, AssignAgentRequest, Tables
<1> QED
  BY <1>2, <1>3, <1>4, <1>5, <1>6, <1>7, <1>8, <1>9, <1>10, <1>11 DEF BeginsAgent

(* Those that name a new slug, or who gets the tasks of another. *)
NamesSlug(r) ==
  \/ \E slug \in AgentSlugs : CreateAgentRequest(r, slug)
  \/ \E a \in AgentIDs, slug \in AgentSlugs : CloneAgentRequest(r, a, slug)
  \/ \E slug \in SkillSlugs : CreateSkillRequest(r, slug)
  \/ \E p \in ProjectIDs, slug \in AgentSlugs, heir \in AgentSlugs \cup {Nobody} :
       BulkReassignRequest(r, p, slug, heir)

(* Those that name a slug remember one that is a slug. *)
LEMMA NamesSlugQuiet ==
  ASSUME CatalogInv, NEW r \in Requests, NamesSlug(r), UNCHANGED <<catalogTables, comments>>
  PROVE  Elsewhere(r)
<1>1. ASSUME NEW op \in {"create_agent", "clone_agent", "create_skill", "reassign"},
             NEW step \in {"insert", "load", "find_heir"}, NEW data,
             Free(r, op), Begin(r, op, step, data), UNCHANGED Tables,
             op \in {"create_agent", "clone_agent"} => data.slug \in AgentSlugs,
             op = "create_skill" => data.slug \in SkillSlugs,
             step = "find_heir" => op = "reassign" /\ data.heir \in AgentSlugs \cup {Nobody}
      PROVE  Elsewhere(r)
  <2>1. /\ ProjectData([op |-> op, step |-> step, data |-> data])
        /\ AgentData([op |-> op, step |-> step, data |-> data])
    BY <1>1 DEF ProjectData, AgentData
  <2>2. Quiet(r) /\ req'[r] = [op |-> op, step |-> step, data |-> data]
    BY <1>1, <2>1, QuietBegin
  <2> QED
    BY <1>1, <2>2 DEF Elsewhere, Watched, Free, Busy
<1>2. ASSUME NEW slug \in AgentSlugs, CreateAgentRequest(r, slug) PROVE Elsewhere(r)
  <2>1. [slug |-> slug].slug = slug
    OBVIOUS
  <2> QED
    BY <1>1, <1>2, <2>1 DEF CreateAgentRequest, CreateAgent, Tables
<1>3. ASSUME NEW a \in AgentIDs, NEW slug \in AgentSlugs, CloneAgentRequest(r, a, slug)
      PROVE  Elsewhere(r)
  <2>1. [id |-> a, slug |-> slug].slug = slug
    OBVIOUS
  <2> QED
    BY <1>1, <1>3, <2>1 DEF CloneAgentRequest, CloneAgent, Tables
<1>4. ASSUME NEW slug \in SkillSlugs, CreateSkillRequest(r, slug) PROVE Elsewhere(r)
  <2>1. [slug |-> slug].slug = slug
    OBVIOUS
  <2> QED
    BY <1>1, <1>4, <2>1 DEF CreateSkillRequest, CreateSkill, Tables
<1>5. ASSUME NEW p \in ProjectIDs, NEW slug \in AgentSlugs, NEW heir \in AgentSlugs \cup {Nobody},
             BulkReassignRequest(r, p, slug, heir)
      PROVE  Elsewhere(r)
  <2>1. [project |-> p, slug |-> slug, heir |-> heir].heir = heir
    OBVIOUS
  <2> QED
    BY <1>1, <1>5, <2>1 DEF BulkReassignRequest, Tables
<1> QED
  BY <1>2, <1>3, <1>4, <1>5 DEF NamesSlug

(* The look-ups of the requests on agents, skills and specialized agents. *)
MovesAgent(r) ==
  \/ FindSource(r)
  \/ UpdateAgent(r) \/ UpdateSkill(r) \/ FindSkill(r) \/ UpdateSpecial(r)
  \/ DeleteAgent(r) \/ DeleteSpecial(r)
  \/ WriteAgent(r) \/ WriteSkill(r)

(* Checks of agents and skills that only let a request go on or end it. *)
LEMMA MovesAgentQuiet ==
  ASSUME CatalogInv, NEW r \in Requests, MovesAgent(r), UNCHANGED <<catalogTables, comments>>
  PROVE  Elsewhere(r)
<1>1. CASE FindSource(r)
  BY <1>1, QuietMove DEF FindSource, At, Tables
<1>2. CASE UpdateAgent(r) \/ UpdateSkill(r) \/ FindSkill(r) \/ UpdateSpecial(r)
  BY <1>2, QuietMove DEF UpdateAgent, UpdateSkill, FindSkill, UpdateSpecial, FindRow, At, Tables
<1>3. CASE DeleteAgent(r) \/ DeleteSpecial(r)
  BY <1>3, QuietMove DEF DeleteAgent, DeleteSpecial, FindRow, At, Tables
<1>4. CASE WriteAgent(r) \/ WriteSkill(r)
  BY <1>4, QuietMove DEF WriteAgent, WriteSkill, WriteTexts, At, Tables
<1> QED
  BY <1>1, <1>2, <1>3, <1>4 DEF MovesAgent

(* The look-ups by slug, which go on with what was found. *)
Resolves(r) ==
  AddSkillToAgent(r) \/ RemoveSkillFromAgent(r) \/ WriteSpecial(r) \/ ResolveSkills(r)
    \/ AssignAgentToProject(r)

(* A slug that is resolved gives the request other data. *)
LEMMA ResolvesQuiet ==
  ASSUME CatalogInv, NEW r \in Requests, Resolves(r), UNCHANGED <<catalogTables, comments>>
  PROVE  Elsewhere(r)
<1>1. ASSUME NEW step \in {"write", "resolve", "clear_skills", "place"}, NEW data,
             req[r].step \notin {"idle", "set_latest"}, req[r].op \in PlainOps,
             Continue(r, step, data), UNCHANGED Tables,
             step \in {"resolve", "clear_skills"} => req[r].op \in {"create_special", "update_special"}
      PROVE  Elsewhere(r)
  <2>1. Begin(r, req[r].op, step, data)
    BY <1>1 DEF Continue
  <2>2. Free(r, "none") \/ (Busy(r) /\ req[r].step # "set_latest")
    BY <1>1 DEF Busy
  <2> QED
    BY <1>1, <2>1, <2>2, PlainBegin, ZenonT(30)
<1>2. ASSUME Finish(r), req[r].step \notin {"idle", "set_latest"}, UNCHANGED Tables PROVE Elsewhere(r)
  BY <1>2, QuietFinish DEF Busy
<1>3. ASSUME NEW op \in {"add_skill", "remove_skill"}, FindPair(r, op) PROVE Elsewhere(r)
  <2>1. /\ req[r].step \notin {"idle", "set_latest"} /\ req[r].op \in PlainOps /\ UNCHANGED Tables
        /\ Finish(r) \/ \E data : Continue(r, "write", data)
    BY <1>3 DEF FindPair, At, Tables, PlainOps
  <2> QED
    BY <1>1, <1>2, <2>1
<1>4. CASE WriteSpecial(r)
  <2>1. /\ req[r].step \notin {"idle", "set_latest"} /\ req[r].op = "update_special" /\ UNCHANGED Tables
        /\ Finish(r) \/ \E data : Continue(r, "resolve", data)
    BY <1>4 DEF WriteSpecial, At, Tables
  <2> QED
    BY <1>1, <1>2, <2>1 DEF PlainOps
<1>5. CASE ResolveSkills(r)
  <2>1. /\ req[r].step = "resolve" /\ UNCHANGED Tables
        /\ Finish(r) \/ \E data : Continue(r, "clear_skills", data)
    BY <1>5 DEF ResolveSkills, Tables
  <2>2. req[r].op \in {"create_special", "update_special"}
    BY <2>1, Remembers DEF AgentData
  <2> QED
    BY <1>1, <1>2, <2>1, <2>2 DEF PlainOps
<1>6. CASE AssignAgentToProject(r)
  <2>1. /\ req[r].step \notin {"idle", "set_latest"} /\ req[r].op = "assign" /\ UNCHANGED Tables
        /\ Finish(r) \/ \E data : Continue(r, "place", data)
    BY <1>6 DEF AssignAgentToProject, At, Tables
  <2> QED
    BY <1>1, <1>2, <2>1 DEF PlainOps
<1> QED
  BY <1>3, <1>4, <1>5, <1>6 DEF Resolves, AddSkillToAgent, RemoveSkillFromAgent

(* The requests on comments. *)
QuietComment(r) ==
  \/ \E t \in TaskIDs, u \in Users : CreateCommentRequest(r, t, u)
  \/ \E c \in CommentIDs : UpdateCommentRequest(r, c) \/ DeleteCommentRequest(r, c)
  \/ CreateComment(r)
  \/ UpdateComment(r) \/ DeleteComment(r)
  \/ WriteComment(r)

(* Comments, up to their statements. *)
LEMMA CommentsQuiet ==
  ASSUME CatalogInv, NEW r \in Requests, QuietComment(r), UNCHANGED agentTables
  PROVE  Elsewhere(r)
<1>1. ASSUME NEW op \in {"comment", "update_comment", "delete_comment"},
             NEW step \in {"check_access", "load"}, NEW data,
             Free(r, op), Begin(r, op, step, data), UNCHANGED Tables
      PROVE  Elsewhere(r)
  <2>1. (Free(r, op) \/ (Busy(r) /\ req[r].step # "set_latest")) /\ op \in PlainOps
    BY <1>1 DEF PlainOps
  <2> QED
    BY <1>1, <2>1, PlainBegin, ZenonT(30)
<1>2. ASSUME NEW t \in TaskIDs, NEW u \in Users, CreateCommentRequest(r, t, u) PROVE Elsewhere(r)
  BY <1>1, <1>2 DEF CreateCommentRequest, Tables
<1>3. ASSUME NEW c \in CommentIDs, UpdateCommentRequest(r, c) PROVE Elsewhere(r)
  BY <1>1, <1>3 DEF UpdateCommentRequest, EditCommentRequest, Tables
<1>4. ASSUME NEW c \in CommentIDs, DeleteCommentRequest(r, c) PROVE Elsewhere(r)
  BY <1>1, <1>4 DEF DeleteCommentRequest, EditCommentRequest, Tables
<1>5. CASE CreateComment(r)
  BY <1>5, QuietMove DEF CreateComment, At, Tables
<1>6. CASE UpdateComment(r) \/ DeleteComment(r)
  BY <1>6, QuietMove DEF UpdateComment, DeleteComment, FindComment, At, Tables
<1>7. CASE WriteComment(r)
  BY <1>7, QuietMove DEF WriteComment, At, Tables
<1> QED
  BY <1>2, <1>3, <1>4, <1>5, <1>6, <1>7 DEF QuietComment

(* A request that gives up. *)
LEMMA GiveUpQuiet ==
  ASSUME CatalogInv, NEW r \in Requests, GiveUp(r)
  PROVE  Elsewhere(r)
BY QuietFinish DEF GiveUp, Tables

---------------------------------------------------------------------------
(* The steps that look up what the next statement relies on.  They are quiet,
   and without overlap what they have seen is so. *)

Sees(r) ==
  /\ Quiet(r) /\ req[r].step # "set_latest"
  /\ Current(req[r]) => Current(req[r])'

(* Where nothing needs to be seen. *)
LEMMA NothingSeen ==
  ASSUME CatalogInv, NEW r \in Requests, Busy(r), Finish(r), UNCHANGED Tables,
         req[r].step # "set_latest"
  PROVE  Sees(r) /\ req'[r] = Idle
<1>1. Elsewhere(r)
  BY QuietFinish
<1>2. req'[r] = Idle
  BY TurnFinish DEF CatalogInv
<1> QED
  BY <1>1, <1>2 DEF Sees, Elsewhere, Current, Idle

(* A request that goes on with the data it has. *)
LEMMA SeesGoto ==
  ASSUME CatalogInv, NEW r \in Requests, NEW op, NEW step, NEW data, At(r, op, req[r].step),
         data = req[r].data, Busy(r), Goto(r, step), UNCHANGED Tables,
         ProjectData([op |-> op, step |-> step, data |-> data]),
         AgentData([op |-> op, step |-> step, data |-> data])
  PROVE  Quiet(r) /\ req'[r] = [op |-> op, step |-> step, data |-> data]
<1> DEFINE q == [op |-> op, step |-> step, data |-> data]
<1>1. Turn(r) /\ req'[r] = q
  BY TurnGoto DEF CatalogInv, At
<1>2. Grows
  BY DEF Tables, catalogTables, projectTables, Grows
<1>3. Wellformed(req[r])'
  BY <1>1, <1>2, TurnWellformed, q = [op |-> q.op, step |-> q.step, data |-> q.data]
<1> QED
  BY <1>1, <1>3 DEF Quiet

(* A Dockerfile that is about to be deleted is not in use. *)
LEMMA DeleteDockerfileSees ==
  ASSUME CatalogInv, NEW r \in Requests, DeleteDockerfile(r), UNCHANGED <<agentTables, comments>>
  PROVE  Sees(r) /\ req'[r].op # "status"
<1> DEFINE data == req[r].data
<1>1. At(r, "delete_image", "in_use") /\ Busy(r) /\ UNCHANGED Tables
  BY DEF DeleteDockerfile, At, Busy, Tables, catalogTables
<1>2. CASE ~ImageInUse(data.dockerfile) /\ Goto(r, "delete")
  <2>1. /\ ProjectData([op |-> "delete_image", step |-> "delete", data |-> data])
        /\ AgentData([op |-> "delete_image", step |-> "delete", data |-> data])
    BY DEF ProjectData, AgentData
  <2>2. Quiet(r) /\ req'[r] = [op |-> "delete_image", step |-> "delete", data |-> data]
    BY <1>1, <1>2, <2>1, SeesGoto DEF At
  <2>3. ~ImageInUse(req[r].data.dockerfile)'
    BY <1>1, <1>2, <2>2 DEF ImageInUse, Tables, catalogTables, projectTables
  <2> QED
    BY <1>1, <2>2, <2>3 DEF Sees, Current, At
<1>3. CASE Finish(r)
  BY <1>1, <1>3, NothingSeen DEF At, Idle
<1> QED
  BY <1>2, <1>3 DEF DeleteDockerfile

(* Nor is a skill. *)
LEMMA DeleteSkillSees ==
  ASSUME CatalogInv, NEW r \in Requests, DeleteSkill(r), UNCHANGED <<catalogTables, comments>>
  PROVE  Sees(r) /\ req'[r].op # "status"
<1> DEFINE data == req[r].data
<1>1. At(r, "delete_skill", "in_use") /\ Busy(r) /\ UNCHANGED Tables
  BY DEF DeleteSkill, At, Busy, Tables
<1>2. CASE ~SkillInUse(data.id) /\ Goto(r, "delete")
  <2>1. /\ ProjectData([op |-> "delete_skill", step |-> "delete", data |-> data])
        /\ AgentData([op |-> "delete_skill", step |-> "delete", data |-> data])
    BY DEF ProjectData, AgentData
  <2>2. Quiet(r) /\ req'[r] = [op |-> "delete_skill", step |-> "delete", data |-> data]
    BY <1>1, <1>2, <2>1, SeesGoto DEF At
  <2>3. ~SkillInUse(req[r].data.id)'
    BY <1>1, <1>2, <2>2 DEF SkillInUse, Tables, agentTables
  <2> QED
    BY <1>1, <2>2, <2>3 DEF Sees, Current, At
<1>3. CASE Finish(r)
  BY <1>1, <1>3, NothingSeen DEF At, Idle
<1> QED
  BY <1>2, <1>3 DEF DeleteSkill

(* A row that is about to be written back is the one that is there, with the
   mark it had or the one that was asked for. *)
LEMMA UpdateDockerfileSees ==
  ASSUME CatalogInv, NEW r \in Requests, NEW d \in DockerfileIDs, NEW latest \in {"yes", "no", "unset"},
         UpdateDockerfileRequest(r, d, latest), UNCHANGED <<agentTables, comments>>
  PROVE  Sees(r) /\ req'[r].op # "status"
<1> DEFINE row == [dockerfiles[d] EXCEPT !.latest = IF latest = "unset" THEN @ ELSE latest = "yes"]
           data == [dockerfile |-> d, set |-> latest = "yes", row |-> row]
<1>1. /\ Free(r, "update_image") /\ Begin(r, "update_image", "write", data) /\ UNCHANGED Tables
      /\ d \in DOMAIN dockerfiles /\ dockerfiles[d] \in ImageRow
  BY DEF UpdateDockerfileRequest, UpdateDockerfile, Tables, catalogTables, CatalogInv, ImagesOK
<1>2. /\ row \in ImageRow /\ row.image = dockerfiles[d].image
      /\ row.latest => latest = "yes" \/ dockerfiles[d].latest
  BY <1>1 DEF ImageRow
<1> HIDE DEF row
<1>3. /\ ProjectData([op |-> "update_image", step |-> "write", data |-> data])
      /\ AgentData([op |-> "update_image", step |-> "write", data |-> data])
  BY <1>2 DEF ProjectData, AgentData
<1>4. Quiet(r) /\ req'[r] = [op |-> "update_image", step |-> "write", data |-> data]
  BY <1>1, <1>3, QuietBegin
<1>5. UNCHANGED dockerfiles
  BY <1>1 DEF Tables, catalogTables, imageTables
<1>6. /\ req'[r].op = "update_image" /\ req'[r].data.dockerfile = d
      /\ req'[r].data.row.image = dockerfiles'[d].image
      /\ req'[r].data.row.latest => req'[r].data.set \/ dockerfiles'[d].latest
  <2>1. data.dockerfile = d /\ data.row = row /\ data.set = (latest = "yes")
    OBVIOUS
  <2> HIDE DEF data
  <2>2. req'[r].op = "update_image" /\ req'[r].data = data
    BY <1>4
  <2>3. row.latest => (latest = "yes") \/ dockerfiles'[d].latest
    BY <1>2, <1>5
  <2>4. req'[r].data.row.latest => req'[r].data.set \/ dockerfiles'[d].latest
    BY <2>1, <2>2, <2>3, Zenon
  <2> QED
    BY <1>2, <1>5, <2>1, <2>2, <2>4
<1>7. Current(req[r])'
  BY <1>6 DEF Current
<1> QED
  BY <1>1, <1>4, <1>6, <1>7 DEF Sees, Free, Busy

(* An agent that is about to be removed has the slug that was read. *)
LEMMA RemoveAgentRequestSees ==
  ASSUME CatalogInv, NEW r \in Requests, NEW p \in ProjectIDs, NEW a \in AgentIDs,
         NEW heir \in AgentSlugs \cup {Nobody, Nothing}, RemoveAgentRequest(r, p, a, heir),
         UNCHANGED <<catalogTables, comments>>
  PROVE  Sees(r) /\ req'[r].op # "status"
<1> DEFINE data == [project |-> p, agent |-> a, slug |-> agents[a], heir |-> heir]
<1>1. /\ Free(r, "remove_agent") /\ Begin(r, "remove_agent", "list_tasks", data) /\ UNCHANGED Tables
      /\ <<p, a>> \in placed
  BY DEF RemoveAgentRequest, Tables
<1>2. a \in DOMAIN agents
  <2>1. <<p, a>>[2] \in DOMAIN agents
    BY <1>1 DEF CatalogInv, AgentsOK, AgentReferences
  <2> QED
    BY <2>1
<1>3. /\ ProjectData([op |-> "remove_agent", step |-> "list_tasks", data |-> data])
      /\ AgentData([op |-> "remove_agent", step |-> "list_tasks", data |-> data])
  BY DEF ProjectData, AgentData
<1>4. Quiet(r) /\ req'[r] = [op |-> "remove_agent", step |-> "list_tasks", data |-> data]
  BY <1>1, <1>3, QuietBegin
<1>5. UNCHANGED agents
  BY <1>1 DEF Tables, agentTables
<1>6. Current(req[r])'
  BY <1>2, <1>4, <1>5 DEF Current
<1> QED
  BY <1>1, <1>4, <1>6 DEF Sees, Free, Busy

(* It leaves no tasks, or somebody is named who gets them. *)
LEMMA RemoveAgentSees ==
  ASSUME CatalogInv, NEW r \in Requests, RemoveAgentFromProject(r), UNCHANGED <<catalogTables, comments>>
  PROVE  Sees(r) /\ req'[r].op # "status"
<1> DEFINE data == req[r].data
<1>1. /\ At(r, "remove_agent", "list_tasks") /\ Busy(r) /\ UNCHANGED Tables
      /\ data.heir \in AgentSlugs \cup {Nobody, Nothing}
  BY Remembers DEF RemoveAgentFromProject, At, Busy, Tables, AgentData
<1>2. ASSUME NEW step \in {"remove", "find_heir"}, Goto(r, step),
             step = "remove" => TasksOf(data.project, data.slug) = {},
             step = "find_heir" => data.heir # Nothing
      PROVE  Sees(r) /\ req'[r].op # "status"
  <2>1. /\ ProjectData([op |-> "remove_agent", step |-> step, data |-> data])
        /\ AgentData([op |-> "remove_agent", step |-> step, data |-> data])
    BY <1>1, <1>2 DEF ProjectData, AgentData
  <2>2. Quiet(r) /\ req'[r] = [op |-> "remove_agent", step |-> step, data |-> data]
    BY <1>1, <1>2, <2>1, SeesGoto DEF At
  <2>3. UNCHANGED <<agents, tasks>>
    BY <1>1 DEF Tables, catalogTables, featureTables, agentTables
  <2>4. Current(req[r]) => Current(req[r])'
    BY <1>1, <1>2, <2>2, <2>3 DEF Current, TasksOf, At
  <2> QED
    BY <1>1, <2>2, <2>4 DEF Sees, At
<1>3. CASE Finish(r)
  BY <1>1, <1>3, NothingSeen DEF At, Idle
<1> QED
  BY <1>2, <1>3 DEF RemoveAgentFromProject

(* Who gets the tasks is somebody. *)
LEMMA BulkReassignSees ==
  ASSUME CatalogInv, NEW r \in Requests, BulkReassignTasks(r), UNCHANGED <<catalogTables, comments>>
  PROVE  Sees(r) /\ req'[r].op # "status"
<1> DEFINE data == req[r].data
           op == req[r].op
<1>1. /\ req[r].step = "find_heir" /\ Busy(r) /\ UNCHANGED Tables
      /\ op \in {"remove_agent", "reassign"} /\ data.heir \in AgentSlugs \cup {Nobody}
  BY Remembers DEF BulkReassignTasks, Busy, Tables, AgentData
<1>2. CASE Goto(r, "update_tasks")
  <2>1. /\ ProjectData([op |-> op, step |-> "update_tasks", data |-> data])
        /\ AgentData([op |-> op, step |-> "update_tasks", data |-> data])
    BY <1>1 DEF ProjectData, AgentData
  <2>2. Quiet(r) /\ req'[r] = [op |-> op, step |-> "update_tasks", data |-> data]
    BY <1>1, <1>2, <2>1, SeesGoto DEF At
  <2>3. UNCHANGED agents
    BY <1>1 DEF Tables, agentTables
  <2>4. Current(req[r]) => Current(req[r])'
    BY <1>1, <1>2, <2>2, <2>3 DEF Current
  <2> QED
    BY <1>1, <2>2, <2>4 DEF Sees
<1>3. CASE Finish(r)
  BY <1>1, <1>3, NothingSeen DEF Idle
<1> QED
  BY <1>2, <1>3 DEF BulkReassignTasks

(* A status is written only where it may follow the one that was read. *)
LEMMA UpdateFeatureStatusSees ==
  ASSUME CatalogInv, NEW r \in Requests, UpdateFeatureStatus(r), UNCHANGED <<agentTables, comments>>
  PROVE  /\ Sees(r)
         /\ At(r, "status", "write_status")' =>
              LET q == req'[r].data IN
              q.feature \in DOMAIN features
                /\ q.status \in ValidFeatureTransitions[features[q.feature].status]
<1> DEFINE data == req[r].data
<1>1. At(r, "status", "load") /\ Busy(r) /\ UNCHANGED Tables /\ data.status \in FeatureStatuses
  BY Remembers DEF UpdateFeatureStatus, At, Busy, Tables, catalogTables, ProjectData
<1>2. CASE /\ data.feature \in DOMAIN features
           /\ data.status \in ValidFeatureTransitions[features[data.feature].status]
           /\ Goto(r, "write_status")
  <2>1. /\ ProjectData([op |-> "status", step |-> "write_status", data |-> data])
        /\ AgentData([op |-> "status", step |-> "write_status", data |-> data])
    BY <1>1 DEF ProjectData, AgentData
  <2>2. Quiet(r) /\ req'[r] = [op |-> "status", step |-> "write_status", data |-> data]
    BY <1>1, <1>2, <2>1, SeesGoto DEF At
  <2> QED
    BY <1>1, <1>2, <2>2 DEF Sees, Current, At
<1>3. CASE Finish(r)
  BY <1>1, <1>3, NothingSeen DEF At, Idle
<1> QED
  BY <1>2, <1>3 DEF UpdateFeatureStatus

---------------------------------------------------------------------------
(* The statements.  Each changes a few tables, and the others stay right. *)

(* Pairs of a larger set. *)
LEMMA PairsWithin ==
  ASSUME NEW S, NEW T, NEW U, NEW V, V \subseteq S \X U, S \subseteq T
  PROVE  V \subseteq T \X U
OBVIOUS

(* Access and notifications, when no project goes. *)
LEMMA NoticesStay ==
  ASSUME NoticesOK, UNCHANGED noticeTables, DOMAIN projects \subseteq DOMAIN projects'
  PROVE  NoticesOK'
<1>1. DOMAIN userAccess' \subseteq (DOMAIN projects') \X Users
  BY PairsWithin DEF NoticesOK, noticeTables, Users
<1>2. teamAccess' \subseteq (DOMAIN projects') \X Teams
  BY PairsWithin DEF NoticesOK, noticeTables, Users, Teams
<1>3. \A n \in DOMAIN notifications' :
        notifications'[n] \in NoticeRow /\ notifications'[n].project \in DOMAIN projects' \cup {Nothing}
  BY DEF NoticesOK, noticeTables
<1> QED
  BY <1>1, <1>2, <1>3 DEF NoticesOK, Users, Teams, NoticeRow

(* Features. *)
LEMMA FeaturesStay ==
  ASSUME FeaturesOK, UNCHANGED features, DOMAIN projects \subseteq DOMAIN projects'
  PROVE  FeaturesOK'
BY DEF FeaturesOK, FeatureRow, FeatureStatuses, ValidFeatureTransitions

(* Tasks and comments, when neither a project nor a feature goes. *)
LEMMA TasksStay ==
  ASSUME TasksOK, UNCHANGED <<tasks, comments>>, DOMAIN projects \subseteq DOMAIN projects',
         DOMAIN features \subseteq DOMAIN features'
  PROVE  TasksOK'
BY DEF TasksOK, TaskEntry

(* Agents, skills and placements. *)
LEMMA AgentsStay ==
  ASSUME AgentsOK, UNCHANGED agentTables, DOMAIN projects \subseteq DOMAIN projects'
  PROVE  AgentsOK'
BY DEF AgentsOK, AgentReferences, agentTables

(* Dockerfiles. *)
LEMMA ImagesStay ==
  ASSUME ImagesOK, UNCHANGED dockerfiles
  PROVE  ImagesOK'
BY DEF ImagesOK, ImageRow

(* Projects, when no Dockerfile goes. *)
LEMMA ProjectsStay ==
  ASSUME ProjectsOK, LineageOK, UNCHANGED projectTables, DOMAIN dockerfiles \subseteq DOMAIN dockerfiles'
  PROVE  ProjectsOK' /\ LineageOK' /\ Grows
<1>1. ProjectsOK'
  BY DEF ProjectsOK, ProjectRow, projectTables
<1>2. LineageOK'
  BY DEF LineageOK, ParentOf, projectTables
<1> QED
  BY <1>1, <1>2 DEF Grows, projectTables

(* A request that ends with its statement ... *)
LEMMA Ends ==
  ASSUME CatalogInv, Grows, NEW r \in Requests, req[r].step # "idle", Finish(r)
  PROVE  Turn(r) /\ Wellformed(req[r])' /\ req'[r] = Idle
<1>1. Turn(r) /\ req'[r] = Idle
  BY TurnFinish DEF CatalogInv, Busy
<1>2. Wellformed(req[r])'
  BY <1>1, IdleWellformed DEF Wellformed, ProjectData, AgentData, Idle
<1> QED
  BY <1>1, <1>2

(* ... or goes on. *)
LEMMA GoesOn ==
  ASSUME CatalogInv, Grows, NEW r \in Requests, NEW op, NEW step, NEW data, NEW asked,
         Free(r, asked) \/ Busy(r), Begin(r, op, step, data),
         ProjectData([op |-> op, step |-> step, data |-> data]),
         AgentData([op |-> op, step |-> step, data |-> data])
  PROVE  Turn(r) /\ Wellformed(req[r])' /\ req'[r] = [op |-> op, step |-> step, data |-> data]
<1> DEFINE q == [op |-> op, step |-> step, data |-> data]
<1>1. Turn(r) /\ req'[r] = q
  BY TurnBegin DEF CatalogInv
<1>2. Wellformed(req[r])'
  BY <1>1, TurnWellformed, q = [op |-> q.op, step |-> q.step, data |-> q.data]
<1> QED
  BY <1>1, <1>2

(* ... or goes on with the data that it has. *)
LEMMA GoesOnWith ==
  ASSUME CatalogInv, Grows, NEW r \in Requests, NEW op, NEW step, NEW data, op = req[r].op,
         data = req[r].data, Busy(r), Goto(r, step),
         ProjectData([op |-> op, step |-> step, data |-> data]),
         AgentData([op |-> op, step |-> step, data |-> data])
  PROVE  Turn(r) /\ Wellformed(req[r])' /\ req'[r] = [op |-> op, step |-> step, data |-> data]
<1> DEFINE q == [op |-> op, step |-> step, data |-> data]
<1>1. Turn(r) /\ req'[r] = q
  BY TurnGoto DEF CatalogInv
<1>2. Wellformed(req[r])'
  BY <1>1, TurnWellformed, q = [op |-> q.op, step |-> q.step, data |-> q.data]
<1> QED
  BY <1>1, <1>2

(* A statement that is a request of its own. *)
LEMMA AtOnce ==
  ASSUME CatalogInv, Grows, NEW r \in Requests, NEW op, Free(r, op), UNCHANGED req
  PROVE  Turn(r) /\ Wellformed(req[r])'
<1> DEFINE q == req[r]
<1>1. Turn(r) /\ ProjectData(q) /\ AgentData(q) /\ req'[r] = q
      /\ (q = Idle \/ q = [op |-> q.op, step |-> q.step, data |-> q.data])
  BY DEF Turn, Free, CatalogInv, RequestsOK, Wellformed
<1> HIDE DEF q
<1> QED
  BY <1>1, TurnWellformed

(* What is said of requests holds after a turn. *)
LEMMA TurnKeeps ==
  ASSUME CatalogInv, Grows, NEW r \in Requests, Turn(r), Wellformed(req[r])', UNCHANGED workload
  PROVE  RequestsOK' /\ OneAtATime'
<1>1. ASSUME NEW s \in Requests PROVE Wellformed(req[s])'
  <2>1. CASE s = r
    BY <2>1
  <2>2. CASE s # r
    <3>1. PICK q : q = req[s]
      OBVIOUS
    <3>2. /\ req'[s] = q /\ ProjectData(q) /\ AgentData(q)
          /\ q = Idle \/ q = [op |-> q.op, step |-> q.step, data |-> q.data]
      BY <2>2, <3>1 DEF Turn, CatalogInv, RequestsOK, Wellformed
    <3> QED
      BY <3>2, TurnWellformed
  <2> QED
    BY <2>1, <2>2
<1>2. OneAtATime'
  BY DEF Turn, CatalogInv, OneAtATime, Busy
<1> QED
  BY <1>1, <1>2 DEF RequestsOK, Turn

(* A quiet turn keeps everything. *)
LEMMA QuietKeeps ==
  ASSUME CatalogInv, NEW r \in Requests, Quiet(r), UNCHANGED workload
  PROVE  CatalogInv'
<1>1. /\ UNCHANGED <<projectTables, noticeTables, agentTables>>
      /\ UNCHANGED <<projects, features, tasks, dockerfiles, comments>>
  BY DEF Quiet, Tables, catalogTables, projectTables, featureTables, imageTables
<1>2. ProjectsOK' /\ LineageOK' /\ Grows
  BY <1>1, ProjectsStay DEF CatalogInv
<1>3. NoticesOK' /\ FeaturesOK' /\ TasksOK' /\ AgentsOK' /\ ImagesOK'
  BY <1>1, NoticesStay, FeaturesStay, TasksStay, AgentsStay, ImagesStay DEF CatalogInv
<1>4. RequestsOK' /\ OneAtATime'
  BY <1>2, TurnKeeps DEF Quiet
<1> QED
  BY <1>2, <1>3, <1>4 DEF CatalogInv

---------------------------------------------------------------------------
(* The statements that write. *)

(* What they keep: the request does not end where it relies on what it has
   looked up ... *)
Keeps(r) == Turn(r) /\ CatalogInv' /\ ~Watched(req'[r])

(* ... and what the action properties are about stays what it is. *)
StatusKept ==
  \A f \in DOMAIN features \cap DOMAIN features' : features'[f].status = features[f].status
ImagesKept ==
  \A p \in DOMAIN projects \cap DOMAIN projects' : projects'[p].dockerfile = projects[p].dockerfile
LatestKept(r) == UNCHANGED dockerfiles /\ req[r].step # "set_latest"
SkillsKept == \A row \in agentSkills \ agentSkills' : row[1] \notin DOMAIN agents'
PlacedKept ==
  \A row \in placed \ placed' : row[1] \notin DOMAIN projects' \/ row[2] \notin DOMAIN agents'

Harmless(r) == StatusKept /\ ImagesKept /\ LatestKept(r) /\ SkillsKept /\ PlacedKept

(* Nothing but the tables of notices changes. *)
LEMMA NoticeStep ==
  ASSUME CatalogInv, NEW r \in Requests, Turn(r), Wellformed(req[r])', ~Watched(req'[r]),
         req[r].step # "set_latest", NoticesOK',
         UNCHANGED <<projectTables, featureTables, imageTables, agentTables, comments, workload>>
  PROVE  Keeps(r) /\ Harmless(r)
<1>1. /\ UNCHANGED <<projectTables, agentTables, workload>>
      /\ UNCHANGED <<projects, features, tasks, dockerfiles, comments, agentSkills, placed>>
  BY DEF projectTables, featureTables, imageTables, agentTables
<1>2. ProjectsOK' /\ LineageOK' /\ Grows
  BY <1>1, ProjectsStay DEF CatalogInv
<1>3. FeaturesOK' /\ TasksOK' /\ AgentsOK' /\ ImagesOK'
  BY <1>1, FeaturesStay, TasksStay, AgentsStay, ImagesStay DEF CatalogInv
<1>4. RequestsOK' /\ OneAtATime'
  BY <1>1, <1>2, TurnKeeps
<1>5. CatalogInv'
  BY <1>2, <1>3, <1>4 DEF CatalogInv
<1> QED
  BY <1>1, <1>5 DEF Keeps, Harmless, StatusKept, ImagesKept, LatestKept, SkillsKept, PlacedKept

(* A notification is inserted for a project that is there. *)
LEMMA InsertNotificationKeeps ==
  ASSUME CatalogInv, NEW r \in Requests, NEW n, InsertNotification(r, n),
         UNCHANGED <<agentTables, comments, workload>>
  PROVE  Keeps(r) /\ Harmless(r)
<1> DEFINE p == req[r].data.project
<1>1. /\ req[r].step = "notify" /\ Finish(r)
      /\ UNCHANGED <<projectTables, featureTables, imageTables, userAccess, teamAccess>>
      /\ notifications' = IF p \in DOMAIN projects \cup {Nothing}
                          THEN Put(notifications, n, NewNotification(p)) ELSE notifications
  BY DEF InsertNotification
<1>2. Grows /\ projects' = projects
  BY <1>1 DEF Grows, projectTables
<1>3. Turn(r) /\ Wellformed(req[r])' /\ req'[r] = Idle
  BY <1>1, <1>2, Ends
<1>4. DOMAIN projects \subseteq ProjectIDs
  BY DEF CatalogInv, ProjectsOK
<1>5. \A m \in DOMAIN notifications' :
        notifications'[m] \in NoticeRow /\ notifications'[m].project \in DOMAIN projects \cup {Nothing}
  BY <1>1, <1>4 DEF CatalogInv, NoticesOK, NoticeRow, Put, NewNotification
<1>6. NoticesOK'
  BY <1>1, <1>2, <1>5 DEF CatalogInv, NoticesOK, Users, Teams, NoticeRow
<1> QED
  BY <1>1, <1>3, <1>6, NoticeStep DEF Watched, Idle

(* Notifications are read and deleted at once. *)
LEMMA NotificationStatementKeeps ==
  ASSUME CatalogInv, NEW r \in Requests, NEW op, NEW after, NotificationStatement(r, op, after),
         UNCHANGED <<agentTables, comments, workload>>,
         \A n \in DOMAIN after :
           n \in DOMAIN notifications /\ after[n] \in NoticeRow
             /\ after[n].project = notifications[n].project
  PROVE  Keeps(r) /\ Harmless(r)
<1>1. /\ Free(r, op) /\ UNCHANGED req /\ notifications' = after
      /\ UNCHANGED <<projectTables, featureTables, imageTables, userAccess, teamAccess>>
  BY DEF NotificationStatement
<1>2. Grows /\ projects' = projects
  BY <1>1 DEF Grows, projectTables
<1>3. Turn(r) /\ Wellformed(req[r])'
  BY <1>1, <1>2, AtOnce
<1>4. req'[r] = req[r] /\ req[r].step = "idle"
  BY <1>1 DEF Free, Busy
<1>5. NoticesOK'
  BY <1>1, <1>2 DEF CatalogInv, NoticesOK, Users, Teams, NoticeRow
<1> QED
  BY <1>1, <1>3, <1>4, <1>5, NoticeStep DEF Watched

(* A notification that is read stays one of its project. *)
LEMMA MarkReadKeeps ==
  ASSUME CatalogInv, NEW r \in Requests, NEW op, NEW ns, NotificationStatement(r, op, MarkRead(ns)),
         UNCHANGED <<agentTables, comments, workload>>
  PROVE  Keeps(r) /\ Harmless(r)
<1> DEFINE after == MarkRead(ns)
<1>1. \A n \in DOMAIN after :
        n \in DOMAIN notifications /\ after[n] \in NoticeRow
          /\ after[n].project = notifications[n].project
  BY DEF CatalogInv, NoticesOK, MarkRead, NoticeRow
<1>2. NotificationStatement(r, op, after)
  OBVIOUS
<1> HIDE DEF after
<1> QED
  BY <1>1, <1>2, NotificationStatementKeeps

(* One that is deleted is referred to by nothing. *)
LEMMA DeleteNotificationKeeps ==
  ASSUME CatalogInv, NEW r \in Requests, NEW n, DeleteNotification(r, n),
         UNCHANGED <<agentTables, comments, workload>>
  PROVE  Keeps(r) /\ Harmless(r)
<1> DEFINE after == Without(notifications, {n})
<1>1. \A m \in DOMAIN after :
        m \in DOMAIN notifications /\ after[m] \in NoticeRow
          /\ after[m].project = notifications[m].project
  BY DEF CatalogInv, NoticesOK, Without, NoticeRow
<1>2. NotificationStatement(r, "delete_notification", after)
  BY DEF DeleteNotification
<1> HIDE DEF after
<1> QED
  BY <1>1, <1>2, NotificationStatementKeeps

(* Access changes for projects that are there, and the project is told. *)
LEMMA AccessKeeps ==
  ASSUME CatalogInv, NEW r \in Requests, NEW op \in {"grant", "revoke"}, NEW p,
         NotifyAccessChange(r, op, p), UNCHANGED <<agentTables, comments, workload>>,
         DOMAIN userAccess' \subseteq (DOMAIN projects) \X Users,
         teamAccess' \subseteq (DOMAIN projects) \X Teams
  PROVE  Keeps(r) /\ Harmless(r)
<1>1. /\ Free(r, op) /\ Begin(r, op, "notify", [project |-> p])
      /\ UNCHANGED <<projectTables, featureTables, imageTables, notifications>>
  BY DEF NotifyAccessChange
<1>2. Grows /\ projects' = projects
  BY <1>1 DEF Grows, projectTables
<1> DEFINE q == [op |-> op, step |-> "notify", data |-> [project |-> p]]
<1>3. ProjectData(q) /\ AgentData(q)
  BY DEF ProjectData, AgentData
<1>4. Turn(r) /\ Wellformed(req[r])' /\ req'[r] = q
  BY <1>1, <1>2, <1>3, GoesOn
<1>5. NoticesOK'
  BY <1>1, <1>2 DEF CatalogInv, NoticesOK, Users, Teams, NoticeRow
<1>6. ~Watched(q) /\ req[r].step # "set_latest"
  BY <1>1 DEF Watched, Free, Busy
<1> QED
  BY <1>1, <1>4, <1>5, <1>6, NoticeStep

(* What NoticesOK says of access. *)
LEMMA AccessNow ==
  ASSUME CatalogInv
  PROVE  /\ DOMAIN userAccess \subseteq (DOMAIN projects) \X Users
         /\ teamAccess \subseteq (DOMAIN projects) \X Teams
BY DEF CatalogInv, NoticesOK

(* Access is granted to users, or their role changes ... *)
LEMMA GrantUserAccessKeeps ==
  ASSUME CatalogInv, NEW r \in Requests, NEW p, NEW u \in Users, NEW role,
         GrantUserAccess(r, p, u, role) \/ UpdateUserAccessRole(r, p, u, role),
         UNCHANGED <<agentTables, comments, workload>>
  PROVE  Keeps(r) /\ Harmless(r)
<1>1. NotifyAccessChange(r, "grant", p) /\ UNCHANGED teamAccess
  BY DEF GrantUserAccess, UpdateUserAccessRole
<1>2. DOMAIN userAccess' \subseteq (DOMAIN projects) \X Users
  <2>1. CASE GrantUserAccess(r, p, u, role)
    <3>1. p \in DOMAIN projects /\ DOMAIN userAccess' = DOMAIN userAccess \cup {<<p, u>>}
      BY <2>1 DEF GrantUserAccess, GrantUser, Put
    <3> QED
      BY <3>1, AccessNow
  <2>2. CASE UpdateUserAccessRole(r, p, u, role)
    BY <2>2, AccessNow DEF UpdateUserAccessRole, UpdateUserRole
  <2> QED
    BY <2>1, <2>2
<1> QED
  BY <1>1, <1>2, AccessNow, AccessKeeps

(* ... or it is taken from them ... *)
LEMMA RevokeUserAccessKeeps ==
  ASSUME CatalogInv, NEW r \in Requests, NEW p, NEW u, RevokeUserAccess(r, p, u),
         UNCHANGED <<agentTables, comments, workload>>
  PROVE  Keeps(r) /\ Harmless(r)
<1>1. NotifyAccessChange(r, "revoke", p) /\ UNCHANGED teamAccess
  BY DEF RevokeUserAccess
<1>2. DOMAIN userAccess' \subseteq DOMAIN userAccess
  BY DEF RevokeUserAccess, RevokeUser, Without
<1> QED
  BY <1>1, <1>2, AccessNow, AccessKeeps

(* ... and so for teams. *)
LEMMA TeamAccessKeeps ==
  ASSUME CatalogInv, NEW r \in Requests, NEW p, NEW t \in Teams,
         GrantTeamAccess(r, p, t) \/ RevokeTeamAccess(r, p, t),
         UNCHANGED <<agentTables, comments, workload>>
  PROVE  Keeps(r) /\ Harmless(r)
<1>1. CASE GrantTeamAccess(r, p, t)
  <2>1. /\ NotifyAccessChange(r, "grant", p) /\ UNCHANGED userAccess
        /\ p \in DOMAIN projects /\ teamAccess' = teamAccess \cup {<<p, t>>}
    BY <1>1 DEF GrantTeamAccess, GrantTeam
  <2>2. teamAccess' \subseteq (DOMAIN projects) \X Teams
    BY <2>1, AccessNow
  <2> QED
    BY <2>1, <2>2, AccessNow, AccessKeeps
<1>2. CASE RevokeTeamAccess(r, p, t)
  <2>1. /\ NotifyAccessChange(r, "revoke", p) /\ UNCHANGED userAccess
        /\ teamAccess' \subseteq teamAccess
    BY <1>2 DEF RevokeTeamAccess, RevokeTeam
  <2>2. teamAccess' \subseteq (DOMAIN projects) \X Teams
    BY <2>1, AccessNow
  <2> QED
    BY <2>1, <2>2, AccessNow, AccessKeeps
<1> QED
  BY <1>1, <1>2

---------------------------------------------------------------------------
(* Statements on projects. *)

(* A column of projects changes, not what a project is part of. *)
LEMMA ColumnStep ==
  ASSUME CatalogInv, NEW r \in Requests, Turn(r), Wellformed(req[r])', ~Watched(req'[r]),
         UNCHANGED <<lineage, featureTables, noticeTables, agentTables, comments, workload>>,
         DOMAIN projects' = DOMAIN projects,
         \A p \in DOMAIN projects :
           /\ projects'[p] \in ProjectRow /\ projects'[p].parent = projects[p].parent
           /\ projects'[p].dockerfile \in DOMAIN dockerfiles' \cup {Nothing},
         ImagesOK'
  PROVE  Keeps(r) /\ StatusKept /\ SkillsKept /\ PlacedKept
<1>1. UNCHANGED <<features, tasks, comments, agentSkills, placed>>
  BY DEF featureTables, agentTables
<1>2. Grows /\ \A p : ParentOf(p)' = ParentOf(p)
  BY DEF Grows, ParentOf
<1>3. LineageOK'
  <2>1. /\ DOMAIN lineage \subseteq ProjectIDs
        /\ \A p \in DOMAIN lineage :
             /\ lineage[p] \in Seq(ProjectIDs)
             /\ lineage[p] # <<>> /\ lineage[p][Len(lineage[p])] = p
             /\ \A i \in 1 .. Len(lineage[p]) :
                  /\ lineage[p][i] \in DOMAIN lineage
                  /\ ParentOf(lineage[p][i]) = IF i = 1 THEN Nothing ELSE lineage[p][i - 1]
        /\ DOMAIN projects \subseteq DOMAIN lineage
        /\ \A p \in DOMAIN projects : projects[p].parent = ParentOf(p)
    BY DEF CatalogInv, LineageOK
  <2>2. \A p \in DOMAIN projects : projects'[p].parent = ParentOf(p)'
    BY <2>1, <1>2
  <2> QED
    BY <2>1, <2>2 DEF LineageOK, ParentOf
<1>4. ProjectsOK'
  BY DEF CatalogInv, ProjectsOK, ProjectRow
<1>5. NoticesOK' /\ FeaturesOK' /\ TasksOK' /\ AgentsOK'
  BY <1>1, NoticesStay, FeaturesStay, TasksStay, AgentsStay DEF CatalogInv
<1>6. RequestsOK' /\ OneAtATime'
  BY <1>2, TurnKeeps
<1>7. CatalogInv'
  BY <1>3, <1>4, <1>5, <1>6 DEF CatalogInv
<1> QED
  BY <1>1, <1>7 DEF Keeps, StatusKept, SkillsKept, PlacedKept

(* The parent that is written back is the one that the project has. *)
LEMMA WriteProjectKeeps ==
  ASSUME CatalogInv, NEW r \in Requests, WriteProject(r), UNCHANGED <<agentTables, comments, workload>>
  PROVE  Keeps(r) /\ Harmless(r)
<1> DEFINE q == req[r].data
<1>1. /\ At(r, "update_project", "write") /\ Finish(r)
      /\ projects' = IF q.project \in DOMAIN projects
                     THEN [projects EXCEPT ![q.project].parent = q.row.parent] ELSE projects
      /\ UNCHANGED <<lineage, featureTables, imageTables, noticeTables>>
  BY DEF WriteProject
<1>2. Grows /\ req[r].step = "write"
  BY <1>1 DEF Grows, At
<1>3. Turn(r) /\ Wellformed(req[r])' /\ req'[r] = Idle
  BY <1>1, <1>2, Ends
<1>4. q.row.parent = ParentOf(q.project)
  BY <1>1, Remembers DEF ProjectData, At
<1>5. q.project \in DOMAIN projects => projects[q.project].parent = q.row.parent
  BY <1>4 DEF CatalogInv, LineageOK
<1>6. \A p \in DOMAIN projects :
        projects[p] \in ProjectRow /\ projects[p].dockerfile \in DOMAIN dockerfiles \cup {Nothing}
  BY DEF CatalogInv, ProjectsOK
<1> HIDE DEF q
<1>7. DOMAIN projects' = DOMAIN projects /\ dockerfiles' = dockerfiles
  BY <1>1 DEF imageTables
<1>8. ASSUME NEW p \in DOMAIN projects
      PROVE  /\ projects'[p] \in ProjectRow /\ projects'[p].parent = projects[p].parent
             /\ projects'[p].dockerfile = projects[p].dockerfile
  BY <1>1, <1>5, <1>6 DEF ProjectRow
<1>9. ImagesOK' /\ ~Watched(req'[r])
  BY <1>3, <1>7, ImagesStay DEF CatalogInv, Watched, Idle
<1>10. UNCHANGED <<lineage, featureTables, noticeTables, agentTables, comments, workload>>
  BY <1>1
<1>11. Keeps(r) /\ StatusKept /\ SkillsKept /\ PlacedKept
  BY <1>3, <1>6, <1>7, <1>8, <1>9, <1>10, ColumnStep
<1> QED
  BY <1>2, <1>7, <1>8, <1>11 DEF Harmless, ImagesKept, LatestKept

(* The projects that use a Dockerfile forget it. *)
LEMMA DropDockerfileKeeps ==
  ASSUME CatalogInv, NEW r \in Requests, DropDockerfile(r), UNCHANGED <<agentTables, comments, workload>>
  PROVE  Keeps(r) /\ StatusKept /\ SkillsKept /\ PlacedKept /\ req'[r] = Idle
<1> DEFINE d == req[r].data.dockerfile
<1>1. /\ At(r, "delete_image", "delete") /\ Finish(r)
      /\ dockerfiles' = Without(dockerfiles, {d})
      /\ projects' = [p \in DOMAIN projects |->
                        [projects[p] EXCEPT !.dockerfile = IF @ = d THEN Nothing ELSE @]]
      /\ UNCHANGED <<lineage, featureTables, noticeTables>>
  BY DEF DropDockerfile
<1>2. Grows /\ req[r].step # "idle"
  BY <1>1 DEF Grows, At
<1>3. Turn(r) /\ Wellformed(req[r])' /\ req'[r] = Idle
  BY <1>1, <1>2, Ends
<1>4. \A p \in DOMAIN projects :
        projects[p] \in ProjectRow /\ projects[p].dockerfile \in DOMAIN dockerfiles \cup {Nothing}
  BY DEF CatalogInv, ProjectsOK
<1> HIDE DEF d
<1>5. DOMAIN projects' = DOMAIN projects /\ DOMAIN dockerfiles' = DOMAIN dockerfiles \ {d}
  BY <1>1 DEF Without
<1>6. ASSUME NEW p \in DOMAIN projects
      PROVE  /\ projects'[p] \in ProjectRow /\ projects'[p].parent = projects[p].parent
             /\ projects'[p].dockerfile \in DOMAIN dockerfiles' \cup {Nothing}
  BY <1>1, <1>4, <1>5 DEF ProjectRow
<1>7. ImagesOK' /\ ~Watched(req'[r])
  BY <1>1, <1>3 DEF CatalogInv, ImagesOK, ImageRow, Without, Watched, Idle
<1>8. UNCHANGED <<lineage, featureTables, noticeTables, agentTables, comments, workload>>
  BY <1>1
<1> QED
  BY <1>3, <1>5, <1>6, <1>7, <1>8, ColumnStep

(* The column is set to a Dockerfile that is there, or to NULL. *)
LEMMA WriteDockerfileColumnKeeps ==
  ASSUME CatalogInv, NEW r \in Requests, WriteDockerfileColumn(r),
         UNCHANGED <<agentTables, comments, workload>>
  PROVE  Keeps(r) /\ StatusKept /\ LatestKept(r) /\ SkillsKept /\ PlacedKept
<1> DEFINE q == req[r].data
<1>1. /\ req[r].step = "write_column" /\ Finish(r)
      /\ projects' = IF q.project \in DOMAIN projects /\ q.dockerfile \in DOMAIN dockerfiles \cup {Nothing}
                     THEN [projects EXCEPT ![q.project].dockerfile = q.dockerfile] ELSE projects
      /\ UNCHANGED <<lineage, featureTables, imageTables, noticeTables>>
  BY DEF WriteDockerfileColumn
<1>2. Grows /\ req[r].step # "idle"
  BY <1>1 DEF Grows
<1>3. Turn(r) /\ Wellformed(req[r])' /\ req'[r] = Idle
  BY <1>1, <1>2, Ends
<1>4. \A p \in DOMAIN projects :
        projects[p] \in ProjectRow /\ projects[p].dockerfile \in DOMAIN dockerfiles \cup {Nothing}
  BY DEF CatalogInv, ProjectsOK
<1>5. DOMAIN dockerfiles \subseteq DockerfileIDs
  BY DEF CatalogInv, ImagesOK
<1> HIDE DEF q
<1>6. DOMAIN projects' = DOMAIN projects /\ dockerfiles' = dockerfiles
  BY <1>1 DEF imageTables
<1>7. ASSUME NEW p \in DOMAIN projects
      PROVE  /\ projects'[p] \in ProjectRow /\ projects'[p].parent = projects[p].parent
             /\ projects'[p].dockerfile \in DOMAIN dockerfiles' \cup {Nothing}
  BY <1>1, <1>4, <1>5, <1>6 DEF ProjectRow
<1>8. ImagesOK' /\ ~Watched(req'[r])
  BY <1>3, <1>6, ImagesStay DEF CatalogInv, Watched, Idle
<1>9. UNCHANGED <<lineage, featureTables, noticeTables, agentTables, comments, workload>>
  BY <1>1
<1> QED
  BY <1>1, <1>3, <1>6, <1>7, <1>8, <1>9, ColumnStep DEF LatestKept

(* What LineageOK says of a project. *)
LEMMA LineageOf ==
  ASSUME LineageOK, NEW p \in DOMAIN lineage
  PROVE  /\ p \in ProjectIDs /\ lineage[p] \in Seq(ProjectIDs)
         /\ Len(lineage[p]) \in Nat \ {0} /\ lineage[p][Len(lineage[p])] = p
         /\ \A i \in 1 .. Len(lineage[p]) :
              /\ lineage[p][i] \in DOMAIN lineage
              /\ ParentOf(lineage[p][i]) = IF i = 1 THEN Nothing ELSE lineage[p][i - 1]
BY DEF LineageOK

(* A new project is below the one that it is created in, or is a root. *)
LEMMA InsertProjectLineage ==
  ASSUME LineageOK, NEW p \in ProjectIDs, p \notin DOMAIN lineage,
         NEW parent \in DOMAIN lineage \cup {Nothing}, NEW above,
         above = IF parent = Nothing THEN <<>> ELSE lineage[parent],
         lineage' = Put(lineage, p, Append(above, p)),
         DOMAIN projects' \subseteq DOMAIN projects \cup {p},
         \A q \in DOMAIN projects' : q # p => projects'[q].parent = projects[q].parent,
         p \in DOMAIN projects' => projects'[p].parent = parent
  PROVE  LineageOK' /\ Grows
<1>1. Nothing \notin ProjectIDs /\ DOMAIN lineage \subseteq ProjectIDs
  BY DEF LineageOK
<1>2. /\ above \in Seq(ProjectIDs)
      /\ \A i \in 1 .. Len(above) :
           /\ above[i] \in DOMAIN lineage
           /\ ParentOf(above[i]) = IF i = 1 THEN Nothing ELSE above[i - 1]
  <2>1. CASE parent = Nothing
    <3>1. above = <<>> /\ above \in Seq(ProjectIDs) /\ Len(above) = 0
      BY <2>1
    <3>2. 1 .. Len(above) = {}
      BY <3>1
    <3> QED
      BY <3>1, <3>2
  <2>2. CASE parent # Nothing
    BY <2>2, LineageOf
  <2> QED
    BY <2>1, <2>2
<1>3. DOMAIN lineage' = DOMAIN lineage \cup {p} /\ lineage'[p] = Append(above, p)
      /\ \A q \in DOMAIN lineage : lineage'[q] = lineage[q]
  BY DEF Put
<1>4. Grows
  BY <1>3 DEF Grows
<1> DEFINE new == Append(above, p)
           Above(q) == IF Len(lineage'[q]) = 1 THEN Nothing ELSE lineage'[q][Len(lineage'[q]) - 1]
<1>5. /\ new \in Seq(ProjectIDs) /\ Len(new) = Len(above) + 1 /\ new[Len(new)] = p
      /\ \A i \in 1 .. Len(above) : new[i] = above[i]
      /\ Len(above) \in Nat
  BY <1>2
<1>6. Above(p) = IF Len(new) = 1 THEN Nothing ELSE new[Len(new) - 1]
  BY <1>3
<1>7. \A q \in DOMAIN lineage : Above(q) = ParentOf(q)
  BY <1>3 DEF ParentOf
<1> HIDE DEF new, Above
<1>8. Above(p) = parent
  <2>1. CASE parent = Nothing
    <3>1. above = <<>> /\ Len(above) = 0
      BY <2>1
    <3> QED
      BY <1>5, <1>6, <2>1, <3>1
  <2>2. CASE parent # Nothing
    <3>1. above = lineage[parent] /\ Len(above) \in Nat \ {0} /\ above[Len(above)] = parent
      BY <2>2, LineageOf
    <3>2. new[Len(new) - 1] = above[Len(above)] /\ Len(new) # 1
      BY <1>5, <3>1
    <3> QED
      BY <1>6, <3>1, <3>2
  <2> QED
    BY <2>1, <2>2
<1>9. ASSUME NEW q \in DOMAIN lineage'
      PROVE  /\ lineage'[q] \in Seq(ProjectIDs)
             /\ lineage'[q] # <<>> /\ lineage'[q][Len(lineage'[q])] = q
             /\ \A i \in 1 .. Len(lineage'[q]) :
                  /\ lineage'[q][i] \in DOMAIN lineage'
                  /\ Above(lineage'[q][i]) = IF i = 1 THEN Nothing ELSE lineage'[q][i - 1]
  <2>1. CASE q \in DOMAIN lineage
    <3>1. lineage'[q] = lineage[q]
      BY <1>3, <2>1
    <3>2. /\ lineage[q] \in Seq(ProjectIDs) /\ lineage[q] # <<>> /\ lineage[q][Len(lineage[q])] = q
          /\ \A i \in 1 .. Len(lineage[q]) :
               /\ lineage[q][i] \in DOMAIN lineage
               /\ ParentOf(lineage[q][i]) = IF i = 1 THEN Nothing ELSE lineage[q][i - 1]
      BY <2>1, LineageOf
    <3>3. \A i \in 1 .. Len(lineage[q]) :
            /\ lineage[q][i] \in DOMAIN lineage'
            /\ Above(lineage[q][i]) = IF i = 1 THEN Nothing ELSE lineage[q][i - 1]
      BY <1>3, <1>7, <3>2
    <3> QED
      BY <3>1, <3>2, <3>3
  <2>2. CASE q = p
    <3>1. lineage'[q] = new
      BY <1>3, <2>2 DEF new
    <3>2. ASSUME NEW i \in 1 .. Len(new)
          PROVE  /\ new[i] \in DOMAIN lineage'
                 /\ Above(new[i]) = IF i = 1 THEN Nothing ELSE new[i - 1]
      <4>1. CASE i = Len(new)
        BY <1>3, <1>5, <1>6, <4>1
      <4>2. CASE i # Len(new)
        <5>1. i \in 1 .. Len(above) /\ new[i] = above[i] /\ (i # 1 => new[i - 1] = above[i - 1])
          BY <1>5, <4>2
        <5> QED
          BY <1>2, <1>3, <1>7, <5>1
      <4> QED
        BY <4>1, <4>2
    <3>3. new # <<>>
      BY <1>5
    <3> QED
      BY <1>5, <2>2, <3>1, <3>2, <3>3
  <2> QED
    BY <1>3, <2>1, <2>2
<1>10. DOMAIN projects' \subseteq DOMAIN lineage'
  BY <1>3 DEF LineageOK
<1>11. \A q \in DOMAIN projects' : projects'[q].parent = Above(q)
  <2>1. DOMAIN projects \subseteq DOMAIN lineage /\ \A q \in DOMAIN projects : projects[q].parent = ParentOf(q)
    BY DEF LineageOK
  <2> QED
    BY <1>7, <1>8, <2>1
<1> QED
  BY <1>1, <1>3, <1>4, <1>9, <1>10, <1>11 DEF LineageOK, ParentOf, Above

(* A project is inserted where its parent is, or not at all. *)
LEMMA InsertProjectKeeps ==
  ASSUME CatalogInv, NEW r \in Requests, NEW p \in ProjectIDs, InsertProject(r, p),
         UNCHANGED <<agentTables, comments, workload>>
  PROVE  Keeps(r) /\ Harmless(r)
<1> DEFINE parent == req[r].data.parent
           above == IF parent = Nothing THEN <<>> ELSE lineage[parent]
<1>1. /\ At(r, "create_project", "insert_project") /\ Finish(r)
      /\ p \notin DOMAIN lineage
      /\ UNCHANGED <<featureTables, imageTables, noticeTables>>
      /\ IF parent \in DOMAIN projects \cup {Nothing}
         THEN /\ projects' = Put(projects, p, [parent |-> parent, dockerfile |-> Nothing])
              /\ lineage' = Put(lineage, p, Append(above, p))
         ELSE UNCHANGED projectTables
  BY DEF InsertProject
<1> HIDE DEF parent
<1>2. /\ UNCHANGED <<features, tasks, dockerfiles, comments, agentSkills, placed>>
      /\ UNCHANGED <<noticeTables, agentTables, workload>>
  BY <1>1 DEF featureTables, imageTables, agentTables
<1>3. DOMAIN projects \subseteq DOMAIN lineage /\ DOMAIN projects \subseteq ProjectIDs
  BY DEF CatalogInv, LineageOK, ProjectsOK
<1>4. /\ LineageOK' /\ Grows /\ ProjectsOK'
      /\ DOMAIN projects \subseteq DOMAIN projects'
      /\ \A q \in DOMAIN projects : projects'[q] = projects[q]
  <2>1. CASE parent \in DOMAIN projects \cup {Nothing}
    <3>1. /\ DOMAIN projects' = DOMAIN projects \cup {p}
          /\ projects'[p] = [parent |-> parent, dockerfile |-> Nothing]
          /\ \A q \in DOMAIN projects : projects'[q] = projects[q]
      BY <1>1, <1>3, <2>1 DEF Put
    <3>2. lineage' = Put(lineage, p, Append(above, p))
      BY <1>1, <2>1
    <3>3. LineageOK' /\ Grows
      BY <1>1, <1>3, <2>1, <3>1, <3>2, InsertProjectLineage DEF CatalogInv
    <3>4. ProjectsOK'
      BY <1>2, <1>3, <2>1, <3>1 DEF CatalogInv, ProjectsOK, ProjectRow
    <3> QED
      BY <3>1, <3>3, <3>4
  <2>2. CASE parent \notin DOMAIN projects \cup {Nothing}
    <3>1. UNCHANGED projectTables
      BY <1>1, <2>2
    <3> QED
      BY <1>2, <3>1, ProjectsStay DEF CatalogInv, projectTables
  <2> QED
    BY <2>1, <2>2
<1>5. NoticesOK' /\ FeaturesOK' /\ TasksOK' /\ AgentsOK' /\ ImagesOK'
  BY <1>2, <1>4, NoticesStay, FeaturesStay, TasksStay, AgentsStay, ImagesStay DEF CatalogInv
<1>6. req[r].step = "insert_project"
  BY <1>1 DEF At
<1>7. Turn(r) /\ Wellformed(req[r])' /\ req'[r] = Idle
  BY <1>1, <1>4, <1>6, Ends
<1>8. RequestsOK' /\ OneAtATime'
  BY <1>2, <1>4, <1>7, TurnKeeps
<1>9. Keeps(r)
  BY <1>4, <1>5, <1>7, <1>8 DEF Keeps, CatalogInv, Watched, Idle
<1> QED
  BY <1>2, <1>4, <1>6, <1>9
  DEF Harmless, StatusKept, ImagesKept, LatestKept, SkillsKept, PlacedKept

(* With a project its children go. *)
LEMMA SubtreeClosed ==
  ASSUME NEW p, NEW q \in DOMAIN projects, projects[q].parent \in Subtree(p)
  PROVE  q \in Subtree(p)
<1>1. p \in DOMAIN projects
  BY DEF Subtree
<1>2. ASSUME NEW ps \in SUBSET DOMAIN projects, p \in ps, WithChildren(ps)
      PROVE  q \in ps
  <2>1. projects[q].parent \in ps
    BY <1>2 DEF Subtree
  <2> QED
    BY <1>2, <2>1 DEF WithChildren
<1> QED
  BY <1>1, <1>2 DEF Subtree

(* Whatever hangs on the projects that go goes with them, or forgets their
   features. *)
LEMMA RemoveProjectKeeps ==
  ASSUME CatalogInv, NEW r \in Requests, RemoveProject(r), UNCHANGED workload
  PROVE  Keeps(r) /\ Harmless(r)
<1> DEFINE doomed == Doomed(r)
           gone == {f \in DOMAIN features : features[f].project \in doomed}
           left == Without(tasks, {t \in DOMAIN tasks : tasks[t].project \in doomed})
<1>1. /\ At(r, "delete_project", "delete") /\ Finish(r)
      /\ projects' = Without(projects, doomed)
      /\ userAccess' = Without(userAccess, {a \in DOMAIN userAccess : a[1] \in doomed})
      /\ teamAccess' = {a \in teamAccess : a[1] \notin doomed}
      /\ features' = Without(features, gone)
      /\ notifications' =
           Without(notifications, {n \in DOMAIN notifications : notifications[n].project \in doomed})
      /\ tasks' = ForgetFeatures(left, gone)
      /\ placed' = {row \in placed : row[1] \notin doomed}
      /\ comments' = Without(comments, CommentsOf(DOMAIN tasks \ DOMAIN tasks'))
      /\ UNCHANGED <<lineage, imageTables, agents, skills, specials, agentSkills, specialSkills>>
  BY DEF RemoveProject, DropProject
<1>2. doomed \subseteq DOMAIN projects
      /\ \A q \in DOMAIN projects : projects[q].parent \in doomed => q \in doomed
  BY SubtreeClosed DEF Doomed, Subtree
<1>3. dockerfiles' = dockerfiles
  BY <1>1 DEF imageTables
<1> HIDE DEF doomed
<1>4. /\ DOMAIN projects' = DOMAIN projects \ doomed
      /\ \A p \in DOMAIN projects' : projects'[p] = projects[p]
  BY <1>1 DEF Without
<1>5. Grows
  BY <1>1 DEF Grows
<1>6. ProjectsOK'
  <2>1. /\ DOMAIN projects \subseteq ProjectIDs
        /\ \A p \in DOMAIN projects :
             /\ projects[p] \in ProjectRow
             /\ projects[p].parent \in DOMAIN projects \cup {Nothing}
             /\ projects[p].dockerfile \in DOMAIN dockerfiles \cup {Nothing}
    BY DEF CatalogInv, ProjectsOK
  <2>2. \A p \in DOMAIN projects' : projects'[p].parent \in DOMAIN projects' \cup {Nothing}
    BY <1>2, <1>4, <2>1
  <2> QED
    BY <1>3, <1>4, <2>1, <2>2 DEF ProjectsOK, ProjectRow
<1>7. LineageOK'
  <2>1. lineage' = lineage /\ DOMAIN projects' \subseteq DOMAIN projects
    BY <1>1, <1>4
  <2> QED
    BY <1>4, <2>1 DEF CatalogInv, LineageOK, ParentOf
<1>8. NoticesOK'
  <2>1. DOMAIN userAccess' \subseteq (DOMAIN projects') \X Users
    <3>1. DOMAIN userAccess' = {a \in DOMAIN userAccess : a[1] \notin doomed}
      BY <1>1 DEF Without
    <3>2. DOMAIN userAccess \subseteq (DOMAIN projects) \X Users
      BY AccessNow
    <3> QED
      BY <1>4, <3>1, <3>2
  <2>2. teamAccess' \subseteq (DOMAIN projects') \X Teams
    <3>1. teamAccess \subseteq (DOMAIN projects) \X Teams
      BY AccessNow
    <3> QED
      BY <1>1, <1>4, <3>1
  <2>3. \A n \in DOMAIN notifications' :
          /\ notifications'[n] \in NoticeRow
          /\ notifications'[n].project \in DOMAIN projects' \cup {Nothing}
    BY <1>1, <1>4 DEF CatalogInv, NoticesOK, Without
  <2> QED
    BY <2>1, <2>2, <2>3 DEF NoticesOK, Users, Teams, NoticeRow
<1>9. /\ DOMAIN features' = DOMAIN features \ gone
      /\ \A f \in DOMAIN features' : features'[f] = features[f]
  BY <1>1 DEF Without
<1>10. FeaturesOK'
  BY <1>4, <1>9 DEF CatalogInv, FeaturesOK, FeatureRow, FeatureStatuses, ValidFeatureTransitions
<1>11. /\ \A t \in DOMAIN tasks : tasks[t] \in TaskEntry
       /\ \A t \in DOMAIN tasks : tasks[t].project \in DOMAIN projects
       /\ \A t \in DOMAIN tasks : tasks[t].feature \in DOMAIN features \cup {Nothing}
       /\ \A c \in DOMAIN comments : comments[c] \in DOMAIN tasks
  BY DEF CatalogInv, TasksOK
<1>12. /\ DOMAIN tasks' = {t \in DOMAIN tasks : tasks[t].project \notin doomed}
       /\ \A t \in DOMAIN tasks' :
            tasks'[t] = [tasks[t] EXCEPT !.feature = IF @ \in gone THEN Nothing ELSE @]
  BY <1>1 DEF ForgetFeatures, Without
<1> HIDE DEF gone, left
<1>13. \A t \in DOMAIN tasks' :
         /\ tasks'[t] \in TaskEntry
         /\ tasks'[t].project \in DOMAIN projects'
         /\ tasks'[t].feature \in DOMAIN features' \cup {Nothing}
  <2> SUFFICES ASSUME NEW t \in DOMAIN tasks'
               PROVE  /\ tasks'[t] \in TaskEntry
                      /\ tasks'[t].project \in DOMAIN projects'
                      /\ tasks'[t].feature \in DOMAIN features' \cup {Nothing}
    OBVIOUS
  <2> DEFINE f == IF tasks[t].feature \in gone THEN Nothing ELSE tasks[t].feature
  <2>1. /\ t \in DOMAIN tasks /\ tasks[t] \in TaskEntry
        /\ tasks'[t] = [tasks[t] EXCEPT !.feature = f]
        /\ tasks[t].project \in DOMAIN projects'
        /\ tasks[t].feature \in DOMAIN features \cup {Nothing}
    BY <1>4, <1>11, <1>12
  <2>2. f \in DOMAIN features' \cup {Nothing} /\ f \in FeatureIDs \cup ProjectIDs \cup {Nothing}
    BY <1>9, <2>1 DEF TaskEntry
  <2> HIDE DEF f
  <2> QED
    BY <2>1, <2>2 DEF TaskEntry
<1>14. \A c \in DOMAIN comments' : comments'[c] \in DOMAIN tasks'
  <2>1. /\ DOMAIN comments' = DOMAIN comments \ CommentsOf(DOMAIN tasks \ DOMAIN tasks')
        /\ \A c \in DOMAIN comments' : comments'[c] = comments[c]
    BY <1>1 DEF Without
  <2> QED
    BY <1>11, <2>1 DEF CommentsOf
<1>15. TasksOK'
  BY <1>13, <1>14 DEF TasksOK, TaskEntry
<1>16. AgentsOK'
  BY <1>1, <1>4 DEF CatalogInv, AgentsOK, AgentReferences
<1>17. ImagesOK'
  BY <1>3, ImagesStay DEF CatalogInv
<1>18. req[r].step = "delete"
  BY <1>1 DEF At
<1>19. Turn(r) /\ Wellformed(req[r])' /\ req'[r] = Idle
  BY <1>1, <1>5, <1>18, Ends
<1>20. RequestsOK' /\ OneAtATime'
  BY <1>5, <1>19, TurnKeeps
<1>21. Keeps(r)
  BY <1>6, <1>7, <1>8, <1>10, <1>15, <1>16, <1>17, <1>19, <1>20 DEF Keeps, CatalogInv, Watched, Idle
<1> QED
  BY <1>1, <1>3, <1>4, <1>9, <1>18, <1>21
  DEF Harmless, StatusKept, ImagesKept, LatestKept, SkillsKept, PlacedKept

---------------------------------------------------------------------------
(* Statements on features, tasks and comments. *)

(* Nothing but these tables changes. *)
LEMMA FeatureStep ==
  ASSUME CatalogInv, NEW r \in Requests, Turn(r), Wellformed(req[r])', req[r].step # "set_latest",
         FeaturesOK', TasksOK',
         UNCHANGED <<projectTables, imageTables, noticeTables, agentTables, workload>>
  PROVE  CatalogInv' /\ ImagesKept /\ LatestKept(r) /\ SkillsKept /\ PlacedKept
<1>1. /\ UNCHANGED <<projectTables, noticeTables, agentTables, workload>>
      /\ UNCHANGED <<projects, dockerfiles, agentSkills, placed>>
  BY DEF projectTables, imageTables, agentTables
<1>2. ProjectsOK' /\ LineageOK' /\ Grows
  BY <1>1, ProjectsStay DEF CatalogInv
<1>3. NoticesOK' /\ AgentsOK' /\ ImagesOK'
  BY <1>1, NoticesStay, AgentsStay, ImagesStay DEF CatalogInv
<1>4. RequestsOK' /\ OneAtATime'
  BY <1>1, <1>2, TurnKeeps
<1>5. CatalogInv'
  BY <1>2, <1>3, <1>4 DEF CatalogInv
<1> QED
  BY <1>1, <1>5 DEF ImagesKept, LatestKept, SkillsKept, PlacedKept

(* A feature is inserted into a project that is there. *)
LEMMA InsertFeatureKeeps ==
  ASSUME CatalogInv, NEW r \in Requests, NEW f \in FeatureIDs, InsertFeature(r, f),
         UNCHANGED <<agentTables, comments, workload>>
  PROVE  Keeps(r) /\ Harmless(r)
<1> DEFINE p == req[r].data.project
<1>1. /\ At(r, "create_feature", "insert") /\ Finish(r) /\ f \notin DOMAIN features
      /\ features' = IF p \in DOMAIN projects
                     THEN Put(features, f, [project |-> p, status |-> "draft"]) ELSE features
      /\ UNCHANGED <<projectTables, tasks, imageTables, noticeTables>>
  BY DEF InsertFeature
<1> HIDE DEF p
<1>2. Grows /\ projects' = projects /\ req[r].step = "insert"
  BY <1>1 DEF Grows, projectTables, At
<1>3. Turn(r) /\ Wellformed(req[r])' /\ req'[r] = Idle
  BY <1>1, <1>2, Ends
<1>4. "draft" \in FeatureStatuses /\ DOMAIN projects \subseteq ProjectIDs
  BY DEF FeatureStatuses, ValidFeatureTransitions, CatalogInv, ProjectsOK
<1>5. /\ DOMAIN features \subseteq DOMAIN features' /\ DOMAIN features' \subseteq FeatureIDs
      /\ \A g \in DOMAIN features : features'[g] = features[g]
      /\ \A g \in DOMAIN features' :
           features'[g] \in FeatureRow /\ features'[g].project \in DOMAIN projects
  BY <1>1, <1>4 DEF CatalogInv, FeaturesOK, FeatureRow, Put
<1>6. FeaturesOK'
  BY <1>2, <1>5 DEF FeaturesOK, FeatureRow, FeatureStatuses, ValidFeatureTransitions
<1>7. TasksOK'
  BY <1>1, <1>2, <1>5, TasksStay DEF CatalogInv
<1>8. UNCHANGED <<projectTables, imageTables, noticeTables, agentTables, workload>>
  BY <1>1
<1>9. CatalogInv' /\ ImagesKept /\ LatestKept(r) /\ SkillsKept /\ PlacedKept
  BY <1>2, <1>3, <1>6, <1>7, <1>8, FeatureStep
<1> QED
  BY <1>3, <1>5, <1>9 DEF Keeps, Harmless, StatusKept, Watched, Idle

(* The status that is written is a status. *)
LEMMA WriteStatusKeeps ==
  ASSUME CatalogInv, NEW r \in Requests, WriteStatus(r), UNCHANGED <<agentTables, comments, workload>>
  PROVE  /\ Keeps(r) /\ ImagesKept /\ LatestKept(r) /\ SkillsKept /\ PlacedKept
         /\ \A g \in DOMAIN features \cap DOMAIN features' :
              g # req[r].data.feature => features'[g].status = features[g].status
<1> DEFINE q == req[r].data
<1>1. /\ At(r, "status", "write_status")
      /\ IF q.feature \in DOMAIN features
         THEN features' = [features EXCEPT ![q.feature].status = q.status]
                /\ NotifyFeatureStatusChange(r, q.status)
         ELSE UNCHANGED features /\ Finish(r)
      /\ UNCHANGED <<projectTables, tasks, imageTables, noticeTables>>
  BY DEF WriteStatus
<1>2. q.status \in FeatureStatuses /\ Busy(r) /\ req[r].op = "status" /\ req[r].step = "write_status"
  BY <1>1, Remembers DEF ProjectData, At, Busy
<1>3. Grows /\ projects' = projects
  BY <1>1 DEF Grows, projectTables
<1>4. Goto(r, "notify") \/ Finish(r)
  BY <1>1 DEF NotifyFeatureStatusChange
<1>5. Turn(r) /\ Wellformed(req[r])' /\ ~Watched(req'[r])
  <2>1. CASE Finish(r)
    BY <1>2, <1>3, <2>1, Ends DEF Watched, Idle
  <2>2. CASE Goto(r, "notify")
    <3>1. /\ ProjectData([op |-> "status", step |-> "notify", data |-> q])
          /\ AgentData([op |-> "status", step |-> "notify", data |-> q])
      BY <1>2 DEF ProjectData, AgentData
    <3>2. Turn(r) /\ Wellformed(req[r])' /\ req'[r] = [op |-> "status", step |-> "notify", data |-> q]
      BY <1>2, <1>3, <2>2, <3>1, GoesOnWith
    <3> QED
      BY <3>2 DEF Watched
  <2> QED
    BY <1>4, <2>1, <2>2
<1> HIDE DEF q
<1>6. /\ DOMAIN features' = DOMAIN features
      /\ \A g \in DOMAIN features :
           features'[g] \in FeatureRow /\ features'[g].project = features[g].project
      /\ \A g \in DOMAIN features : g # q.feature => features'[g].status = features[g].status
  BY <1>1, <1>2 DEF CatalogInv, FeaturesOK, FeatureRow
<1>7. FeaturesOK'
  BY <1>3, <1>6 DEF CatalogInv, FeaturesOK, FeatureRow, FeatureStatuses, ValidFeatureTransitions
<1>8. TasksOK'
  BY <1>1, <1>3, <1>6, TasksStay DEF CatalogInv
<1>9. UNCHANGED <<projectTables, imageTables, noticeTables, agentTables, workload>>
  BY <1>1
<1>10. CatalogInv' /\ ImagesKept /\ LatestKept(r) /\ SkillsKept /\ PlacedKept
  BY <1>2, <1>5, <1>7, <1>8, <1>9, FeatureStep
<1> QED
  BY <1>5, <1>6, <1>10 DEF Keeps, q

(* The tasks of a feature that goes forget it. *)
LEMMA DropFeatureKeeps ==
  ASSUME CatalogInv, NEW r \in Requests, DropFeature(r), UNCHANGED <<agentTables, comments, workload>>
  PROVE  Keeps(r) /\ Harmless(r)
<1> DEFINE f == req[r].data.feature
<1>1. /\ At(r, "delete_feature", "delete") /\ Finish(r)
      /\ features' = Without(features, {f})
      /\ tasks' = ForgetFeatures(tasks, {f})
      /\ UNCHANGED <<projectTables, imageTables, noticeTables>>
  BY DEF DropFeature
<1> HIDE DEF f
<1>2. Grows /\ projects' = projects /\ req[r].step = "delete"
  BY <1>1 DEF Grows, projectTables, At
<1>3. Turn(r) /\ Wellformed(req[r])' /\ req'[r] = Idle
  BY <1>1, <1>2, Ends
<1>4. /\ DOMAIN features' = DOMAIN features \ {f}
      /\ \A g \in DOMAIN features' : features'[g] = features[g]
  BY <1>1 DEF Without
<1>5. FeaturesOK'
  BY <1>2, <1>4 DEF CatalogInv, FeaturesOK, FeatureRow, FeatureStatuses, ValidFeatureTransitions
<1>6. /\ DOMAIN tasks' = DOMAIN tasks
      /\ \A t \in DOMAIN tasks :
           tasks'[t] = [tasks[t] EXCEPT !.feature = IF @ \in {f} THEN Nothing ELSE @]
  BY <1>1 DEF ForgetFeatures
<1>7. ASSUME NEW t \in DOMAIN tasks'
      PROVE  /\ tasks'[t] \in TaskEntry
             /\ tasks'[t].project \in DOMAIN projects
             /\ tasks'[t].feature \in DOMAIN features' \cup {Nothing}
  <2> DEFINE g == IF tasks[t].feature = f THEN Nothing ELSE tasks[t].feature
  <2>1. /\ t \in DOMAIN tasks /\ tasks[t] \in TaskEntry
        /\ tasks'[t] = [tasks[t] EXCEPT !.feature = g]
        /\ tasks[t].project \in DOMAIN projects
        /\ tasks[t].feature \in DOMAIN features \cup {Nothing}
    BY <1>6 DEF CatalogInv, TasksOK
  <2>2. g \in DOMAIN features' \cup {Nothing} /\ g \in FeatureIDs \cup ProjectIDs \cup {Nothing}
    BY <1>4, <2>1 DEF TaskEntry
  <2> HIDE DEF g
  <2> QED
    BY <2>1, <2>2 DEF TaskEntry
<1>8. TasksOK'
  BY <1>2, <1>6, <1>7 DEF CatalogInv, TasksOK, TaskEntry
<1>9. UNCHANGED <<projectTables, imageTables, noticeTables, agentTables, workload>>
  BY <1>1
<1>10. CatalogInv' /\ ImagesKept /\ LatestKept(r) /\ SkillsKept /\ PlacedKept
  BY <1>2, <1>3, <1>5, <1>8, <1>9, FeatureStep
<1> QED
  BY <1>3, <1>4, <1>10 DEF Keeps, Harmless, StatusKept, Watched, Idle

(* Nothing but tasks and comments changes. *)
LEMMA TaskStep ==
  ASSUME CatalogInv, NEW r \in Requests, Turn(r), Wellformed(req[r])', req[r].step # "set_latest",
         TasksOK',
         UNCHANGED <<projectTables, features, imageTables, noticeTables, agentTables, workload>>
  PROVE  CatalogInv' /\ Harmless(r)
<1>1. projects' = projects /\ UNCHANGED features
      /\ UNCHANGED <<projectTables, imageTables, noticeTables, agentTables, workload>>
  BY DEF projectTables
<1>2. FeaturesOK'
  BY <1>1, FeaturesStay DEF CatalogInv
<1>3. CatalogInv' /\ ImagesKept /\ LatestKept(r) /\ SkillsKept /\ PlacedKept
  BY <1>1, <1>2, FeatureStep
<1> QED
  BY <1>1, <1>3 DEF Harmless, StatusKept

(* Tasks that stay or come refer to what is there, and no task goes. *)
LEMMA TasksMore ==
  ASSUME CatalogInv, UNCHANGED <<projectTables, features, comments>>,
         DOMAIN tasks \subseteq DOMAIN tasks',
         \A t \in DOMAIN tasks' :
           /\ tasks'[t] \in TaskEntry
           /\ tasks'[t].project \in DOMAIN projects
           /\ tasks'[t].feature \in DOMAIN features \cup {Nothing}
  PROVE  TasksOK'
BY DEF CatalogInv, TasksOK, TaskEntry, projectTables

(* What TasksOK says of a task. *)
LEMMA TasksNow ==
  ASSUME CatalogInv, NEW t \in DOMAIN tasks
  PROVE  /\ tasks[t] \in TaskEntry
         /\ tasks[t].project \in DOMAIN projects
         /\ tasks[t].feature \in DOMAIN features \cup {Nothing}
BY DEF CatalogInv, TasksOK

(* A task is inserted if its project and its feature are there. *)
LEMMA InsertTaskKeeps ==
  ASSUME CatalogInv, NEW r \in Requests, NEW t, InsertTask(r, t),
         UNCHANGED <<agentTables, comments, workload>>
  PROVE  Keeps(r) /\ Harmless(r)
<1> DEFINE q == req[r].data
<1>1. /\ At(r, "create_task", "insert") /\ Finish(r) /\ t \notin DOMAIN tasks
      /\ tasks' = IF q.project \in DOMAIN projects /\ q.feature \in DOMAIN features \cup {Nothing}
                  THEN Put(tasks, t, q) ELSE tasks
      /\ UNCHANGED <<projectTables, features, imageTables, noticeTables>>
  BY DEF InsertTask
<1>2. q \in TaskEntry
  BY <1>1, Remembers DEF ProjectData, At
<1>3. Grows /\ req[r].step = "insert"
  BY <1>1 DEF Grows, projectTables, At
<1>4. Turn(r) /\ Wellformed(req[r])' /\ req'[r] = Idle
  BY <1>1, <1>3, Ends
<1> HIDE DEF q
<1>5. /\ DOMAIN tasks \subseteq DOMAIN tasks'
      /\ \A i \in DOMAIN tasks' :
           \/ i \in DOMAIN tasks /\ tasks'[i] = tasks[i]
           \/ /\ tasks'[i] = q /\ q.project \in DOMAIN projects
              /\ q.feature \in DOMAIN features \cup {Nothing}
  BY <1>1 DEF Put
<1>6. TasksOK'
  BY <1>1, <1>2, <1>5, TasksNow, TasksMore
<1>7. UNCHANGED <<projectTables, features, imageTables, noticeTables, agentTables, workload>>
  BY <1>1
<1>8. CatalogInv' /\ Harmless(r)
  BY <1>3, <1>4, <1>6, <1>7, TaskStep
<1> QED
  BY <1>4, <1>8 DEF Keeps, Watched, Idle

(* A task is written back in the project that it is still in, for a feature
   that is there. *)
LEMMA WriteTaskKeeps ==
  ASSUME CatalogInv, NEW r \in Requests, WriteTask(r), UNCHANGED <<agentTables, comments, workload>>
  PROVE  Keeps(r) /\ Harmless(r)
<1> DEFINE q == req[r].data
<1>1. /\ At(r, "update_task", "write_task") /\ Finish(r)
      /\ tasks' = IF /\ q.task \in DOMAIN tasks /\ tasks[q.task].project = q.row.project
                     /\ q.row.feature \in DOMAIN features \cup {Nothing}
                  THEN [tasks EXCEPT ![q.task] = q.row] ELSE tasks
      /\ UNCHANGED <<projectTables, features, imageTables, noticeTables>>
  BY DEF WriteTask
<1>2. q.row \in TaskEntry
  BY <1>1, Remembers DEF ProjectData, At
<1>3. Grows /\ req[r].step = "write_task"
  BY <1>1 DEF Grows, projectTables, At
<1>4. Turn(r) /\ Wellformed(req[r])' /\ req'[r] = Idle
  BY <1>1, <1>3, Ends
<1> HIDE DEF q
<1>5. /\ DOMAIN tasks' = DOMAIN tasks
      /\ \A i \in DOMAIN tasks :
           \/ tasks'[i] = tasks[i]
           \/ /\ tasks'[i] = q.row /\ tasks[i].project = q.row.project
              /\ q.row.feature \in DOMAIN features \cup {Nothing}
  BY <1>1
<1>6. TasksOK'
  BY <1>1, <1>2, <1>5, TasksNow, TasksMore
<1>7. UNCHANGED <<projectTables, features, imageTables, noticeTables, agentTables, workload>>
  BY <1>1
<1>8. CatalogInv' /\ Harmless(r)
  BY <1>3, <1>4, <1>6, <1>7, TaskStep
<1> QED
  BY <1>4, <1>8 DEF Keeps, Watched, Idle

(* The tasks of an agent get another one.  This is where a request relies on
   what it has written itself: no task waits for the agent any more, or the
   agent has its tasks from itself. *)
LEMMA ReassignTasksKeeps ==
  ASSUME CatalogInv, NEW r \in Requests, ReassignTasks(r), UNCHANGED workload,
         UNCHANGED <<projectTables, features, imageTables, noticeTables, comments>>
  PROVE  /\ Turn(r) /\ CatalogInv' /\ Harmless(r) /\ req'[r].op # "status"
         /\ \/ ~Watched(req'[r])
            \/ Current(req[r]) => Current(req[r])'
<1> DEFINE q == req[r].data
<1>1. /\ req[r].step = "update_tasks" /\ UNCHANGED agentTables
      /\ tasks' = [t \in DOMAIN tasks |->
                     IF t \in TasksOf(q.project, q.slug)
                     THEN [tasks[t] EXCEPT !.role = q.heir] ELSE tasks[t]]
      /\ IF req[r].op = "remove_agent" THEN Goto(r, "remove") ELSE Finish(r)
  BY DEF ReassignTasks
<1>2. q.heir \in AgentSlugs \cup {Nobody} /\ req[r].op \in {"remove_agent", "reassign"} /\ Busy(r)
  BY <1>1, Remembers DEF AgentData, Busy
<1>3. Grows
  BY DEF Grows, projectTables
<1>4. \/ Turn(r) /\ Wellformed(req[r])' /\ req'[r] = Idle
      \/ /\ Turn(r) /\ Wellformed(req[r])' /\ req[r].op = "remove_agent"
         /\ req'[r] = [op |-> "remove_agent", step |-> "remove", data |-> q]
  <2>1. CASE Finish(r)
    BY <1>1, <1>3, <2>1, Ends
  <2>2. CASE req[r].op = "remove_agent" /\ Goto(r, "remove")
    <3>1. /\ ProjectData([op |-> "remove_agent", step |-> "remove", data |-> q])
          /\ AgentData([op |-> "remove_agent", step |-> "remove", data |-> q])
      BY <1>2 DEF ProjectData, AgentData
    <3> QED
      BY <1>2, <1>3, <2>2, <3>1, GoesOnWith
  <2> QED
    BY <1>1, <2>1, <2>2
<1>5. /\ DOMAIN tasks' = DOMAIN tasks
      /\ \A t \in DOMAIN tasks :
           tasks'[t] = IF tasks[t].project = q.project /\ tasks[t].role = q.slug
                       THEN [tasks[t] EXCEPT !.role = q.heir] ELSE tasks[t]
  BY <1>1 DEF TasksOf
<1>6. ASSUME NEW t \in DOMAIN tasks'
      PROVE  /\ tasks'[t] \in TaskEntry
             /\ tasks'[t].project \in DOMAIN projects
             /\ tasks'[t].feature \in DOMAIN features \cup {Nothing}
  BY <1>2, <1>5, TasksNow DEF TaskEntry
<1>7. TasksOK'
  BY <1>5, <1>6, TasksMore
<1>8. CatalogInv' /\ Harmless(r)
  BY <1>1, <1>4, <1>7, TaskStep
<1>9. ASSUME Current(req[r]), req[r].op = "remove_agent",
             req'[r] = [op |-> "remove_agent", step |-> "remove", data |-> q]
      PROVE  Current(req[r])'
  <2>1. q.agent \in DOMAIN agents /\ agents[q.agent] = q.slug
    BY <1>1, <1>9 DEF Current
  <2>2. TasksOf(q.project, q.slug)' = {} \/ q.heir = q.slug
    <3> SUFFICES ASSUME q.heir # q.slug, NEW t \in DOMAIN tasks',
                        tasks'[t].project = q.project, tasks'[t].role = q.slug
                 PROVE  FALSE
      BY <1>9 DEF TasksOf
    <3> QED
      BY <1>5, TasksNow DEF TaskEntry
  <2>3. agents' = agents
    BY <1>1 DEF agentTables
  <2> QED
    BY <1>9, <2>1, <2>2, <2>3 DEF Current
<1> QED
  BY <1>4, <1>8, <1>9 DEF Watched, Idle

(* The comments of a task go with it. *)
LEMMA DeleteTaskKeeps ==
  ASSUME CatalogInv, NEW r \in Requests, NEW t, DeleteTask(r, t), UNCHANGED workload
  PROVE  Keeps(r) /\ Harmless(r)
<1>1. /\ Free(r, "delete_task") /\ UNCHANGED req
      /\ tasks' = Without(tasks, {t}) /\ comments' = Without(comments, CommentsOf({t}))
      /\ UNCHANGED <<projectTables, features, imageTables, noticeTables, agentTables>>
  BY DEF DeleteTask
<1>2. Grows /\ projects' = projects /\ req'[r].step = "idle" /\ req[r].step = "idle"
  BY <1>1 DEF Grows, projectTables, Free, Busy
<1>3. Turn(r) /\ Wellformed(req[r])'
  BY <1>1, <1>2, AtOnce
<1>4. /\ DOMAIN tasks' = DOMAIN tasks \ {t} /\ \A i \in DOMAIN tasks' : tasks'[i] = tasks[i]
      /\ DOMAIN comments' = {c \in DOMAIN comments : comments[c] # t}
      /\ \A c \in DOMAIN comments' : comments'[c] = comments[c]
  BY <1>1 DEF Without, CommentsOf
<1>5. TasksOK'
  BY <1>1, <1>2, <1>4 DEF CatalogInv, TasksOK, TaskEntry
<1>6. CatalogInv' /\ Harmless(r)
  BY <1>1, <1>2, <1>3, <1>5, TaskStep
<1> QED
  BY <1>2, <1>3, <1>6 DEF Keeps, Watched

(* A comment is inserted for a task that is there, or deleted. *)
LEMMA CommentKeeps ==
  ASSUME CatalogInv, NEW r \in Requests, (\E c : InsertComment(r, c)) \/ DropComment(r),
         UNCHANGED <<agentTables, workload>>
  PROVE  Keeps(r) /\ Harmless(r)
<1>1. /\ Finish(r) /\ UNCHANGED catalogTables
      /\ req[r].step # "idle" /\ req[r].step # "set_latest"
      /\ \A c \in DOMAIN comments' :
           comments'[c] \in DOMAIN tasks \/ (c \in DOMAIN comments /\ comments'[c] = comments[c])
  <2>1. CASE \E c : InsertComment(r, c)
    BY <2>1 DEF InsertComment, At, Put
  <2>2. CASE DropComment(r)
    BY <2>2 DEF DropComment, At, Without
  <2> QED
    BY <2>1, <2>2
<1>2. /\ UNCHANGED <<projectTables, features, imageTables, noticeTables, agentTables, workload>>
      /\ Grows /\ projects' = projects /\ tasks' = tasks
  BY <1>1 DEF catalogTables, projectTables, featureTables, Grows
<1>3. Turn(r) /\ Wellformed(req[r])' /\ req'[r] = Idle
  BY <1>1, <1>2, Ends
<1>4. TasksOK'
  BY <1>1, <1>2 DEF CatalogInv, TasksOK, TaskEntry
<1>5. CatalogInv' /\ Harmless(r)
  BY <1>1, <1>2, <1>3, <1>4, TaskStep
<1> QED
  BY <1>3, <1>5 DEF Keeps, Watched, Idle

---------------------------------------------------------------------------
(* Statements on Dockerfiles. *)

(* Rows of Dockerfiles change, and none goes. *)
LEMMA ImageStep ==
  ASSUME CatalogInv, NEW r \in Requests, Turn(r), Wellformed(req[r])', ~Watched(req'[r]),
         UNCHANGED <<projectTables, featureTables, noticeTables, agentTables, comments, workload>>,
         DOMAIN dockerfiles \subseteq DOMAIN dockerfiles', DOMAIN dockerfiles' \subseteq DockerfileIDs,
         \A d \in DOMAIN dockerfiles' : dockerfiles'[d] \in ImageRow
  PROVE  Keeps(r) /\ StatusKept /\ ImagesKept /\ SkillsKept /\ PlacedKept
<1>1. /\ UNCHANGED <<projectTables, noticeTables, agentTables, workload>>
      /\ UNCHANGED <<projects, features, tasks, comments, agentSkills, placed>>
  BY DEF projectTables, featureTables, agentTables
<1>2. ProjectsOK' /\ LineageOK' /\ Grows
  BY <1>1, ProjectsStay DEF CatalogInv
<1>3. NoticesOK' /\ FeaturesOK' /\ TasksOK' /\ AgentsOK'
  BY <1>1, NoticesStay, FeaturesStay, TasksStay, AgentsStay DEF CatalogInv
<1>4. ImagesOK'
  BY DEF ImagesOK, ImageRow
<1>5. RequestsOK' /\ OneAtATime'
  BY <1>1, <1>2, TurnKeeps
<1> QED
  BY <1>1, <1>2, <1>3, <1>4, <1>5
  DEF CatalogInv, Keeps, StatusKept, ImagesKept, SkillsKept, PlacedKept

(* What ImagesOK says. *)
LEMMA ImagesNow ==
  ASSUME CatalogInv
  PROVE  DOMAIN dockerfiles \subseteq DockerfileIDs /\ \A d \in DOMAIN dockerfiles : dockerfiles[d] \in ImageRow
BY DEF CatalogInv, ImagesOK

(* A request goes on to say which version is the latest. *)
LEMMA ContinueToLatest ==
  ASSUME CatalogInv, Grows, NEW r \in Requests, NEW d, NEW op \in {"create_image", "update_image"},
         op = req[r].op, Busy(r), Continue(r, "set_latest", [dockerfile |-> d])
  PROVE  /\ Turn(r) /\ Wellformed(req[r])' /\ ~Watched(req'[r])
         /\ req'[r] = [op |-> op, step |-> "set_latest", data |-> [dockerfile |-> d]]
<1> DEFINE q == [op |-> op, step |-> "set_latest", data |-> [dockerfile |-> d]]
<1>1. ProjectData(q) /\ AgentData(q) /\ ~Watched(q)
  BY DEF ProjectData, AgentData, Watched
<1>2. Begin(r, op, "set_latest", [dockerfile |-> d])
  BY DEF Continue
<1>3. Turn(r) /\ Wellformed(req[r])' /\ req'[r] = q
  BY <1>1, <1>2, GoesOn
<1> QED
  BY <1>1, <1>3

(* A Dockerfile that is inserted as the latest is one of two until its request
   has gone on. *)
LEMMA InsertDockerfileKeeps ==
  ASSUME CatalogInv, NEW r \in Requests, NEW d \in DockerfileIDs, InsertDockerfile(r, d),
         UNCHANGED <<agentTables, comments, workload>>
  PROVE  /\ Keeps(r) /\ StatusKept /\ ImagesKept /\ SkillsKept /\ PlacedKept
         /\ req[r].step # "set_latest"
         /\ DOMAIN dockerfiles' \subseteq DOMAIN dockerfiles \cup {d} /\ d \notin DOMAIN dockerfiles
         /\ \A e \in DOMAIN dockerfiles : dockerfiles'[e] = dockerfiles[e]
         /\ d \in DOMAIN dockerfiles' /\ dockerfiles'[d].latest =>
              req'[r].step = "set_latest" /\ req'[r].data.dockerfile = d
<1> DEFINE q == req[r].data
           row == [image |-> q.image, latest |-> q.latest]
<1>1. /\ At(r, "create_image", "insert") /\ d \notin DOMAIN dockerfiles
      /\ IF FindBySlugAndVersion(q.image) = {}
         THEN /\ dockerfiles' = Put(dockerfiles, d, row)
              /\ IF q.latest THEN Continue(r, "set_latest", [dockerfile |-> d]) ELSE Finish(r)
         ELSE UNCHANGED dockerfiles /\ Finish(r)
      /\ UNCHANGED <<projectTables, featureTables, noticeTables>>
  BY DEF InsertDockerfile
<1>2. req[r].op = "create_image" /\ req[r].step = "insert" /\ Busy(r) /\ row \in ImageRow
  BY <1>1, Remembers DEF ProjectData, At, Busy, ImageRow
<1>3. Grows
  BY <1>1 DEF Grows, projectTables
<1>4. row.latest = q.latest
  OBVIOUS
<1> HIDE DEF row, q
<1>5. CASE UNCHANGED dockerfiles /\ Finish(r)
  <2>1. Turn(r) /\ Wellformed(req[r])' /\ req'[r] = Idle
    BY <1>2, <1>3, <1>5, Ends
  <2>2. ~Watched(req'[r])
    BY <2>1 DEF Watched, Idle
  <2>3. Keeps(r) /\ StatusKept /\ ImagesKept /\ SkillsKept /\ PlacedKept
    BY <1>1, <1>5, <2>1, <2>2, ImagesNow, ImageStep
  <2> QED
    BY <1>1, <1>2, <1>5, <2>3
<1>6. CASE /\ dockerfiles' = Put(dockerfiles, d, row)
           /\ IF q.latest THEN Continue(r, "set_latest", [dockerfile |-> d]) ELSE Finish(r)
  <2>1. /\ Turn(r) /\ Wellformed(req[r])' /\ ~Watched(req'[r])
        /\ q.latest => req'[r] = [op |-> "create_image", step |-> "set_latest",
                                  data |-> [dockerfile |-> d]]
    <3>1. CASE q.latest
      BY <1>2, <1>3, <1>6, <3>1, ContinueToLatest
    <3>2. CASE ~q.latest
      BY <1>2, <1>3, <1>6, <3>2, Ends DEF Watched, Idle
    <3> QED
      BY <3>1, <3>2
  <2>2. /\ DOMAIN dockerfiles' = DOMAIN dockerfiles \cup {d} /\ dockerfiles'[d] = row
        /\ \A e \in DOMAIN dockerfiles : dockerfiles'[e] = dockerfiles[e]
    BY <1>1, <1>6 DEF Put
  <2>3. Keeps(r) /\ StatusKept /\ ImagesKept /\ SkillsKept /\ PlacedKept
    BY <1>1, <1>2, <2>1, <2>2, ImagesNow, ImageStep
  <2>4. dockerfiles'[d].latest => req'[r].step = "set_latest" /\ req'[r].data.dockerfile = d
    BY <1>4, <2>1, <2>2
  <2> QED
    BY <1>1, <1>2, <2>2, <2>3, <2>4
<1> QED
  BY <1>1, <1>5, <1>6

(* A row that is written back keeps its image and gets no mark, unless the
   request goes on to settle which one is the latest. *)
LEMMA WriteDockerfileKeeps ==
  ASSUME CatalogInv, NEW r \in Requests, WriteDockerfile(r), UNCHANGED <<agentTables, comments, workload>>
  PROVE  /\ Keeps(r) /\ StatusKept /\ ImagesKept /\ SkillsKept /\ PlacedKept
         /\ req[r].step # "set_latest"
         /\ DOMAIN dockerfiles' = DOMAIN dockerfiles
         /\ \A e \in DOMAIN dockerfiles :
              e # req[r].data.dockerfile => dockerfiles'[e] = dockerfiles[e]
         /\ LET d == req[r].data.dockerfile IN
            Current(req[r]) /\ d \in DOMAIN dockerfiles =>
              /\ dockerfiles'[d].image = dockerfiles[d].image
              /\ \/ dockerfiles'[d].latest => dockerfiles[d].latest
                 \/ req'[r].step = "set_latest" /\ req'[r].data.dockerfile = d
<1> DEFINE q == req[r].data
           d == q.dockerfile
<1>1. /\ At(r, "update_image", "write")
      /\ dockerfiles' = Overwrite(dockerfiles, d, q.row)
      /\ IF q.set /\ d \in DOMAIN dockerfiles
         THEN Continue(r, "set_latest", [dockerfile |-> d]) ELSE Finish(r)
      /\ UNCHANGED <<projectTables, featureTables, noticeTables>>
  BY DEF WriteDockerfile
<1>2. req[r].op = "update_image" /\ req[r].step = "write" /\ Busy(r) /\ q.row \in ImageRow
  BY <1>1, Remembers DEF ProjectData, At, Busy
<1>3. Grows
  BY <1>1 DEF Grows, projectTables
<1>4. /\ Turn(r) /\ Wellformed(req[r])' /\ ~Watched(req'[r])
      /\ q.set /\ d \in DOMAIN dockerfiles =>
           req'[r] = [op |-> "update_image", step |-> "set_latest", data |-> [dockerfile |-> d]]
  <2>1. CASE q.set /\ d \in DOMAIN dockerfiles
    BY <1>1, <1>2, <1>3, <2>1, ContinueToLatest
  <2>2. CASE ~(q.set /\ d \in DOMAIN dockerfiles)
    BY <1>1, <1>2, <1>3, <2>2, Ends DEF Watched, Idle
  <2> QED
    BY <2>1, <2>2
<1>5. Current(req[r]) /\ d \in DOMAIN dockerfiles =>
        q.row.image = dockerfiles[d].image /\ (q.row.latest => q.set \/ dockerfiles[d].latest)
  BY <1>2 DEF Current
<1> HIDE DEF d
<1>6. /\ DOMAIN dockerfiles' = DOMAIN dockerfiles
      /\ \A e \in DOMAIN dockerfiles :
           dockerfiles'[e] = IF e = d THEN q.row ELSE dockerfiles[e]
  BY <1>1 DEF Overwrite
<1>7. Keeps(r) /\ StatusKept /\ ImagesKept /\ SkillsKept /\ PlacedKept
  BY <1>1, <1>2, <1>4, <1>6, ImagesNow, ImageStep
<1>8. Current(req[r]) /\ d \in DOMAIN dockerfiles =>
        /\ dockerfiles'[d].image = dockerfiles[d].image
        /\ \/ dockerfiles'[d].latest => dockerfiles[d].latest
           \/ req'[r].step = "set_latest" /\ req'[r].data.dockerfile = d
  BY <1>4, <1>5, <1>6
<1> QED
  BY <1>2, <1>6, <1>7, <1>8 DEF d

(* Of the versions of a Dockerfile one is the latest afterwards. *)
LEMMA SetLatestKeeps ==
  ASSUME CatalogInv, NEW r \in Requests, SetLatest(r), UNCHANGED <<agentTables, comments, workload>>
  PROVE  /\ Keeps(r) /\ StatusKept /\ ImagesKept /\ SkillsKept /\ PlacedKept
         /\ req'[r] = Idle
         /\ DOMAIN dockerfiles' = DOMAIN dockerfiles
         /\ LET d == req[r].data.dockerfile IN
            \A e \in DOMAIN dockerfiles :
              /\ dockerfiles'[e].image = dockerfiles[e].image
              /\ IF d \in DOMAIN dockerfiles /\ dockerfiles[e].image[1] = dockerfiles[d].image[1]
                 THEN dockerfiles'[e].latest = (e = d)
                 ELSE dockerfiles'[e].latest = dockerfiles[e].latest
<1> DEFINE d == req[r].data.dockerfile
<1>1. /\ req[r].step = "set_latest" /\ Finish(r)
      /\ dockerfiles' =
           IF d \in DOMAIN dockerfiles
           THEN [e \in DOMAIN dockerfiles |->
                   IF dockerfiles[e].image[1] = dockerfiles[d].image[1]
                   THEN [dockerfiles[e] EXCEPT !.latest = (e = d)] ELSE dockerfiles[e]]
           ELSE dockerfiles
      /\ UNCHANGED <<projectTables, featureTables, noticeTables>>
  BY DEF SetLatest
<1> HIDE DEF d
<1>2. Grows /\ req[r].step # "idle"
  BY <1>1 DEF Grows, projectTables
<1>3. Turn(r) /\ Wellformed(req[r])' /\ req'[r] = Idle
  BY <1>1, <1>2, Ends
<1>4. ~Watched(req'[r])
  BY <1>3 DEF Watched, Idle
<1>5. /\ DOMAIN dockerfiles' = DOMAIN dockerfiles
      /\ \A e \in DOMAIN dockerfiles :
           dockerfiles'[e] =
             IF d \in DOMAIN dockerfiles /\ dockerfiles[e].image[1] = dockerfiles[d].image[1]
             THEN [dockerfiles[e] EXCEPT !.latest = (e = d)] ELSE dockerfiles[e]
  BY <1>1
<1>6. ASSUME NEW e \in DOMAIN dockerfiles
      PROVE  /\ dockerfiles'[e] \in ImageRow
             /\ dockerfiles'[e].image = dockerfiles[e].image
             /\ IF d \in DOMAIN dockerfiles /\ dockerfiles[e].image[1] = dockerfiles[d].image[1]
                THEN dockerfiles'[e].latest = (e = d)
                ELSE dockerfiles'[e].latest = dockerfiles[e].latest
  BY <1>5, ImagesNow DEF ImageRow
<1>7. Keeps(r) /\ StatusKept /\ ImagesKept /\ SkillsKept /\ PlacedKept
  BY <1>1, <1>3, <1>4, <1>5, <1>6, ImagesNow, ImageStep
<1> QED
  BY <1>3, <1>5, <1>6, <1>7 DEF d

---------------------------------------------------------------------------
(* Statements on agents and skills. *)

(* Nothing but these tables changes. *)
LEMMA AgentStep ==
  ASSUME CatalogInv, NEW r \in Requests, Turn(r), Wellformed(req[r])', ~Watched(req'[r]),
         req[r].step # "set_latest", AgentsOK', UNCHANGED <<catalogTables, comments, workload>>
  PROVE  Keeps(r) /\ StatusKept /\ ImagesKept /\ LatestKept(r)
<1>1. /\ UNCHANGED <<projectTables, noticeTables, workload>>
      /\ UNCHANGED <<projects, features, tasks, dockerfiles, comments>>
  BY DEF catalogTables, projectTables, featureTables, imageTables
<1>2. ProjectsOK' /\ LineageOK' /\ Grows
  BY <1>1, ProjectsStay DEF CatalogInv
<1>3. NoticesOK' /\ FeaturesOK' /\ TasksOK' /\ ImagesOK'
  BY <1>1, NoticesStay, FeaturesStay, TasksStay, ImagesStay DEF CatalogInv
<1>4. RequestsOK' /\ OneAtATime'
  BY <1>1, <1>2, TurnKeeps
<1> QED
  BY <1>1, <1>2, <1>3, <1>4 DEF CatalogInv, Keeps, StatusKept, ImagesKept, LatestKept

(* A request for agents that ends with its statement. *)
LEMMA AgentEnds ==
  ASSUME CatalogInv, NEW r \in Requests, req[r].step \notin {"idle", "set_latest"}, Finish(r),
         AgentsOK', UNCHANGED <<catalogTables, comments, workload>>
  PROVE  Keeps(r) /\ StatusKept /\ ImagesKept /\ LatestKept(r)
<1>1. Grows
  BY DEF catalogTables, projectTables, Grows
<1>2. Turn(r) /\ Wellformed(req[r])' /\ req'[r] = Idle
  BY <1>1, Ends
<1> QED
  BY <1>2, AgentStep DEF Watched, Idle

(* Or goes on. *)
LEMMA AgentGoesOn ==
  ASSUME CatalogInv, NEW r \in Requests, Busy(r), req[r].step # "set_latest",
         NEW op \in {"create_special", "update_special"}, op = req[r].op,
         NEW step \in {"resolve", "clear_skills", "insert_skills"}, NEW data, Begin(r, op, step, data),
         AgentsOK', UNCHANGED <<catalogTables, comments, workload>>
  PROVE  Keeps(r) /\ StatusKept /\ ImagesKept /\ LatestKept(r)
<1> DEFINE q == [op |-> op, step |-> step, data |-> data]
<1>1. Grows
  BY DEF catalogTables, projectTables, Grows
<1>2. ProjectData(q) /\ AgentData(q) /\ ~Watched(q)
  BY DEF ProjectData, AgentData, Watched
<1>3. Turn(r) /\ Wellformed(req[r])' /\ req'[r] = q
  BY <1>1, <1>2, GoesOn
<1> QED
  BY <1>2, <1>3, AgentStep

(* What refers to an agent or a skill refers to one that is there. *)
LEMMA AgentsNow ==
  ASSUME CatalogInv
  PROVE  /\ \A a \in DOMAIN agents : agents[a] \in AgentSlugs
         /\ \A s \in DOMAIN skills : skills[s] \in SkillSlugs
         /\ \A row \in agentSkills : row = <<row[1], row[2]>>
         /\ \A x \in DOMAIN specials : specials[x].parent \in DOMAIN agents
         /\ \A row \in agentSkills : row[1] \in DOMAIN agents /\ row[2] \in DOMAIN skills
         /\ \A row \in specialSkills : row[1] \in DOMAIN specials /\ row[2] \in DOMAIN skills
         /\ \A row \in placed : row[1] \in DOMAIN projects /\ row[2] \in DOMAIN agents
BY DEF CatalogInv, AgentsOK, AgentReferences

(* The projects are among the tables of the catalog. *)
LEMMA ProjectsNow ==
  ASSUME UNCHANGED catalogTables
  PROVE  projects' = projects
BY DEF catalogTables, projectTables

(* Agents and skills are inserted with slugs. *)
LEMMA InsertAgentKeeps ==
  ASSUME CatalogInv, NEW r \in Requests, NEW a, InsertAgent(r, a),
         UNCHANGED <<catalogTables, comments, workload>>
  PROVE  Keeps(r) /\ Harmless(r)
<1>1. /\ req[r].op \in {"create_agent", "clone_agent"} /\ req[r].step = "insert"
      /\ a \notin DOMAIN agents /\ Finish(r)
      /\ agents' = IF SlugFree(agents, req[r].data.slug) THEN Put(agents, a, req[r].data.slug) ELSE agents
      /\ UNCHANGED <<skills, specials, agentSkills, specialSkills, placed>>
  BY DEF InsertAgent
<1>2. req[r].data.slug \in AgentSlugs
  BY <1>1, Remembers DEF AgentData
<1>3. /\ \A b \in DOMAIN agents' : agents'[b] \in AgentSlugs
      /\ DOMAIN agents \subseteq DOMAIN agents'
  BY <1>1, <1>2, AgentsNow DEF Put
<1>4. AgentsOK'
  BY <1>1, <1>3, AgentsNow, ProjectsNow DEF AgentsOK, AgentReferences
<1>5. Keeps(r) /\ StatusKept /\ ImagesKept /\ LatestKept(r)
  BY <1>1, <1>4, AgentEnds
<1> QED
  BY <1>1, <1>5 DEF Harmless, SkillsKept, PlacedKept

(* The same for a skill. *)
LEMMA InsertSkillKeeps ==
  ASSUME CatalogInv, NEW r \in Requests, NEW s, InsertSkill(r, s),
         UNCHANGED <<catalogTables, comments, workload>>
  PROVE  Keeps(r) /\ Harmless(r)
<1>1. /\ req[r].op = "create_skill" /\ req[r].step = "insert"
      /\ s \notin DOMAIN skills /\ Finish(r)
      /\ skills' = IF SlugFree(skills, req[r].data.slug) THEN Put(skills, s, req[r].data.slug) ELSE skills
      /\ UNCHANGED <<agents, specials, agentSkills, specialSkills, placed>>
  BY DEF InsertSkill, At
<1>2. req[r].data.slug \in SkillSlugs
  BY <1>1, Remembers DEF AgentData
<1>3. /\ \A b \in DOMAIN skills' : skills'[b] \in SkillSlugs
      /\ DOMAIN skills \subseteq DOMAIN skills'
  BY <1>1, <1>2, AgentsNow DEF Put
<1>4. AgentsOK'
  BY <1>1, <1>3, AgentsNow, ProjectsNow DEF AgentsOK, AgentReferences
<1>5. Keeps(r) /\ StatusKept /\ ImagesKept /\ LatestKept(r)
  BY <1>1, <1>4, AgentEnds
<1> QED
  BY <1>1, <1>5 DEF Harmless, SkillsKept, PlacedKept

(* With an agent its specialized agents, their skills and its placements go. *)
LEMMA DropAgentKeeps ==
  ASSUME CatalogInv, NEW r \in Requests, DropAgent(r), UNCHANGED <<catalogTables, comments, workload>>
  PROVE  Keeps(r) /\ Harmless(r)
<1> DEFINE a == req[r].data.id
           orphans == {x \in DOMAIN specials : specials[x].parent = a}
<1>1. /\ At(r, "delete_agent", "delete") /\ Finish(r)
      /\ agents' = Without(agents, {a})
      /\ specials' = Without(specials, orphans)
      /\ agentSkills' = {row \in agentSkills : row[1] # a}
      /\ specialSkills' = {row \in specialSkills : row[1] \notin orphans}
      /\ placed' = {row \in placed : row[2] # a}
      /\ UNCHANGED skills
  BY DEF DropAgent
<1> HIDE DEF a
<1>2. /\ DOMAIN agents' = DOMAIN agents \ {a} /\ \A b \in DOMAIN agents' : agents'[b] = agents[b]
      /\ DOMAIN specials' = DOMAIN specials \ orphans
      /\ \A x \in DOMAIN specials' : specials'[x] = specials[x] /\ specials[x].parent # a
  BY <1>1 DEF Without
<1>3. AgentReferences'
  BY <1>1, <1>2, AgentsNow, ProjectsNow DEF AgentReferences
<1>4. AgentsOK'
  BY <1>1, <1>2, <1>3, AgentsNow DEF AgentsOK
<1>5. req[r].step = "delete"
  BY <1>1 DEF At
<1>6. Keeps(r) /\ StatusKept /\ ImagesKept /\ LatestKept(r)
  BY <1>1, <1>4, <1>5, AgentEnds
<1> QED
  BY <1>1, <1>2, <1>6 DEF Harmless, SkillsKept, PlacedKept

(* With a skill its rows go. *)
LEMMA DropSkillKeeps ==
  ASSUME CatalogInv, NEW r \in Requests, DropSkill(r), UNCHANGED <<catalogTables, comments, workload>>
  PROVE  Keeps(r) /\ StatusKept /\ ImagesKept /\ LatestKept(r) /\ PlacedKept
<1> DEFINE s == req[r].data.id
<1>1. /\ At(r, "delete_skill", "delete") /\ Finish(r)
      /\ skills' = Without(skills, {s})
      /\ agentSkills' = {row \in agentSkills : row[2] # s}
      /\ specialSkills' = {row \in specialSkills : row[2] # s}
      /\ UNCHANGED <<agents, specials, placed>>
  BY DEF DropSkill
<1> HIDE DEF s
<1>2. DOMAIN skills' = DOMAIN skills \ {s} /\ \A b \in DOMAIN skills' : skills'[b] = skills[b]
  BY <1>1 DEF Without
<1>3. AgentReferences'
  BY <1>1, <1>2, AgentsNow, ProjectsNow DEF AgentReferences
<1>4. AgentsOK'
  BY <1>1, <1>2, <1>3, AgentsNow DEF AgentsOK
<1>5. req[r].step = "delete"
  BY <1>1 DEF At
<1>6. Keeps(r) /\ StatusKept /\ ImagesKept /\ LatestKept(r)
  BY <1>1, <1>4, <1>5, AgentEnds
<1> QED
  BY <1>1, <1>6 DEF PlacedKept

(* An agent gets and loses skills. *)
LEMMA AssignToAgentKeeps ==
  ASSUME CatalogInv, NEW r \in Requests, AssignToAgent(r), UNCHANGED <<catalogTables, comments, workload>>
  PROVE  Keeps(r) /\ Harmless(r)
<1>1. /\ At(r, "add_skill", "write") /\ Finish(r) /\ agentSkills \subseteq agentSkills'
      /\ \A row \in agentSkills' :
           \/ row \in agentSkills
           \/ row = <<row[1], row[2]>> /\ row[1] \in DOMAIN agents /\ row[2] \in DOMAIN skills
      /\ UNCHANGED <<agents, skills, specials, specialSkills, placed>>
  BY DEF AssignToAgent
<1>2. AgentsOK'
  BY <1>1, AgentsNow, ProjectsNow DEF AgentsOK, AgentReferences
<1>3. req[r].step = "write"
  BY <1>1 DEF At
<1>4. Keeps(r) /\ StatusKept /\ ImagesKept /\ LatestKept(r)
  BY <1>1, <1>2, <1>3, AgentEnds
<1> QED
  BY <1>1, <1>4 DEF Harmless, SkillsKept, PlacedKept

(* A skill is removed from an agent. *)
LEMMA RemoveFromAgentKeeps ==
  ASSUME CatalogInv, NEW r \in Requests, RemoveFromAgent(r), UNCHANGED <<catalogTables, comments, workload>>
  PROVE  Keeps(r) /\ StatusKept /\ ImagesKept /\ LatestKept(r) /\ PlacedKept
<1>1. /\ At(r, "remove_skill", "write") /\ Finish(r) /\ agentSkills' \subseteq agentSkills
      /\ UNCHANGED <<agents, skills, specials, specialSkills, placed>>
  BY DEF RemoveFromAgent
<1>2. AgentsOK'
  BY <1>1, AgentsNow, ProjectsNow DEF AgentsOK, AgentReferences
<1>3. req[r].step = "write"
  BY <1>1 DEF At
<1>4. Keeps(r) /\ StatusKept /\ ImagesKept /\ LatestKept(r)
  BY <1>1, <1>2, <1>3, AgentEnds
<1> QED
  BY <1>1, <1>4 DEF PlacedKept

(* A specialized agent is inserted for an agent that is there. *)
LEMMA InsertSpecialKeeps ==
  ASSUME CatalogInv, NEW r \in Requests, NEW x, InsertSpecial(r, x),
         UNCHANGED <<catalogTables, comments, workload>>
  PROVE  Keeps(r) /\ Harmless(r)
<1> DEFINE q == req[r].data
<1>1. /\ At(r, "create_special", "insert") /\ x \notin DOMAIN specials
      /\ IF q.parent \in DOMAIN agents /\ NamedSpecial(q.slug) = {}
         THEN /\ specials' = Put(specials, x, [slug |-> q.slug, parent |-> q.parent])
              /\ IF q.wanted = {} THEN Finish(r)
                 ELSE Continue(r, "resolve", [special |-> x, wanted |-> q.wanted])
         ELSE Finish(r) /\ UNCHANGED specials
      /\ UNCHANGED <<agents, skills, agentSkills, specialSkills, placed>>
  BY DEF InsertSpecial
<1> DEFINE data == [special |-> x, wanted |-> q.wanted]
<1>2. Finish(r) \/ Begin(r, "create_special", "resolve", data)
  BY <1>1 DEF Continue, At
<1>3. /\ DOMAIN specials \subseteq DOMAIN specials'
      /\ \A y \in DOMAIN specials' : specials'[y].parent \in DOMAIN agents
  BY <1>1, AgentsNow DEF Put
<1>4. AgentsOK'
  BY <1>1, <1>3, AgentsNow, ProjectsNow DEF AgentsOK, AgentReferences
<1>5. req[r].step = "insert" /\ req[r].op = "create_special" /\ Busy(r)
  BY <1>1 DEF At, Busy
<1>6. Keeps(r) /\ StatusKept /\ ImagesKept /\ LatestKept(r)
  BY <1>2, <1>4, <1>5, AgentEnds, AgentGoesOn
<1> QED
  BY <1>1, <1>6 DEF Harmless, SkillsKept, PlacedKept

(* The skills of a specialized agent are deleted ... *)
LEMMA SetSkillsKeeps ==
  ASSUME CatalogInv, NEW r \in Requests, SetSkills(r), UNCHANGED <<catalogTables, comments, workload>>
  PROVE  Keeps(r) /\ Harmless(r)
<1> DEFINE data == req[r].data
           op == req[r].op
<1>1. /\ req[r].step = "clear_skills" /\ specialSkills' \subseteq specialSkills
      /\ Goto(r, "insert_skills") /\ Busy(r)
      /\ UNCHANGED <<agents, skills, specials, agentSkills, placed>>
  BY DEF SetSkills, Busy
<1>2. op \in {"create_special", "update_special"}
  BY <1>1, Remembers DEF AgentData
<1>3. AgentsOK'
  BY <1>1, AgentsNow, ProjectsNow DEF AgentsOK, AgentReferences
<1>4. ProjectData([op |-> op, step |-> "insert_skills", data |-> data])
      /\ AgentData([op |-> op, step |-> "insert_skills", data |-> data])
      /\ ~Watched([op |-> op, step |-> "insert_skills", data |-> data])
  BY <1>2 DEF ProjectData, AgentData, Watched
<1>5. Grows
  BY DEF catalogTables, projectTables, Grows
<1>6. Turn(r) /\ Wellformed(req[r])' /\ req'[r] = [op |-> op, step |-> "insert_skills", data |-> data]
  BY <1>1, <1>4, <1>5, GoesOnWith
<1>7. Keeps(r) /\ StatusKept /\ ImagesKept /\ LatestKept(r)
  BY <1>1, <1>3, <1>4, <1>6, AgentStep
<1> QED
  BY <1>1, <1>7 DEF Harmless, SkillsKept, PlacedKept

(* ... and inserted one by one. *)
LEMMA InsertSpecialSkillKeeps ==
  ASSUME CatalogInv, NEW r \in Requests, InsertSpecialSkill(r),
         UNCHANGED <<catalogTables, comments, workload>>
  PROVE  Keeps(r) /\ Harmless(r)
<1> DEFINE q == req[r].data
           op == req[r].op
<1>1. /\ req[r].step = "insert_skills" /\ Busy(r)
      /\ UNCHANGED <<agents, skills, specials, agentSkills, placed>>
      /\ \/ Finish(r) /\ UNCHANGED specialSkills
         \/ \E s \in q.skills :
              /\ q.special \in DOMAIN specials /\ s \in DOMAIN skills
              /\ specialSkills' = specialSkills \cup {<<q.special, s>>}
              /\ Begin(r, op, "insert_skills", [q EXCEPT !.skills = @ \ {s}])
  BY DEF InsertSpecialSkill, Busy, Continue
<1>2. op \in {"create_special", "update_special"}
  BY <1>1, Remembers DEF AgentData
<1>3. AgentsOK'
  <2>1. \A row \in specialSkills' : row[1] \in DOMAIN specials /\ row[2] \in DOMAIN skills
    <3>1. CASE specialSkills' = specialSkills
      BY <3>1, AgentsNow
    <3>2. ASSUME NEW x \in DOMAIN specials, NEW s \in DOMAIN skills,
                 specialSkills' = specialSkills \cup {<<x, s>>}
          PROVE  \A row \in specialSkills' : row[1] \in DOMAIN specials /\ row[2] \in DOMAIN skills
      BY <3>2, AgentsNow
    <3> QED
      BY <1>1, <3>1, <3>2
  <2> QED
    BY <1>1, <2>1, AgentsNow, ProjectsNow DEF AgentsOK, AgentReferences
<1>4. Finish(r) \/ \E data : Begin(r, op, "insert_skills", data)
  BY <1>1
<1>5. Keeps(r) /\ StatusKept /\ ImagesKept /\ LatestKept(r)
  <2>1. CASE Finish(r)
    BY <1>1, <1>3, <2>1, AgentEnds
  <2>2. ASSUME NEW data, Begin(r, op, "insert_skills", data)
        PROVE  Keeps(r) /\ StatusKept /\ ImagesKept /\ LatestKept(r)
    BY <1>1, <1>2, <1>3, <2>2, AgentGoesOn
  <2> QED
    BY <1>4, <2>1, <2>2
<1> QED
  BY <1>1, <1>5 DEF Harmless, SkillsKept, PlacedKept

(* A specialized agent goes with its skills. *)
LEMMA DropSpecialKeeps ==
  ASSUME CatalogInv, NEW r \in Requests, DropSpecial(r), UNCHANGED <<catalogTables, comments, workload>>
  PROVE  Keeps(r) /\ Harmless(r)
<1> DEFINE x == req[r].data.id
<1>1. /\ At(r, "delete_special", "delete") /\ Finish(r)
      /\ specials' = Without(specials, {x})
      /\ specialSkills' = {row \in specialSkills : row[1] # x}
      /\ UNCHANGED <<agents, skills, agentSkills, placed>>
  BY DEF DropSpecial
<1> HIDE DEF x
<1>2. DOMAIN specials' = DOMAIN specials \ {x} /\ \A y \in DOMAIN specials' : specials'[y] = specials[y]
  BY <1>1 DEF Without
<1>3. AgentReferences'
  BY <1>1, <1>2, AgentsNow, ProjectsNow DEF AgentReferences
<1>4. AgentsOK'
  BY <1>1, <1>3, AgentsNow DEF AgentsOK
<1>5. req[r].step = "delete"
  BY <1>1 DEF At
<1>6. Keeps(r) /\ StatusKept /\ ImagesKept /\ LatestKept(r)
  BY <1>1, <1>4, <1>5, AgentEnds
<1> QED
  BY <1>1, <1>6 DEF Harmless, SkillsKept, PlacedKept

(* Agents are placed in projects and removed from them. *)
LEMMA PlaceAgentKeeps ==
  ASSUME CatalogInv, NEW r \in Requests, PlaceAgent(r), UNCHANGED <<catalogTables, comments, workload>>
  PROVE  Keeps(r) /\ Harmless(r)
<1>1. /\ At(r, "assign", "place") /\ Finish(r) /\ placed \subseteq placed'
      /\ \A row \in placed' : row \in placed \/ (row[1] \in DOMAIN projects /\ row[2] \in DOMAIN agents)
      /\ UNCHANGED <<agents, skills, specials, agentSkills, specialSkills>>
  BY DEF PlaceAgent
<1>2. AgentsOK'
  BY <1>1, AgentsNow, ProjectsNow DEF AgentsOK, AgentReferences
<1>3. req[r].step = "place"
  BY <1>1 DEF At
<1>4. Keeps(r) /\ StatusKept /\ ImagesKept /\ LatestKept(r)
  BY <1>1, <1>2, <1>3, AgentEnds
<1> QED
  BY <1>1, <1>4 DEF Harmless, SkillsKept, PlacedKept

(* An agent is removed from a project. *)
LEMMA RemovePlacementKeeps ==
  ASSUME CatalogInv, NEW r \in Requests, RemovePlacement(r), UNCHANGED <<catalogTables, comments, workload>>
  PROVE  Keeps(r) /\ StatusKept /\ ImagesKept /\ LatestKept(r) /\ SkillsKept
<1>1. /\ At(r, "remove_agent", "remove") /\ Finish(r) /\ placed' \subseteq placed
      /\ UNCHANGED <<agents, skills, specials, agentSkills, specialSkills>>
  BY DEF RemovePlacement
<1>2. AgentsOK'
  BY <1>1, AgentsNow, ProjectsNow DEF AgentsOK, AgentReferences
<1>3. req[r].step = "remove"
  BY <1>1 DEF At
<1>4. Keeps(r) /\ StatusKept /\ ImagesKept /\ LatestKept(r)
  BY <1>1, <1>2, <1>3, AgentEnds
<1> QED
  BY <1>1, <1>4 DEF SkillsKept

---------------------------------------------------------------------------
(* The steps of the system, by what can be said of them. *)

(* What is about to write has looked up what it relies on. *)
LooksUpProject(r) ==
  \/ DeleteDockerfile(r)
  \/ \E d \in DockerfileIDs, latest \in {"yes", "no", "unset"} : UpdateDockerfileRequest(r, d, latest)
LooksUpAgent(r) ==
  \/ DeleteSkill(r)
  \/ \E p \in ProjectIDs, a \in AgentIDs, heir \in AgentSlugs \cup {Nobody, Nothing} :
       RemoveAgentRequest(r, p, a, heir)
  \/ RemoveAgentFromProject(r)
  \/ BulkReassignTasks(r)

(* The statements that change nothing the action properties are about. *)
WritesNotice(r) ==
  \/ \E n \in NotificationIDs :
       InsertNotification(r, n) \/ MarkNotificationRead(r, n) \/ DeleteNotification(r, n)
  \/ MarkAllNotificationsRead(r)
  \/ \E p \in ProjectIDs : MarkAllProjectNotificationsRead(r, p)
  \/ \E p \in ProjectIDs, u \in Users :
       \/ \E role \in {"admin", "member"} : GrantUserAccess(r, p, u, role) \/ UpdateUserAccessRole(r, p, u, role)
       \/ RevokeUserAccess(r, p, u)
  \/ \E p \in ProjectIDs, t \in Teams : GrantTeamAccess(r, p, t) \/ RevokeTeamAccess(r, p, t)
WritesProject(r) ==
  \/ \E p \in ProjectIDs : InsertProject(r, p)
  \/ WriteProject(r)
  \/ \E f \in FeatureIDs : InsertFeature(r, f)
  \/ DropFeature(r)
  \/ \E t \in TaskIDs : InsertTask(r, t)
  \/ WriteTask(r)
WritesAgent(r) ==
  \/ \E a \in AgentIDs : InsertAgent(r, a)
  \/ DropAgent(r)
  \/ \E s \in SkillIDs : InsertSkill(r, s)
  \/ AssignToAgent(r)
  \/ \E x \in SpecialIDs : InsertSpecial(r, x)
  \/ SetSkills(r) \/ InsertSpecialSkill(r) \/ DropSpecial(r)
  \/ PlaceAgent(r)

(* The statements that change something they are about. *)
WritesImage(r) ==
  \/ \E d \in DockerfileIDs : InsertDockerfile(r, d)
  \/ WriteDockerfile(r) \/ SetLatest(r) \/ DropDockerfile(r)
TakesAway(r) == DropSkill(r) \/ RemoveFromAgent(r) \/ RemovePlacement(r)

(* Each of these statements keeps the invariant. *)
LEMMA WritesNoticeKeeps ==
  ASSUME CatalogInv, NEW r \in Requests, WritesNotice(r), UNCHANGED <<agentTables, comments, workload>>
  PROVE  Keeps(r) /\ Harmless(r)
<1>1. ASSUME NEW n \in NotificationIDs, MarkNotificationRead(r, n)
      PROVE  Keeps(r) /\ Harmless(r)
  <2>1. NotificationStatement(r, "read", MarkRead({n}))
    BY <1>1 DEF MarkNotificationRead
  <2> QED
    BY <2>1, MarkReadKeeps
<1>2. CASE MarkAllNotificationsRead(r)
  <2>1. NotificationStatement(r, "read", MarkRead(DOMAIN notifications))
    BY <1>2 DEF MarkAllNotificationsRead
  <2> QED
    BY <2>1, MarkReadKeeps
<1>3. ASSUME NEW p \in ProjectIDs, MarkAllProjectNotificationsRead(r, p)
      PROVE  Keeps(r) /\ Harmless(r)
  <2>1. PICK ns : NotificationStatement(r, "read", MarkRead(ns))
    BY <1>3 DEF MarkAllProjectNotificationsRead
  <2> QED
    BY <2>1, MarkReadKeeps
<1>4. ASSUME NEW n \in NotificationIDs, InsertNotification(r, n) \/ DeleteNotification(r, n)
      PROVE  Keeps(r) /\ Harmless(r)
  BY <1>4, InsertNotificationKeeps, DeleteNotificationKeeps
<1>5. ASSUME NEW p \in ProjectIDs, NEW u \in Users, NEW role,
             GrantUserAccess(r, p, u, role) \/ UpdateUserAccessRole(r, p, u, role)
      PROVE  Keeps(r) /\ Harmless(r)
  BY <1>5, GrantUserAccessKeeps
<1>6. ASSUME NEW p \in ProjectIDs, NEW u \in Users, RevokeUserAccess(r, p, u)
      PROVE  Keeps(r) /\ Harmless(r)
  BY <1>6, RevokeUserAccessKeeps
<1>7. ASSUME NEW p \in ProjectIDs, NEW t \in Teams, GrantTeamAccess(r, p, t) \/ RevokeTeamAccess(r, p, t)
      PROVE  Keeps(r) /\ Harmless(r)
  BY <1>7, TeamAccessKeeps
<1> QED
  BY <1>1, <1>2, <1>3, <1>4, <1>5, <1>6, <1>7 DEF WritesNotice

(* Projects, features and tasks. *)
LEMMA WritesProjectKeeps ==
  ASSUME CatalogInv, NEW r \in Requests, WritesProject(r), UNCHANGED <<agentTables, comments, workload>>
  PROVE  Keeps(r) /\ Harmless(r)
BY InsertProjectKeeps, WriteProjectKeeps, InsertFeatureKeeps, DropFeatureKeeps, InsertTaskKeeps,
   WriteTaskKeeps DEF WritesProject

(* Agents and skills. *)
LEMMA WritesAgentKeeps ==
  ASSUME CatalogInv, NEW r \in Requests, WritesAgent(r), UNCHANGED <<catalogTables, comments, workload>>
  PROVE  Keeps(r) /\ Harmless(r)
BY InsertAgentKeeps, DropAgentKeeps, InsertSkillKeeps, AssignToAgentKeeps, InsertSpecialKeeps,
   SetSkillsKeeps, InsertSpecialSkillKeeps, DropSpecialKeeps, PlaceAgentKeeps DEF WritesAgent

(* A step of projects is one of these. *)
LEMMA ProjectsSplit ==
  ASSUME ProjectsNext
  PROVE  /\ UNCHANGED <<agentTables, comments>>
         /\ \E r \in Requests :
              \/ BeginsProject(r) \/ BeginsPlain(r) \/ MovesProject(r) \/ SetProjectDockerfile(r)
              \/ BuildBreadcrumb(r)
              \/ LooksUpProject(r) \/ UpdateFeatureStatus(r)
              \/ WritesNotice(r) \/ WritesProject(r) \/ WriteStatus(r) \/ WritesImage(r)
              \/ WriteDockerfileColumn(r)
BY DEF ProjectsNext, BeginsProject, BeginsPlain, MovesProject, LooksUpProject, WritesNotice,
       WritesProject, WritesImage

(* A step of agents. *)
LEMMA AgentsSplit ==
  ASSUME AgentsNext
  PROVE  /\ UNCHANGED <<catalogTables, comments>>
         /\ \E r \in Requests :
              \/ BeginsAgent(r) \/ NamesSlug(r) \/ MovesAgent(r) \/ Resolves(r)
              \/ LooksUpAgent(r)
              \/ WritesAgent(r) \/ TakesAway(r)
BY DEF AgentsNext, BeginsAgent, NamesSlug, MovesAgent, Resolves, LooksUpAgent, WritesAgent, TakesAway

(* A step of comments. *)
LEMMA CommentsSplit ==
  ASSUME CommentsNext
  PROVE  /\ UNCHANGED agentTables
         /\ \E r \in Requests : QuietComment(r) \/ (\E c : InsertComment(r, c)) \/ DropComment(r)
BY DEF CommentsNext, QuietComment

(* Every step, by what it keeps. *)
Looks(r) == Sees(r) /\ req'[r].op # "status"
Checks(r) == UpdateFeatureStatus(r) /\ UNCHANGED <<agentTables, comments>>
Writes(r) == Keeps(r) /\ Harmless(r)
Decides(r) == WriteStatus(r) /\ UNCHANGED <<agentTables, comments>>
Marks(r) == WritesImage(r) /\ UNCHANGED <<agentTables, comments>>
SetsColumn(r) == WriteDockerfileColumn(r) /\ UNCHANGED <<agentTables, comments>>
Takes(r) == TakesAway(r) /\ UNCHANGED <<catalogTables, comments>>
Reassigns(r) ==
  ReassignTasks(r) /\ UNCHANGED <<projectTables, features, imageTables, noticeTables, comments>>

(* A request that looks up what its statement relies on. *)
LEMMA LooksUp ==
  ASSUME CatalogInv, NEW r \in Requests,
         \/ LooksUpProject(r) /\ UNCHANGED <<agentTables, comments>>
         \/ LooksUpAgent(r) /\ UNCHANGED <<catalogTables, comments>>
  PROVE  Looks(r)
<1>1. CASE LooksUpProject(r) /\ UNCHANGED <<agentTables, comments>>
  BY <1>1, DeleteDockerfileSees, UpdateDockerfileSees DEF LooksUpProject, Looks
<1>2. CASE LooksUpAgent(r) /\ UNCHANGED <<catalogTables, comments>>
  BY <1>2, DeleteSkillSees, RemoveAgentRequestSees, RemoveAgentSees, BulkReassignSees
  DEF LooksUpAgent, Looks
<1> QED
  BY <1>1, <1>2

(* Every step is one of these. *)
LEMMA Steps ==
  ASSUME CatalogInv, Next
  PROVE  /\ UNCHANGED workload
         /\ \E r \in Requests :
              \/ Elsewhere(r) \/ Looks(r) \/ Checks(r) \/ Writes(r)
              \/ Decides(r) \/ Marks(r) \/ SetsColumn(r) \/ Takes(r) \/ Reassigns(r)
<1>1. UNCHANGED workload
  BY DEF Next
<1>2. CASE ProjectsNext
  <2>1. UNCHANGED <<agentTables, comments>>
    BY <1>2, ProjectsSplit
  <2>2. ASSUME NEW r \in Requests,
               BeginsProject(r) \/ BeginsPlain(r) \/ MovesProject(r) \/ SetProjectDockerfile(r) \/ BuildBreadcrumb(r)
        PROVE  Elsewhere(r)
    BY <2>1, <2>2, BeginsProjectQuiet, BeginsPlainQuiet, MovesProjectQuiet, SetProjectDockerfileQuiet,
       BuildBreadcrumbQuiet
  <2>3. ASSUME NEW r \in Requests, LooksUpProject(r) PROVE Looks(r)
    BY <2>1, <2>3, LooksUp
  <2>4. ASSUME NEW r \in Requests, WritesNotice(r) \/ WritesProject(r) PROVE Writes(r)
    BY <1>1, <2>1, <2>4, WritesNoticeKeeps, WritesProjectKeeps DEF Writes
  <2> QED
    BY <1>1, <1>2, <2>1, <2>2, <2>3, <2>4, ProjectsSplit DEF Checks, Decides, Marks, SetsColumn
<1>3. CASE AgentsNext
  <2>1. UNCHANGED <<catalogTables, comments>>
    BY <1>3, AgentsSplit
  <2>2. ASSUME NEW r \in Requests, BeginsAgent(r) \/ NamesSlug(r) \/ MovesAgent(r) \/ Resolves(r)
        PROVE  Elsewhere(r)
    BY <2>1, <2>2, BeginsAgentQuiet, NamesSlugQuiet, MovesAgentQuiet, ResolvesQuiet
  <2>3. ASSUME NEW r \in Requests, LooksUpAgent(r) PROVE Looks(r)
    BY <2>1, <2>3, LooksUp
  <2>4. ASSUME NEW r \in Requests, WritesAgent(r) PROVE Writes(r)
    BY <1>1, <2>1, <2>4, WritesAgentKeeps DEF Writes
  <2> QED
    BY <1>1, <1>3, <2>1, <2>2, <2>3, <2>4, AgentsSplit DEF Takes
<1>4. CASE CommentsNext
  <2>1. UNCHANGED agentTables
    BY <1>4, CommentsSplit
  <2>2. ASSUME NEW r \in Requests, QuietComment(r) PROVE Elsewhere(r)
    BY <2>1, <2>2, CommentsQuiet
  <2>3. ASSUME NEW r \in Requests, (\E c : InsertComment(r, c)) \/ DropComment(r) PROVE Writes(r)
    BY <1>1, <2>1, <2>3, CommentKeeps DEF Writes
  <2> QED
    BY <1>1, <1>4, <2>2, <2>3, CommentsSplit
<1>5. ASSUME NEW r \in Requests, RemoveProject(r) \/ \E t : DeleteTask(r, t) PROVE Writes(r)
  BY <1>1, <1>5, RemoveProjectKeeps, DeleteTaskKeeps DEF Writes
<1>6. ASSUME NEW r \in Requests, GiveUp(r) PROVE Elsewhere(r)
  BY <1>6, GiveUpQuiet
<1> QED
  BY <1>1, <1>2, <1>3, <1>4, <1>5, <1>6 DEF Next, Reassigns

---------------------------------------------------------------------------
(* The invariant. *)

(* It holds at the start. *)
LEMMA CatalogInit == Init => CatalogInv
<1> SUFFICES ASSUME Init PROVE CatalogInv
  OBVIOUS
<1>1. /\ projects = [p \in {Home} |-> [parent |-> Nothing, dockerfile |-> Nothing]]
      /\ lineage = [p \in {Home} |-> <<Home>>]
      /\ userAccess = [a \in {Home} \X DOMAIN TeamsOf |-> "member"] /\ teamAccess = {}
      /\ features = [f \in {} |-> {}] /\ dockerfiles = [d \in {} |-> {}]
      /\ notifications = [n \in {} |-> {}] /\ tasks = [t \in {} |-> {}]
      /\ comments = [c \in {} |-> {}]
  BY DEF Init, ProjectsInit
<1>2. /\ \E a \in AgentIDs : agents = [i \in {a} |-> FirstSlug]
      /\ skills = [s \in {} |-> {}] /\ specials = [x \in {} |-> {}]
      /\ agentSkills = {} /\ specialSkills = {} /\ placed = {}
  BY DEF Init, AgentsInit
<1>3. req = [r \in Requests |-> Idle]
  BY DEF Init, HandlersInit
<1>4. ProjectsOK /\ FeaturesOK /\ TasksOK /\ ImagesOK
  BY <1>1 DEF ProjectsOK, ProjectRow, FeaturesOK, TasksOK, ImagesOK
<1>5. LineageOK
  <2>1. DOMAIN lineage = {Home} /\ lineage[Home] = <<Home>> /\ Len(<<Home>>) = 1
        /\ <<Home>> \in Seq(ProjectIDs) /\ <<Home>>[1] = Home
    BY <1>1
  <2>2. ParentOf(Home) = Nothing
    BY <2>1 DEF ParentOf
  <2> QED
    BY <1>1, <2>1, <2>2 DEF LineageOK
<1>6. NoticesOK
  <2>1. DOMAIN userAccess \subseteq (DOMAIN projects) \X Users
    BY <1>1 DEF Users
  <2> QED
    BY <1>1, <2>1 DEF NoticesOK
<1>7. AgentsOK
  BY <1>2 DEF AgentsOK, AgentReferences
<1>8. RequestsOK /\ OneAtATime
  BY <1>3, IdleWellformed DEF RequestsOK, OneAtATime, Busy, Idle
<1> QED
  BY <1>4, <1>5, <1>6, <1>7, <1>8 DEF CatalogInv

(* Every statement that writes keeps the invariant. *)
LEMMA WritersKeep ==
  ASSUME CatalogInv, UNCHANGED workload, NEW r \in Requests,
         Decides(r) \/ Marks(r) \/ SetsColumn(r) \/ Takes(r)
  PROVE  Keeps(r)
<1>1. CASE Decides(r)
  BY <1>1, WriteStatusKeeps DEF Decides
<1>2. CASE Marks(r)
  BY <1>2, InsertDockerfileKeeps, WriteDockerfileKeeps, SetLatestKeeps, DropDockerfileKeeps
  DEF Marks, WritesImage
<1>3. CASE SetsColumn(r)
  BY <1>3, WriteDockerfileColumnKeeps DEF SetsColumn
<1>4. CASE Takes(r)
  BY <1>4, DropSkillKeeps, RemoveFromAgentKeeps, RemovePlacementKeeps DEF Takes, TakesAway
<1> QED
  BY <1>1, <1>2, <1>3, <1>4

(* And so does every step. *)
LEMMA CatalogStep == CatalogInv /\ [Next]_vars => CatalogInv'
<1> SUFFICES ASSUME CatalogInv, [Next]_vars PROVE CatalogInv'
  OBVIOUS
<1>1. CASE UNCHANGED vars
  <2>1. /\ UNCHANGED <<projectTables, noticeTables, agentTables, req, workload>>
        /\ UNCHANGED <<projects, features, tasks, dockerfiles, comments>>
    BY <1>1 DEF vars, catalogTables, projectTables, featureTables, imageTables
  <2>2. ProjectsOK' /\ LineageOK' /\ Grows
    BY <2>1, ProjectsStay DEF CatalogInv
  <2>3. NoticesOK' /\ FeaturesOK' /\ TasksOK' /\ AgentsOK' /\ ImagesOK'
    BY <2>1, NoticesStay, FeaturesStay, TasksStay, AgentsStay, ImagesStay DEF CatalogInv
  <2>4. ASSUME NEW r \in Requests PROVE Wellformed(req[r])'
    <3>1. PICK q : q = req[r]
      OBVIOUS
    <3>2. /\ req'[r] = q /\ ProjectData(q) /\ AgentData(q)
          /\ q = Idle \/ q = [op |-> q.op, step |-> q.step, data |-> q.data]
      BY <2>1, <3>1 DEF CatalogInv, RequestsOK, Wellformed
    <3> QED
      BY <2>2, <3>2, TurnWellformed
  <2>5. RequestsOK' /\ OneAtATime'
    BY <2>1, <2>4 DEF CatalogInv, RequestsOK, OneAtATime, Busy
  <2> QED
    BY <2>2, <2>3, <2>5 DEF CatalogInv
<1>2. CASE Next
  <2>1. PICK r \in Requests :
          \/ Elsewhere(r) \/ Looks(r) \/ Checks(r) \/ Writes(r)
          \/ Decides(r) \/ Marks(r) \/ SetsColumn(r) \/ Takes(r) \/ Reassigns(r)
    BY <1>2, Steps
  <2>2. UNCHANGED workload
    BY <1>2, Steps
  <2>3. CASE Elsewhere(r) \/ Looks(r) \/ Checks(r)
    <3>1. Quiet(r)
      BY <2>3, UpdateFeatureStatusSees DEF Elsewhere, Looks, Checks, Sees
    <3> QED
      BY <2>2, <3>1, QuietKeeps
  <2>4. CASE Writes(r) \/ Decides(r) \/ Marks(r) \/ SetsColumn(r) \/ Takes(r)
    BY <2>2, <2>4, WritersKeep DEF Writes, Keeps
  <2>5. CASE Reassigns(r)
    BY <2>2, <2>5, ReassignTasksKeeps DEF Reassigns
  <2> QED
    BY <2>1, <2>3, <2>4, <2>5
<1> QED
  BY <1>1, <1>2

(* The inductive invariant: rows refer to what is there, requests remember
   what their statements need, and projects stay where they were created. *)
THEOREM CatalogInvariant == Spec => []CatalogInv
<1> QED
  BY CatalogInit, CatalogStep, PTL DEF Spec

(* The rows of all tables are well-formed. *)
THEOREM TypeCorrect == Spec => []TypeOK
<1>1. CatalogInv => TypeOK
  <2> SUFFICES ASSUME CatalogInv PROVE TypeOK
    OBVIOUS
  <2>1. DOMAIN userAccess \subseteq ProjectIDs \X Users /\ teamAccess \subseteq ProjectIDs \X Teams
    <3>1. DOMAIN projects \subseteq ProjectIDs
      BY DEF CatalogInv, ProjectsOK
    <3> QED
      BY <3>1, AccessNow, PairsWithin
  <2> QED
    BY <2>1 DEF CatalogInv, ProjectsOK, LineageOK, FeaturesOK, FeatureRow, TasksOK, TaskEntry, ImagesOK,
                ImageRow, AgentsOK, TypeOK
<1> QED
  BY <1>1, CatalogInvariant, PTL

(* However creations and deletions interleave, in the middle of other
   requests, whatever a row refers to is there. *)
THEOREM ReferencesAlwaysHold == Spec => []ReferencesHold
<1>1. CatalogInv => ReferencesHold
  <2> SUFFICES ASSUME CatalogInv PROVE ReferencesHold
    OBVIOUS
  <2>1. \A a \in DOMAIN userAccess \cup teamAccess : a[1] \in DOMAIN projects
    BY AccessNow
  <2>2. ProjectReferences
    BY <2>1 DEF CatalogInv, ProjectsOK, NoticesOK, FeaturesOK, TasksOK, ProjectReferences
  <2> QED
    BY <2>2 DEF CatalogInv, AgentsOK, ReferencesHold
<1> QED
  BY <1>1, CatalogInvariant, PTL

(* A breadcrumb that is answered leads from the root down to the project
   without a gap: what has been read is the end of the lineage, and nothing is
   above it when there is no parent. *)
THEOREM BreadcrumbAlwaysSound == Spec => []BreadcrumbSound
<1>1. CatalogInv => BreadcrumbSound
  <2> SUFFICES ASSUME CatalogInv, NEW r \in Requests, At(r, "info", "answer"),
                      NEW path, path = req[r].data.path
               PROVE  path = lineage[path[Len(path)]]
    BY DEF BreadcrumbSound
  <2> DEFINE p == path[Len(path)]
             above == Len(lineage[p]) - Len(path)
  <2>1. /\ path \in Seq(ProjectIDs) /\ path # <<>> /\ p \in DOMAIN lineage /\ above >= 0
        /\ \A i \in 1 .. Len(path) : path[i] = lineage[p][above + i]
        /\ req[r].data.parent = IF above = 0 THEN Nothing ELSE lineage[p][above]
    BY Remembers DEF ProjectData, PathSoFar, At
  <2>2. req[r].data.parent = Nothing
    BY Remembers DEF ProjectData, At
  <2>3. /\ lineage[p] \in Seq(ProjectIDs) /\ Len(lineage[p]) \in Nat /\ Len(path) \in Nat \ {0}
        /\ Nothing \notin ProjectIDs
    BY <2>1, LineageOf DEF CatalogInv
  <2> HIDE DEF p
  <2>4. above = 0
    <3> SUFFICES ASSUME above # 0 PROVE FALSE
      OBVIOUS
    <3>1. above \in 1 .. Len(lineage[p])
      BY <2>1, <2>3
    <3>2. lineage[p][above] \in ProjectIDs
      BY <2>3, <3>1
    <3> QED
      BY <2>1, <2>2, <2>3, <3>2
  <2>5. Len(path) = Len(lineage[p]) /\ \A i \in 1 .. Len(path) : path[i] = lineage[p][i]
    <3>1. Len(path) = Len(lineage[p])
      BY <2>3, <2>4
    <3> HIDE DEF above
    <3>2. \A i \in 1 .. Len(path) : above + i = i
      BY <2>4
    <3> QED
      BY <2>1, <3>1, <3>2
  <2>6. path = lineage[p]
    BY <2>1, <2>3, <2>5
  <2> QED
    BY <2>6 DEF p
<1> QED
  BY <1>1, CatalogInvariant, PTL

(* A request that takes its turn does not take up a feature that is done. *)
LEMMA DoneStays ==
  ASSUME NEW f, FinallyDone(f), NEW r \in Requests, Turn(r),
         f \in DOMAIN features' => features'[f].status = features[f].status,
         At(r, "status", "write_status")' => req'[r].data.feature # f
  PROVE  FinallyDone(f)' \/ f \notin DOMAIN features'
BY DEF FinallyDone, Turn, At

(* A feature that is done stays done, however requests interleave, except
   that one which had checked the status before may still write it. *)
THEOREM DoneAlwaysFinal == Spec => DoneIsFinal
<1>1. ASSUME CatalogInv, [Next]_vars, NEW f \in FeatureIDs, FinallyDone(f)
      PROVE  FinallyDone(f)' \/ f \notin DOMAIN features'
  <2>1. CASE UNCHANGED vars
    BY <1>1, <2>1 DEF vars, catalogTables, featureTables, FinallyDone, At
  <2>2. CASE Next
    <3>1. PICK r \in Requests :
            \/ Elsewhere(r) \/ Looks(r) \/ Checks(r) \/ Writes(r)
            \/ Decides(r) \/ Marks(r) \/ SetsColumn(r) \/ Takes(r) \/ Reassigns(r)
      BY <1>1, <2>2, Steps
    <3>2. UNCHANGED workload
      BY <1>1, <2>2, Steps
    <3>3. f \in DOMAIN features /\ features[f].status = "done"
      BY <1>1 DEF FinallyDone
    <3>4. CASE Elsewhere(r) \/ Looks(r)
      <4>1. Quiet(r) /\ ~At(r, "status", "write_status")'
        BY <3>4 DEF Elsewhere, Looks, Sees, Watched, At
      <4> QED
        BY <1>1, <4>1, DoneStays DEF Quiet, Tables, catalogTables, featureTables
    <3>5. CASE Checks(r)
      <4>1. /\ Quiet(r)
            /\ At(r, "status", "write_status")' =>
                 LET q == req'[r].data IN
                 q.feature \in DOMAIN features
                   /\ q.status \in ValidFeatureTransitions[features[q.feature].status]
        BY <1>1, <3>5, UpdateFeatureStatusSees DEF Checks, Sees
      <4>2. At(r, "status", "write_status")' => req'[r].data.feature # f
        BY <3>3, <4>1 DEF ValidFeatureTransitions
      <4> QED
        BY <1>1, <4>1, <4>2, DoneStays DEF Quiet, Tables, catalogTables, featureTables
    <3>6. CASE Decides(r)
      <4>1. /\ Keeps(r)
            /\ \A g \in DOMAIN features \cap DOMAIN features' :
                 g # req[r].data.feature => features'[g].status = features[g].status
        BY <1>1, <3>2, <3>6, WriteStatusKeeps DEF Decides
      <4>2. req[r].data.feature # f
        BY <1>1, <3>6 DEF Decides, WriteStatus, FinallyDone
      <4> QED
        BY <1>1, <3>3, <4>1, <4>2, DoneStays DEF Keeps, Watched, At
    <3>7. CASE Writes(r) \/ Marks(r) \/ SetsColumn(r) \/ Takes(r)
      <4>1. Keeps(r) /\ StatusKept
        <5>1. CASE Writes(r)
          BY <5>1 DEF Writes, Harmless
        <5>2. CASE Marks(r)
          BY <1>1, <3>2, <5>2, InsertDockerfileKeeps, WriteDockerfileKeeps, SetLatestKeeps,
             DropDockerfileKeeps DEF Marks, WritesImage
        <5>3. CASE SetsColumn(r)
          BY <1>1, <3>2, <5>3, WriteDockerfileColumnKeeps DEF SetsColumn
        <5>4. CASE Takes(r)
          BY <1>1, <3>2, <5>4, DropSkillKeeps, RemoveFromAgentKeeps, RemovePlacementKeeps
          DEF Takes, TakesAway
        <5> QED
          BY <3>7, <5>1, <5>2, <5>3, <5>4
      <4> QED
        BY <1>1, <3>3, <4>1, DoneStays DEF Keeps, StatusKept, Watched, At
    <3>8. CASE Reassigns(r)
      <4>1. Turn(r) /\ StatusKept /\ req'[r].op # "status"
        BY <1>1, <3>2, <3>8, ReassignTasksKeeps DEF Reassigns, Harmless
      <4> QED
        BY <1>1, <3>3, <4>1, DoneStays DEF StatusKept, At
    <3> QED
      BY <3>1, <3>4, <3>5, <3>6, <3>7, <3>8
  <2> QED
    BY <1>1, <2>1, <2>2
<1>2. CatalogInv /\ [Next]_vars =>
        [\A f \in FeatureIDs : FinallyDone(f) => FinallyDone(f)' \/ f \notin DOMAIN features']_vars
  BY <1>1
<1> QED
  BY <1>2, CatalogInvariant, PTL DEF Spec, DoneIsFinal

(* When requests do not overlap, the others are idle. *)
LEMMA OthersIdle ==
  ASSUME CatalogInv, ~workload.overlap, NEW r \in Requests, Turn(r), NEW s \in Requests, s # r
  PROVE  req'[s] = req[s] /\ ~Busy(s)
BY DEF CatalogInv, OneAtATime, Turn

(* Where a request does not rely on what it has looked up, nothing is claimed. *)
LEMMA NothingToSee ==
  ASSUME NEW s \in Requests, ~Watched(req'[s])
  PROVE  Current(req[s])'
BY DEF Watched, Current

(* What a request has looked up stays true when no other one runs. *)
LEMMA SequentialStep == CatalogInv /\ SequentialInv /\ [Next]_vars => SequentialInv'
<1> SUFFICES ASSUME CatalogInv, SequentialInv, [Next]_vars PROVE SequentialInv'
  OBVIOUS
<1>1. CASE UNCHANGED vars
  BY <1>1 DEF vars, catalogTables, projectTables, featureTables, imageTables, agentTables,
              SequentialInv, Current, ImageInUse, SkillInUse, TasksOf
<1>2. CASE Next
  <2>1. PICK r \in Requests :
          \/ Elsewhere(r) \/ Looks(r) \/ Checks(r) \/ Writes(r)
          \/ Decides(r) \/ Marks(r) \/ SetsColumn(r) \/ Takes(r) \/ Reassigns(r)
    BY <1>2, Steps
  <2>2. UNCHANGED workload
    BY <1>2, Steps
  <2>3. Turn(r) /\ (~Watched(req'[r]) \/ (Current(req[r]) => Current(req[r])'))
    <3>1. CASE Elsewhere(r) \/ Looks(r) \/ Checks(r)
      BY <3>1, UpdateFeatureStatusSees DEF Elsewhere, Looks, Checks, Sees, Quiet
    <3>2. CASE Writes(r) \/ Decides(r) \/ Marks(r) \/ SetsColumn(r) \/ Takes(r)
      BY <2>2, <3>2, WritersKeep DEF Writes, Keeps
    <3>3. CASE Reassigns(r)
      BY <2>2, <3>3, ReassignTasksKeeps DEF Reassigns
    <3> QED
      BY <2>1, <3>1, <3>2, <3>3
  <2>4. ASSUME ~workload.overlap, NEW s \in Requests PROVE Current(req[s])'
    <3>1. CASE s = r
      <4>1. Current(req[r])
        BY <2>4 DEF SequentialInv
      <4>2. Current(req[r])'
        BY <2>3, <4>1, NothingToSee
      <4> QED
        BY <3>1, <4>2
    <3>2. CASE s # r
      BY <2>3, <2>4, <3>2, OthersIdle, NothingToSee DEF Busy, Watched
    <3> QED
      BY <3>1, <3>2
  <2> QED
    BY <2>2, <2>4 DEF SequentialInv
<1> QED
  BY <1>1, <1>2

(* When requests do not overlap, what one has looked up is true when its
   statement runs. *)
THEOREM SequentialInvariant == Spec => [](CatalogInv /\ SequentialInv)
<1>1. Init => SequentialInv
  BY DEF Init, HandlersInit, SequentialInv, Current, Idle
<1> QED
  BY <1>1, CatalogInit, CatalogStep, SequentialStep, PTL DEF Spec

(* One statement after the other makes one version the latest at most. *)
LEMMA LatestStep == CatalogInv /\ SequentialInv /\ LatestInv /\ [Next]_vars => LatestInv'
<1> SUFFICES ASSUME CatalogInv, SequentialInv, LatestInv, [Next]_vars, Undisturbed',
                    NEW d \in DOMAIN dockerfiles', NEW e \in DOMAIN dockerfiles', d # e,
                    dockerfiles'[d].image[1] = dockerfiles'[e].image[1],
                    dockerfiles'[d].latest, dockerfiles'[e].latest
             PROVE  \E r \in Requests : SettledBy(r, d, e)'
  BY DEF LatestInv
<1>1. CASE UNCHANGED vars
  <2>1. UNCHANGED <<req, workload, dockerfiles>>
    BY <1>1 DEF vars, catalogTables, imageTables
  <2> QED
    BY <2>1 DEF LatestInv, Undisturbed, Offered, SettledBy
<1>2. CASE Next
  <2>1. PICK r \in Requests :
          \/ Elsewhere(r) \/ Looks(r) \/ Checks(r) \/ Writes(r)
          \/ Decides(r) \/ Marks(r) \/ SetsColumn(r) \/ Takes(r) \/ Reassigns(r)
    BY <1>2, Steps
  <2>2. UNCHANGED workload
    BY <1>2, Steps
  <2>3. Undisturbed /\ ~workload.overlap /\ ~Offered("fail")
    BY <2>2 DEF Undisturbed, Offered
  <2>4. ASSUME d \in DOMAIN dockerfiles, e \in DOMAIN dockerfiles,
               dockerfiles[d].image[1] = dockerfiles[e].image[1],
               dockerfiles[d].latest, dockerfiles[e].latest
        PROVE  \E s \in Requests : SettledBy(s, d, e)
    BY <2>3, <2>4 DEF LatestInv
  <2>5. ASSUME Turn(r), req[r].step # "set_latest", NEW s \in Requests, SettledBy(s, d, e)
        PROVE  SettledBy(s, d, e)'
    BY <2>5 DEF Turn, SettledBy
  <2>6. ASSUME Turn(r), LatestKept(r)
        PROVE  \E s \in Requests : SettledBy(s, d, e)'
    BY <2>4, <2>5, <2>6 DEF LatestKept
  <2>7. CASE Elsewhere(r) \/ Looks(r) \/ Checks(r)
    <3>1. Quiet(r) /\ req[r].step # "set_latest"
      BY <2>3, <2>7, UpdateFeatureStatusSees DEF Elsewhere, Looks, Checks, Sees
    <3>2. Turn(r) /\ LatestKept(r)
      BY <3>1 DEF Quiet, Tables, catalogTables, imageTables, LatestKept
    <3> QED
      BY <2>6, <3>2
  <2>8. CASE Writes(r) \/ Decides(r) \/ SetsColumn(r) \/ Takes(r) \/ Reassigns(r)
    <3>1. Turn(r) /\ LatestKept(r)
      <4>1. CASE Writes(r)
        BY <4>1 DEF Writes, Keeps, Harmless
      <4>2. CASE Decides(r)
        BY <2>2, <4>2, WriteStatusKeeps DEF Decides, Keeps
      <4>3. CASE SetsColumn(r)
        BY <2>2, <4>3, WriteDockerfileColumnKeeps DEF SetsColumn, Keeps
      <4>4. CASE Takes(r)
        BY <2>2, <4>4, DropSkillKeeps, RemoveFromAgentKeeps, RemovePlacementKeeps
        DEF Takes, TakesAway, Keeps
      <4>5. CASE Reassigns(r)
        BY <2>2, <4>5, ReassignTasksKeeps DEF Reassigns, Harmless
      <4> QED
        BY <2>8, <4>1, <4>2, <4>3, <4>4, <4>5
    <3> QED
      BY <2>6, <3>1
  <2>9. CASE Marks(r)
    <3>1. UNCHANGED <<agentTables, comments, workload>>
      BY <2>2, <2>9 DEF Marks
    <3>2. ASSUME NEW new \in DockerfileIDs, InsertDockerfile(r, new)
          PROVE  \E s \in Requests : SettledBy(s, d, e)'
      <4>1. /\ Turn(r) /\ req[r].step # "set_latest"
            /\ DOMAIN dockerfiles' \subseteq DOMAIN dockerfiles \cup {new} /\ new \notin DOMAIN dockerfiles
            /\ \A i \in DOMAIN dockerfiles : dockerfiles'[i] = dockerfiles[i]
            /\ new \in DOMAIN dockerfiles' /\ dockerfiles'[new].latest =>
                 req'[r].step = "set_latest" /\ req'[r].data.dockerfile = new
        BY <3>1, <3>2, InsertDockerfileKeeps DEF Keeps
      <4>2. CASE new \in {d, e}
        <5>1. SettledBy(r, d, e)'
          BY <4>1, <4>2 DEF SettledBy
        <5> QED
          BY <5>1
      <4>3. CASE new \notin {d, e}
        BY <2>4, <2>5, <4>1, <4>3
      <4> QED
        BY <4>2, <4>3
    <3>3. CASE WriteDockerfile(r)
      <4> DEFINE old == req[r].data.dockerfile
      <4>1. Current(req[r])
        BY <2>3 DEF SequentialInv
      <4>2. /\ Turn(r) /\ req[r].step # "set_latest"
            /\ DOMAIN dockerfiles' = DOMAIN dockerfiles
            /\ \A i \in DOMAIN dockerfiles : i # old => dockerfiles'[i] = dockerfiles[i]
            /\ old \in DOMAIN dockerfiles =>
                 /\ dockerfiles'[old].image = dockerfiles[old].image
                 /\ \/ dockerfiles'[old].latest => dockerfiles[old].latest
                    \/ req'[r].step = "set_latest" /\ req'[r].data.dockerfile = old
        BY <3>1, <3>3, <4>1, WriteDockerfileKeeps DEF Keeps
      <4> HIDE DEF old
      <4>3. CASE /\ old \in {d, e}
                 /\ req'[r].step = "set_latest" /\ req'[r].data.dockerfile = old
        <5>1. SettledBy(r, d, e)'
          BY <4>3 DEF SettledBy
        <5> QED
          BY <5>1
      <4>4. CASE ~(old \in {d, e} /\ req'[r].step = "set_latest" /\ req'[r].data.dockerfile = old)
        <5>1. /\ dockerfiles[d].image[1] = dockerfiles[e].image[1]
              /\ dockerfiles[d].latest /\ dockerfiles[e].latest
          BY <4>2, <4>4
        <5> QED
          BY <2>4, <2>5, <4>2, <5>1
      <4> QED
        BY <4>3, <4>4
    <3>4. CASE SetLatest(r)
      <4> DEFINE new == req[r].data.dockerfile
      <4>1. /\ Turn(r) /\ DOMAIN dockerfiles' = DOMAIN dockerfiles
            /\ \A i \in DOMAIN dockerfiles :
                 /\ dockerfiles'[i].image = dockerfiles[i].image
                 /\ IF new \in DOMAIN dockerfiles /\ dockerfiles[i].image[1] = dockerfiles[new].image[1]
                    THEN dockerfiles'[i].latest = (i = new)
                    ELSE dockerfiles'[i].latest = dockerfiles[i].latest
        BY <3>1, <3>4, SetLatestKeeps DEF Keeps
      <4>2. ASSUME NEW s \in Requests, SettledBy(s, d, e)
            PROVE  new \in {d, e}
        <5>1. Busy(s)
          BY <4>2 DEF SettledBy, Busy
        <5>2. s = r
          BY <2>3, <4>1, <5>1, OthersIdle
        <5> QED
          BY <4>2, <5>2 DEF SettledBy
      <4> HIDE DEF new
      <4>3. CASE new \in DOMAIN dockerfiles /\ dockerfiles[d].image[1] = dockerfiles[new].image[1]
        <5>1. /\ d \in DOMAIN dockerfiles /\ e \in DOMAIN dockerfiles
              /\ dockerfiles[e].image[1] = dockerfiles[new].image[1]
          BY <4>1, <4>3
        <5>2. dockerfiles'[d].latest = (d = new)
          BY <4>1, <4>3, <5>1, ZenonT(30)
        <5>3. dockerfiles'[e].latest = (e = new)
          BY <4>1, <4>3, <5>1, ZenonT(30)
        <5>4. d = new /\ e = new
          BY <5>2, <5>3, Zenon
        <5> QED
          BY <5>4
      <4>4. CASE ~(new \in DOMAIN dockerfiles /\ dockerfiles[d].image[1] = dockerfiles[new].image[1])
        <5>1. dockerfiles[d].image[1] = dockerfiles[e].image[1]
          BY <4>1
        <5>2. dockerfiles[d].latest /\ dockerfiles[e].latest
          BY <4>1, <4>4, <5>1
        <5>3. new \in {d, e}
          BY <2>4, <4>1, <4>2, <5>1, <5>2
        <5> QED
          BY <4>1, <4>4, <5>1, <5>3
      <4> QED
        BY <4>3, <4>4
    <3>5. CASE DropDockerfile(r)
      <4>1. /\ Turn(r) /\ req[r].step # "set_latest"
            /\ \A i \in DOMAIN dockerfiles' :
                 i \in DOMAIN dockerfiles /\ dockerfiles'[i] = dockerfiles[i]
        BY <3>1, <3>5, DropDockerfileKeeps DEF Keeps, DropDockerfile, At, Without
      <4> QED
        BY <2>4, <2>5, <4>1
    <3> QED
      BY <2>9, <3>2, <3>3, <3>4, <3>5 DEF Marks, WritesImage
  <2> QED
    BY <2>1, <2>7, <2>8, <2>9
<1> QED
  BY <1>1, <1>2

(* When requests neither overlap nor fail, one version of a Dockerfile at most
   is the latest once every request has ended. *)
THEOREM OneIsLatest == Spec => []OneLatest
<1>1. Init => SequentialInv /\ LatestInv
  BY DEF Init, HandlersInit, ProjectsInit, SequentialInv, Current, LatestInv, Idle
<1>2. LatestInv => OneLatest
  BY DEF LatestInv, OneLatest, SettledBy, Busy
<1> QED
  BY <1>1, <1>2, CatalogInit, CatalogStep, SequentialStep, LatestStep, PTL DEF Spec

(* What a step is about when requests do not overlap: the columns and the
   rows that it takes away are not in use. *)
LEMMA InUseStays ==
  ASSUME CatalogInv, SequentialInv, ~workload.overlap, Next,
         NEW p \in DOMAIN projects \cap DOMAIN projects', projects'[p].dockerfile = Nothing,
         projects[p].dockerfile # Nothing
  PROVE  \E r \in Requests : At(r, "clear_image", "write_column")
<1>1. PICK r \in Requests :
        \/ Elsewhere(r) \/ Looks(r) \/ Checks(r) \/ Writes(r)
        \/ Decides(r) \/ Marks(r) \/ SetsColumn(r) \/ Takes(r) \/ Reassigns(r)
  BY Steps
<1>2. UNCHANGED workload
  BY Steps
<1>3. CASE Elsewhere(r) \/ Looks(r) \/ Checks(r)
  <2>1. UNCHANGED Tables
    BY <1>3, UpdateFeatureStatusSees DEF Elsewhere, Looks, Checks, Sees, Quiet
  <2> QED
    BY <2>1 DEF Tables, catalogTables, projectTables
<1>4. CASE Writes(r) \/ Decides(r) \/ Takes(r) \/ Reassigns(r)
  <2>1. ImagesKept
    <3>1. CASE Writes(r)
      BY <3>1 DEF Writes, Harmless
    <3>2. CASE Decides(r)
      BY <1>2, <3>2, WriteStatusKeeps DEF Decides
    <3>3. CASE Takes(r)
      BY <1>2, <3>3, DropSkillKeeps, RemoveFromAgentKeeps, RemovePlacementKeeps DEF Takes, TakesAway
    <3>4. CASE Reassigns(r)
      BY <1>2, <3>4, ReassignTasksKeeps DEF Reassigns, Harmless
    <3> QED
      BY <1>4, <3>1, <3>2, <3>3, <3>4
  <2> QED
    BY <2>1 DEF ImagesKept
<1>5. CASE Marks(r)
  <2>1. UNCHANGED <<agentTables, comments, workload>>
    BY <1>2, <1>5 DEF Marks
  <2>2. CASE ImagesKept
    BY <2>2 DEF ImagesKept
  <2>3. CASE DropDockerfile(r)
    <3>1. ~ImageInUse(req[r].data.dockerfile)
      BY <2>3 DEF SequentialInv, Current, DropDockerfile, At
    <3>2. projects[p] \in ProjectRow
      BY DEF CatalogInv, ProjectsOK
    <3> QED
      BY <2>3, <3>1, <3>2 DEF DropDockerfile, ImageInUse, ProjectRow
  <2> QED
    BY <1>5, <2>1, <2>2, <2>3, InsertDockerfileKeeps, WriteDockerfileKeeps, SetLatestKeeps
    DEF Marks, WritesImage
<1>6. CASE SetsColumn(r)
  <2> DEFINE q == req[r].data
  <2>1. /\ req[r].step = "write_column"
        /\ projects' = IF q.project \in DOMAIN projects /\ q.dockerfile \in DOMAIN dockerfiles \cup {Nothing}
                       THEN [projects EXCEPT ![q.project].dockerfile = q.dockerfile] ELSE projects
    BY <1>6 DEF SetsColumn, WriteDockerfileColumn
  <2>2. q.dockerfile = Nothing
    BY <2>1 DEF CatalogInv, ProjectsOK, ProjectRow
  <2>3. /\ req[r].op = "set_image" => q.dockerfile \in DockerfileIDs
        /\ req[r].op \in {"set_image", "clear_image"}
    BY <2>1, Remembers DEF ProjectData
  <2>4. At(r, "clear_image", "write_column")
    BY <2>1, <2>2, <2>3 DEF At
  <2> QED
    BY <2>4
<1> QED
  BY <1>1, <1>3, <1>4, <1>5, <1>6

(* The skills of agents. *)
LEMMA SkillStays ==
  ASSUME CatalogInv, SequentialInv, ~workload.overlap, Next,
         NEW row \in agentSkills \ agentSkills', row[1] \in DOMAIN agents'
  PROVE  \E r \in Requests : At(r, "remove_skill", "write")
<1>1. PICK r \in Requests :
        \/ Elsewhere(r) \/ Looks(r) \/ Checks(r) \/ Writes(r)
        \/ Decides(r) \/ Marks(r) \/ SetsColumn(r) \/ Takes(r) \/ Reassigns(r)
  BY Steps
<1>2. UNCHANGED workload
  BY Steps
<1>3. CASE Elsewhere(r) \/ Looks(r) \/ Checks(r)
  <2>1. UNCHANGED Tables
    BY <1>3, UpdateFeatureStatusSees DEF Elsewhere, Looks, Checks, Sees, Quiet
  <2> QED
    BY <2>1 DEF Tables, agentTables
<1>4. CASE Writes(r) \/ Decides(r) \/ Marks(r) \/ SetsColumn(r) \/ Reassigns(r)
  <2>1. SkillsKept
    <3>1. CASE Writes(r)
      BY <3>1 DEF Writes, Harmless
    <3>2. CASE Decides(r)
      BY <1>2, <3>2, WriteStatusKeeps DEF Decides
    <3>3. CASE Marks(r)
      BY <1>2, <3>3, InsertDockerfileKeeps, WriteDockerfileKeeps, SetLatestKeeps, DropDockerfileKeeps
      DEF Marks, WritesImage
    <3>4. CASE SetsColumn(r)
      BY <1>2, <3>4, WriteDockerfileColumnKeeps DEF SetsColumn
    <3>5. CASE Reassigns(r)
      BY <1>2, <3>5, ReassignTasksKeeps DEF Reassigns, Harmless
    <3> QED
      BY <1>4, <3>1, <3>2, <3>3, <3>4, <3>5
  <2> QED
    BY <2>1 DEF SkillsKept
<1>5. CASE Takes(r)
  <2>1. CASE DropSkill(r)
    <3> DEFINE s == req[r].data.id
    <3>1. ~SkillInUse(s)
      BY <2>1 DEF SequentialInv, Current, DropSkill, At
    <3>2. row[2] = s /\ row[1] \in DOMAIN agents
      BY <2>1, AgentsNow DEF DropSkill
    <3>3. row = <<row[1], s>>
      BY <3>2 DEF CatalogInv, AgentsOK
    <3> QED
      BY <3>1, <3>2, <3>3 DEF SkillInUse
  <2>2. CASE RemoveFromAgent(r)
    BY <2>2 DEF RemoveFromAgent
  <2>3. CASE RemovePlacement(r)
    BY <2>3 DEF RemovePlacement
  <2> QED
    BY <1>5, <2>1, <2>2, <2>3 DEF Takes, TakesAway
<1> QED
  BY <1>1, <1>3, <1>4, <1>5

(* When requests do not overlap, what is in use stays: a project loses its
   Dockerfile only to a request that clears it, an agent a skill only to one
   that removes it. *)
THEOREM UsedAlwaysKept == Spec => UsedIsKept
<1> DEFINE Kept ==
      workload.overlap \/
        /\ \A p \in DOMAIN projects \cap DOMAIN projects' :
             projects'[p].dockerfile = Nothing =>
               projects[p].dockerfile = Nothing \/ \E r \in Requests : At(r, "clear_image", "write_column")
        /\ \A row \in agentSkills \ agentSkills' :
             row[1] \notin DOMAIN agents' \/ \E r \in Requests : At(r, "remove_skill", "write")
<1>1. ASSUME CatalogInv, SequentialInv, Next PROVE Kept
  BY <1>1, InUseStays, SkillStays
<1>2. CatalogInv /\ SequentialInv /\ [Next]_vars => [Kept]_vars
  BY <1>1
<1> QED
  BY <1>2, SequentialInvariant, PTL DEF Spec, UsedIsKept

(* When requests do not overlap, an agent that leaves a project leaves no task
   there that waits for it, unless it has been named as its own heir. *)
THEOREM AlwaysReassignedFirst == Spec => ReassignedFirst
<1> DEFINE Kept ==
      workload.overlap \/
        \A row \in placed \ placed' :
          row[1] \in DOMAIN projects' /\ row[2] \in DOMAIN agents' =>
            TasksOf(row[1], agents[row[2]]) = {} \/ \E r \in Requests : HandsToItself(r)
<1>1. ASSUME CatalogInv, SequentialInv, Next, ~workload.overlap, NEW row \in placed \ placed',
             row[1] \in DOMAIN projects', row[2] \in DOMAIN agents'
      PROVE  TasksOf(row[1], agents[row[2]]) = {} \/ \E r \in Requests : HandsToItself(r)
  <2>1. PICK r \in Requests :
          \/ Elsewhere(r) \/ Looks(r) \/ Checks(r) \/ Writes(r)
          \/ Decides(r) \/ Marks(r) \/ SetsColumn(r) \/ Takes(r) \/ Reassigns(r)
    BY <1>1, Steps
  <2>2. UNCHANGED workload
    BY <1>1, Steps
  <2>3. CASE Elsewhere(r) \/ Looks(r) \/ Checks(r)
    <3>1. UNCHANGED Tables
      BY <1>1, <2>3, UpdateFeatureStatusSees DEF Elsewhere, Looks, Checks, Sees, Quiet
    <3> QED
      BY <1>1, <3>1 DEF Tables, agentTables
  <2>4. CASE Writes(r) \/ Decides(r) \/ Marks(r) \/ SetsColumn(r) \/ Reassigns(r)
    <3>1. PlacedKept
      <4>1. CASE Writes(r)
        BY <4>1 DEF Writes, Harmless
      <4>2. CASE Decides(r)
        BY <1>1, <2>2, <4>2, WriteStatusKeeps DEF Decides
      <4>3. CASE Marks(r)
        BY <1>1, <2>2, <4>3, InsertDockerfileKeeps, WriteDockerfileKeeps, SetLatestKeeps,
           DropDockerfileKeeps DEF Marks, WritesImage
      <4>4. CASE SetsColumn(r)
        BY <1>1, <2>2, <4>4, WriteDockerfileColumnKeeps DEF SetsColumn
      <4>5. CASE Reassigns(r)
        BY <1>1, <2>2, <4>5, ReassignTasksKeeps DEF Reassigns, Harmless
      <4> QED
        BY <2>4, <4>1, <4>2, <4>3, <4>4, <4>5
    <3> QED
      BY <1>1, <3>1 DEF PlacedKept
  <2>5. CASE Takes(r)
    <3>1. CASE DropSkill(r) \/ RemoveFromAgent(r)
      BY <1>1, <3>1 DEF DropSkill, RemoveFromAgent
    <3>2. CASE RemovePlacement(r)
      <4> DEFINE q == req[r].data
      <4>1. row = <<q.project, q.agent>> /\ At(r, "remove_agent", "remove")
        BY <1>1, <3>2 DEF RemovePlacement
      <4>2. /\ q.agent \in DOMAIN agents /\ agents[q.agent] = q.slug
            /\ TasksOf(q.project, q.slug) = {} \/ q.heir = q.slug
        BY <1>1, <4>1 DEF SequentialInv, Current, At
      <4>3. CASE TasksOf(q.project, q.slug) = {}
        BY <4>1, <4>2, <4>3
      <4>4. CASE q.heir = q.slug
        <5>1. HandsToItself(r)
          BY <4>1, <4>4 DEF HandsToItself
        <5> QED
          BY <5>1
      <4> QED
        BY <4>2, <4>3, <4>4
    <3> QED
      BY <2>5, <3>1, <3>2 DEF Takes, TakesAway
  <2> QED
    BY <2>1, <2>3, <2>4, <2>5
<1>2. CatalogInv /\ SequentialInv /\ [Next]_vars => [Kept]_vars
  BY <1>1
<1> QED
  BY <1>2, SequentialInvariant, PTL DEF Spec, ReassignedFirst
=============================================================================
