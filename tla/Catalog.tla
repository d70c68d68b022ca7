------------------------------ MODULE Catalog ------------------------------
(***************************************************************************)
(* The catalog of the server as its clients see it: projects, features,    *)
(* Dockerfiles, notifications, agents, skills, tasks and their comments,   *)
(* with what the foreign keys delete across them and with requests that    *)
(* fail half-way because a statement fails or the client has gone.         *)
(***************************************************************************)
EXTENDS Agents

CONSTANT CommentIDs
VARIABLE comments    \* id -> the task

catalogTables == <<projectTables, featureTables, imageTables, noticeTables>>
vars == <<catalogTables, agentTables, comments, req, workload>>

Init ==
  /\ HandlersInit
  /\ ProjectsInit
  /\ AgentsInit
  /\ comments = [c \in {} |-> {}]

Users == DOMAIN TeamsOf
Teams == UNION {TeamsOf[u] : u \in Users}

---------------------------------------------------------------------------
(* Comments: created by whoever has access to the project, changed and
   deleted if they belong to the task of the URL. *)

CreateCommentRequest(r, t, u) ==
  /\ Free(r, "comment") /\ t \in DOMAIN tasks
  /\ Begin(r, "comment", "check_access", [project |-> tasks[t].project, user |-> u, task |-> t])
  /\ UNCHANGED <<catalogTables, comments>>

CreateComment(r) ==
  /\ At(r, "comment", "allowed")
  /\ IF req[r].data.task \in DOMAIN tasks THEN Goto(r, "insert") ELSE Finish(r)
  /\ UNCHANGED <<catalogTables, comments>>

InsertComment(r, c) ==
  LET t == req[r].data.task IN
  /\ At(r, "comment", "insert")
  /\ c \notin DOMAIN comments
  /\ comments' = IF t \in DOMAIN tasks THEN Put(comments, c, t) ELSE comments
  /\ Finish(r)
  /\ UNCHANGED catalogTables

EditCommentRequest(r, op, c) ==
  /\ Free(r, op) /\ c \in DOMAIN comments
  /\ Begin(r, op, "load", [comment |-> c])
  /\ UNCHANGED <<catalogTables, comments>>

UpdateCommentRequest(r, c) == EditCommentRequest(r, "update_comment", c)
DeleteCommentRequest(r, c) == EditCommentRequest(r, "delete_comment", c)

FindComment(r, op) ==
  /\ At(r, op, "load")
  /\ IF req[r].data.comment \in DOMAIN comments THEN Goto(r, "write") ELSE Finish(r)
  /\ UNCHANGED <<catalogTables, comments>>

UpdateComment(r) == FindComment(r, "update_comment")
DeleteComment(r) == FindComment(r, "delete_comment")

WriteComment(r) ==
  /\ At(r, "update_comment", "write")
  /\ Finish(r)
  /\ UNCHANGED <<catalogTables, comments>>

DropComment(r) ==
  /\ At(r, "delete_comment", "write")
  /\ comments' = Without(comments, {req[r].data.comment})
  /\ Finish(r)
  /\ UNCHANGED catalogTables

---------------------------------------------------------------------------
(* What is deleted across modules. *)

CommentsOf(gone) == {c \in DOMAIN comments : comments[c] \in gone}

(* The placements of the projects and the comments of their tasks. *)
RemoveProject(r) ==
  /\ DropProject(r)
  /\ placed' = {row \in placed : row[1] \notin Doomed(r)}
  /\ comments' = Without(comments, CommentsOf(DOMAIN tasks \ DOMAIN tasks'))
  /\ UNCHANGED <<agents, skills, specials, agentSkills, specialSkills>>

(* A task of the board is deleted, and its comments with it. *)
DeleteTask(r, t) ==
  /\ Free(r, "delete_task") /\ t \in DOMAIN tasks
  /\ tasks' = Without(tasks, {t})
  /\ comments' = Without(comments, CommentsOf({t}))
  /\ UNCHANGED <<req, projectTables, features, imageTables, noticeTables, agentTables>>

(* A statement fails, or the context of the request is cancelled. *)
GiveUp(r) ==
  /\ Offered("fail") /\ Busy(r)
  /\ Finish(r)
  /\ UNCHANGED <<catalogTables, agentTables, comments>>

---------------------------------------------------------------------------
ProjectsNext ==
  /\ \E r \in Requests :
       \/ \E n \in NotificationIDs :
            InsertNotification(r, n) \/ MarkNotificationRead(r, n) \/ DeleteNotification(r, n)
       \/ CreateGlobalNotificationRequest(r)
       \/ MarkAllNotificationsRead(r)
       \/ \E p \in ProjectIDs \cup {Nothing} : CreateProjectRequest(r, p)
       \/ \E p \in ProjectIDs :
            \/ CreateNotificationRequest(r, p) \/ MarkAllProjectNotificationsRead(r, p)
            \/ \E u \in Users :
                 \/ \E role \in {"admin", "member"} :
                      GrantUserAccess(r, p, u, role) \/ UpdateUserAccessRole(r, p, u, role)
                 \/ RevokeUserAccess(r, p, u)
                 \/ CreateFeatureRequest(r, p, u)
            \/ \E t \in Teams : GrantTeamAccess(r, p, t) \/ RevokeTeamAccess(r, p, t)
            \/ InsertProject(r, p)
            \/ UpdateProjectRequest(r, p)
            \/ DeleteProjectRequest(r, p)
            \/ GetProjectInfoRequest(r, p)
            \/ \E d \in DockerfileIDs : SetProjectDockerfileRequest(r, p, d)
            \/ ClearProjectDockerfileRequest(r, p)
       \/ CheckProjectAccess(r)
       \/ CheckTeamAccess(r)
       \/ WriteProject(r)
       \/ CollectTree(r)
       \/ ListSubProjects(r)
       \/ BuildBreadcrumb(r)
       \/ AnswerInfo(r)
       \/ CreateFeature(r)
       \/ \E f \in FeatureIDs :
            \/ InsertFeature(r, f)
            \/ UpdateFeatureRequest(r, f)
            \/ UpdateFeatureChangelogsRequest(r, f)
            \/ \E status \in FeatureStatuses : UpdateFeatureStatusRequest(r, f, status)
            \/ DeleteFeatureRequest(r, f)
       \/ UpdateFeature(r)
       \/ UpdateFeatureChangelogs(r)
       \/ UpdateFeatureStatus(r)
       \/ WriteFeature(r)
       \/ WriteChangelogs(r)
       \/ WriteStatus(r)
       \/ DeleteFeature(r)
       \/ DropFeature(r)
       \/ \E f \in FeatureIDs \cup {Nothing}, role \in AgentSlugs \cup {Nobody} :
            \/ \E p \in ProjectIDs : CreateTaskRequest(r, p, f, role)
            \/ \E t \in TaskIDs : UpdateTaskRequest(r, t, f, role)
       \/ \E p, below \in ProjectIDs : CreateTaskRequest(r, p, below, Nobody)
       \/ CreateTask(r)
       \/ \E t \in TaskIDs : InsertTask(r, t)
       \/ WriteTask(r)
       \/ \E image \in Images, latest \in BOOLEAN : CreateDockerfileRequest(r, image, latest)
       \/ \E d \in DockerfileIDs :
            \/ InsertDockerfile(r, d)
            \/ \E latest \in {"yes", "no", "unset"} : UpdateDockerfileRequest(r, d, latest)
            \/ DeleteDockerfileRequest(r, d)
       \/ WriteDockerfile(r)
       \/ SetLatest(r)
       \/ DeleteDockerfile(r)
       \/ DropDockerfile(r)
       \/ SetProjectDockerfile(r)
       \/ WriteDockerfileColumn(r)
  /\ UNCHANGED <<agentTables, comments>>

AgentsNext ==
  /\ \E r \in Requests :
       \/ \E slug \in AgentSlugs :
            \/ CreateAgentRequest(r, slug)
            \/ \E a \in AgentIDs : CloneAgentRequest(r, a, slug)
            \/ \E a \in AgentIDs, wanted \in SUBSET SkillSlugs : CreateSpecialRequest(r, a, slug, wanted)
            \/ \E p \in ProjectIDs : AssignAgentRequest(r, p, slug)
            \/ \E p \in ProjectIDs, heir \in AgentSlugs \cup {Nobody} : BulkReassignRequest(r, p, slug, heir)
       \/ FindSource(r)
       \/ \E a \in AgentIDs :
            InsertAgent(r, a) \/ UpdateAgentRequest(r, a) \/ DeleteAgentRequest(r, a)
       \/ UpdateAgent(r)
       \/ WriteAgent(r)
       \/ DeleteAgent(r)
       \/ DropAgent(r)
       \/ \E slug \in SkillSlugs :
            \/ CreateSkillRequest(r, slug)
            \/ \E a \in AgentIDs : AddSkillRequest(r, a, slug) \/ RemoveSkillRequest(r, a, slug)
       \/ \E s \in SkillIDs :
            InsertSkill(r, s) \/ UpdateSkillRequest(r, s) \/ DeleteSkillRequest(r, s)
       \/ UpdateSkill(r)
       \/ WriteSkill(r)
       \/ FindSkill(r)
       \/ DeleteSkill(r)
       \/ DropSkill(r)
       \/ AddSkillToAgent(r)
       \/ RemoveSkillFromAgent(r)
       \/ AssignToAgent(r)
       \/ RemoveFromAgent(r)
       \/ \E x \in SpecialIDs :
            \/ InsertSpecial(r, x)
            \/ \E wanted \in (SUBSET SkillSlugs) \cup {{Nothing}} : UpdateSpecialRequest(r, x, wanted)
            \/ DeleteSpecialRequest(r, x)
       \/ UpdateSpecial(r)
       \/ WriteSpecial(r)
       \/ ResolveSkills(r)
       \/ SetSkills(r)
       \/ InsertSpecialSkill(r)
       \/ DeleteSpecial(r)
       \/ DropSpecial(r)
       \/ AssignAgentToProject(r)
       \/ PlaceAgent(r)
       \/ \E p \in ProjectIDs, a \in AgentIDs, heir \in AgentSlugs \cup {Nobody, Nothing} :
            RemoveAgentRequest(r, p, a, heir)
       \/ RemoveAgentFromProject(r)
       \/ BulkReassignTasks(r)
       \/ RemovePlacement(r)
  /\ UNCHANGED <<catalogTables, comments>>

CommentsNext ==
  /\ \E r \in Requests :
       \/ \E t \in TaskIDs, u \in Users : CreateCommentRequest(r, t, u)
       \/ CreateComment(r)
       \/ \E c \in CommentIDs :
            InsertComment(r, c) \/ UpdateCommentRequest(r, c) \/ DeleteCommentRequest(r, c)
       \/ UpdateComment(r)
       \/ WriteComment(r)
       \/ DeleteComment(r)
       \/ DropComment(r)
  /\ UNCHANGED agentTables

Next ==
  /\ \/ ProjectsNext
     \/ AgentsNext
     \/ CommentsNext
     \/ \E r \in Requests :
          \/ ReassignTasks(r)
             /\ UNCHANGED <<projectTables, features, imageTables, noticeTables, comments>>
          \/ RemoveProject(r)
          \/ \E t \in TaskIDs : DeleteTask(r, t)
          \/ GiveUp(r)
  /\ UNCHANGED workload

Spec == Init /\ [][Next]_vars

---------------------------------------------------------------------------
(* Properties. *)

(* The rows are well-formed. *)
TypeOK ==
  /\ DOMAIN projects \subseteq ProjectIDs /\ DOMAIN lineage \subseteq ProjectIDs
  /\ DOMAIN features \subseteq FeatureIDs
  /\ \A f \in DOMAIN features : features[f].status \in FeatureStatuses
  /\ \A d \in DOMAIN dockerfiles : dockerfiles[d] \in [image : Images, latest : BOOLEAN]
  /\ \A t \in DOMAIN tasks : tasks[t].role \in AgentSlugs \cup {Nobody}
  /\ DOMAIN userAccess \subseteq ProjectIDs \X Users
  /\ teamAccess \subseteq ProjectIDs \X Teams
  /\ \A a \in DOMAIN agents : agents[a] \in AgentSlugs
  /\ \A s \in DOMAIN skills : skills[s] \in SkillSlugs

(* What refers to a project, a Dockerfile, a feature or a task ... *)
ProjectReferences ==
  /\ \A p \in DOMAIN projects :
       /\ projects[p].parent \in DOMAIN projects \cup {Nothing}
       /\ projects[p].dockerfile \in DOMAIN dockerfiles \cup {Nothing}
  /\ \A a \in DOMAIN userAccess \cup teamAccess : a[1] \in DOMAIN projects
  /\ \A f \in DOMAIN features : features[f].project \in DOMAIN projects
  /\ \A n \in DOMAIN notifications : notifications[n].project \in DOMAIN projects \cup {Nothing}
  /\ \A t \in DOMAIN tasks :
       tasks[t].project \in DOMAIN projects /\ tasks[t].feature \in DOMAIN features \cup {Nothing}
  /\ \A c \in DOMAIN comments : comments[c] \in DOMAIN tasks

(* ... and what refers to an agent or a skill. *)
AgentReferences ==
  /\ \A x \in DOMAIN specials : specials[x].parent \in DOMAIN agents
  /\ \A row \in agentSkills : row[1] \in DOMAIN agents /\ row[2] \in DOMAIN skills
  /\ \A row \in specialSkills : row[1] \in DOMAIN specials /\ row[2] \in DOMAIN skills
  /\ \A row \in placed : row[1] \in DOMAIN projects /\ row[2] \in DOMAIN agents

(* However creations and deletions interleave, whatever a row refers to is
   there: what hangs on a project, an agent, a skill, a feature, a Dockerfile
   or a task goes with it or forgets it. *)
ReferencesHold == ProjectReferences /\ AgentReferences

Undisturbed == ~workload.overlap /\ ~Offered("fail")

(* When requests neither overlap nor fail, one version of a Dockerfile at
   most is the latest as soon as the request that says so has ended.  An
   update that overlaps writes an old mark back, and nothing repairs it. *)
OneLatest ==
  Undisturbed /\ (\A r \in Requests : ~Busy(r)) =>
    \A d, e \in DOMAIN dockerfiles :
      dockerfiles[d].image[1] = dockerfiles[e].image[1]
        /\ dockerfiles[d].latest /\ dockerfiles[e].latest => d = e

(* f is done, and no request has checked its status before it was. *)
FinallyDone(f) ==
  /\ f \in DOMAIN features /\ features[f].status = "done"
  /\ \A r \in Requests : At(r, "status", "write_status") => req[r].data.feature # f

(* A feature that is done stays done, whatever is asked for at once, except
   that a request which had checked the status before may still write it. *)
DoneIsFinal ==
  [][\A f \in FeatureIDs : FinallyDone(f) => FinallyDone(f)' \/ f \notin DOMAIN features']_vars

(* When requests do not overlap, a project is without its Dockerfile only
   after somebody cleared it, and an agent without a skill after somebody
   removed it: what is in use cannot be deleted. *)
UsedIsKept ==
  [][workload.overlap \/
     /\ \A p \in DOMAIN projects \cap DOMAIN projects' :
          projects'[p].dockerfile = Nothing =>
            projects[p].dockerfile = Nothing \/ \E r \in Requests : At(r, "clear_image", "write_column")
     /\ \A row \in agentSkills \ agentSkills' :
          row[1] \notin DOMAIN agents' \/ \E r \in Requests : At(r, "remove_skill", "write")]_vars

(* r hands the tasks of an agent that it removes to that agent itself. *)
HandsToItself(r) == At(r, "remove_agent", "remove") /\ req[r].data.heir = req[r].data.slug

(* When requests do not overlap, an agent that leaves a project leaves no
   task there that waits for it, unless the client has named the agent as the
   one that gets its tasks, which nobody refuses. *)
ReassignedFirst ==
  [][workload.overlap \/
     \A row \in placed \ placed' :
       row[1] \in DOMAIN projects' /\ row[2] \in DOMAIN agents' =>
         TasksOf(row[1], agents[row[2]]) = {} \/ \E r \in Requests : HandsToItself(r)]_vars

(* The breadcrumb that is answered leads from the root of the project down
   to it without a gap, although it is read one project at a time while the
   projects above may be deleted. *)
BreadcrumbSound ==
  \A r \in Requests :
    At(r, "info", "answer") =>
      LET path == req[r].data.path IN path = lineage[path[Len(path)]]
=============================================================================
