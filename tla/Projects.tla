------------------------------ MODULE Projects ------------------------------
(***************************************************************************)
(* Projects and what hangs on them: the access of users and teams, the     *)
(* features, the Dockerfiles, the notifications.  The services of          *)
(* internal/server/app, the handlers that call them and the statements of  *)
(* their repositories.  A request starts with the first row it reads and   *)
(* is answered at once when there is none.                                 *)
(*                                                                         *)
(* Names, texts and changelogs are left out, and so are the events on the  *)
(* WebSocket, which nothing here depends on.                               *)
(***************************************************************************)
EXTENDS Handlers, Sequences

CONSTANTS
  ProjectIDs, FeatureIDs, DockerfileIDs, NotificationIDs,   \* the ids of rows
  TaskIDs,
  TeamsOf,         \* user -> the teams he is in
  Images,          \* <<slug, version>> of Dockerfiles
  Home,            \* a project that every user can use from the start
  Nothing          \* NULL in a column that refers to another row

(* NULL is the id of no row. *)
ASSUME ProjectsAssumption ==
  /\ Home \in ProjectIDs
  /\ Nothing \notin ProjectIDs \cup FeatureIDs \cup DockerfileIDs

VARIABLES
  projects,        \* id -> [parent, dockerfile]
  lineage,         \* history: id -> the projects from its root down to it
  userAccess,      \* project_user_access: <<project, user>> -> role
  teamAccess,      \* project_team_access: <<project, team>>
  features,        \* id -> [project, status]
  dockerfiles,     \* id -> [image, latest]
  notifications,   \* id -> [project, read]
  tasks            \* id -> [project, feature, role]: what the catalog sees of tasks

projectTables == <<projects, lineage>>
featureTables == <<features, tasks>>
imageTables == dockerfiles
noticeTables == <<userAccess, teamAccess, notifications>>

ProjectsInit ==
  /\ projects = [p \in {Home} |-> [parent |-> Nothing, dockerfile |-> Nothing]]
  /\ lineage = [p \in {Home} |-> <<Home>>]
  /\ userAccess = [a \in {Home} \X DOMAIN TeamsOf |-> "member"] /\ teamAccess = {}
  /\ features = [f \in {} |-> {}]
  /\ dockerfiles = [d \in {} |-> {}]
  /\ notifications = [n \in {} |-> {}]
  /\ tasks = [t \in {} |-> {}]

---------------------------------------------------------------------------
(* The notification that ends a change of access or of a feature's status:
   the project or the feature is read for its name, found or not, and the
   notification is inserted if the project is still there.  Bound: once every
   id is taken, a new notification takes the place of one. *)

NewNotification(p) == [project |-> p, read |-> FALSE]

InsertNotification(r, n) ==
  LET p == req[r].data.project IN
  /\ req[r].step = "notify"
  /\ n \in DOMAIN notifications => DOMAIN notifications = NotificationIDs
  /\ notifications' = IF p \in DOMAIN projects \cup {Nothing}
                      THEN Put(notifications, n, NewNotification(p)) ELSE notifications
  /\ Finish(r)
  /\ UNCHANGED <<projectTables, featureTables, imageTables, userAccess, teamAccess>>

CreateNotificationRequest(r, p) ==
  /\ Free(r, "notification") /\ p \in DOMAIN projects
  /\ Begin(r, "notification", "notify", [project |-> p])
  /\ UNCHANGED <<projectTables, featureTables, imageTables, noticeTables>>

CreateGlobalNotificationRequest(r) ==
  /\ Free(r, "notification")
  /\ Begin(r, "notification", "notify", [project |-> Nothing])
  /\ UNCHANGED <<projectTables, featureTables, imageTables, noticeTables>>

(* One statement each; nothing is read before. *)
NotificationStatement(r, op, after) ==
  /\ Free(r, op) /\ notifications' = after
  /\ UNCHANGED <<req, projectTables, featureTables, imageTables, userAccess, teamAccess>>

MarkRead(ns) ==
  [n \in DOMAIN notifications |-> [notifications[n] EXCEPT !.read = @ \/ n \in ns]]

MarkNotificationRead(r, n) ==
  n \in DOMAIN notifications /\ NotificationStatement(r, "read", MarkRead({n}))

MarkAllNotificationsRead(r) ==
  NotificationStatement(r, "read", MarkRead(DOMAIN notifications))

MarkAllProjectNotificationsRead(r, p) ==
  NotificationStatement(r, "read",
    MarkRead({n \in DOMAIN notifications : notifications[n].project = p}))

DeleteNotification(r, n) ==
  n \in DOMAIN notifications
    /\ NotificationStatement(r, "delete_notification", Without(notifications, {n}))

---------------------------------------------------------------------------
(* Access to a project, of users in a role and of teams.  Each change is one
   statement, which is followed by a notification. *)

NotifyAccessChange(r, op, p) ==
  /\ Free(r, op)
  /\ Begin(r, op, "notify", [project |-> p])
  /\ UNCHANGED <<projectTables, featureTables, imageTables, notifications>>

(* Granting access again changes the role. *)
GrantUser(p, u, role) ==
  userAccess' = IF p \in DOMAIN projects THEN Put(userAccess, <<p, u>>, role) ELSE userAccess

GrantUserAccess(r, p, u, role) ==
  /\ p \in DOMAIN projects
  /\ GrantUser(p, u, role) /\ UNCHANGED teamAccess
  /\ NotifyAccessChange(r, "grant", p)

(* Without a row there is an error, and no notification. *)
UpdateUserRole(p, u, role) ==
  /\ <<p, u>> \in DOMAIN userAccess
  /\ userAccess' = [userAccess EXCEPT ![<<p, u>>] = role]

UpdateUserAccessRole(r, p, u, role) ==
  /\ UpdateUserRole(p, u, role) /\ UNCHANGED teamAccess
  /\ NotifyAccessChange(r, "grant", p)

RevokeUser(p, u) ==
  /\ <<p, u>> \in DOMAIN userAccess
  /\ userAccess' = Without(userAccess, {<<p, u>>})

RevokeUserAccess(r, p, u) ==
  /\ RevokeUser(p, u) /\ UNCHANGED teamAccess
  /\ NotifyAccessChange(r, "revoke", p)

GrantTeam(p, t) ==
  teamAccess' = IF p \in DOMAIN projects THEN teamAccess \cup {<<p, t>>} ELSE teamAccess

GrantTeamAccess(r, p, t) ==
  /\ p \in DOMAIN projects
  /\ GrantTeam(p, t) /\ UNCHANGED userAccess
  /\ NotifyAccessChange(r, "grant", p)

(* A team that had no access is removed, and the project told, all the same. *)
RevokeTeam(p, t) == teamAccess' = teamAccess \ {<<p, t>>}

RevokeTeamAccess(r, p, t) ==
  /\ RevokeTeam(p, t) /\ UNCHANGED userAccess
  /\ NotifyAccessChange(r, "revoke", p)

(* checkProjectAccess asks for the user's own access and then, if he has
   none, for that of his teams: two statements. *)
HasAccessDirect(p, u) == <<p, u>> \in DOMAIN userAccess
HasAccessByTeam(p, u) == \E t \in TeamsOf[u] : <<p, t>> \in teamAccess

CheckProjectAccess(r) ==
  LET q == req[r].data IN
  /\ req[r].step = "check_access"
  /\ IF HasAccessDirect(q.project, q.user) THEN Goto(r, "allowed") ELSE Goto(r, "check_teams")
  /\ UNCHANGED <<projectTables, featureTables, imageTables, noticeTables>>

CheckTeamAccess(r) ==
  LET q == req[r].data IN
  /\ req[r].step = "check_teams"
  /\ IF HasAccessByTeam(q.project, q.user) THEN Goto(r, "allowed") ELSE Finish(r)
  /\ UNCHANGED <<projectTables, featureTables, imageTables, noticeTables>>

---------------------------------------------------------------------------
(* Projects. *)

CreateProject(r, parent) ==
  /\ parent \in DOMAIN projects \cup {Nothing}
  /\ Begin(r, "create_project", "insert_project", [parent |-> parent])

CreateProjectRequest(r, parent) ==
  /\ Free(r, "create_project") /\ CreateProject(r, parent)
  /\ UNCHANGED <<projectTables, featureTables, imageTables, noticeTables>>

(* The roles of a new project are copied with statements that run while the
   rows they are made from are still being read on the same connection: the
   first one fails, which is only logged. *)
InsertProject(r, p) ==
  LET parent == req[r].data.parent IN
  /\ At(r, "create_project", "insert_project")
  /\ p \notin DOMAIN lineage
  /\ IF parent \in DOMAIN projects \cup {Nothing}
     THEN /\ projects' = Put(projects, p, [parent |-> parent, dockerfile |-> Nothing])
          /\ lineage' = Put(lineage, p,
               Append(IF parent = Nothing THEN <<>> ELSE lineage[parent], p))
     ELSE UNCHANGED projectTables
  /\ Finish(r)
  /\ UNCHANGED <<featureTables, imageTables, noticeTables>>

UpdateProject(r, p) ==
  /\ p \in DOMAIN projects
  /\ Begin(r, "update_project", "write", [project |-> p, row |-> projects[p]])

UpdateProjectRequest(r, p) ==
  /\ Free(r, "update_project") /\ UpdateProject(r, p)
  /\ UNCHANGED <<projectTables, featureTables, imageTables, noticeTables>>

(* The whole row is written, the Dockerfile excepted. *)
WriteProject(r) ==
  LET q == req[r].data IN
  /\ At(r, "update_project", "write")
  /\ projects' = IF q.project \in DOMAIN projects
                 THEN [projects EXCEPT ![q.project].parent = q.row.parent] ELSE projects
  /\ Finish(r)
  /\ UNCHANGED <<lineage, featureTables, imageTables, noticeTables>>

DeleteProject(r, p) ==
  /\ p \in DOMAIN projects
  /\ Begin(r, "delete_project", "collect", [project |-> p])

DeleteProjectRequest(r, p) ==
  /\ Free(r, "delete_project") /\ DeleteProject(r, p)
  /\ UNCHANGED <<projectTables, featureTables, imageTables, noticeTables>>

(* The ids of the tree are collected for the answer; none is an error. *)
CollectTree(r) ==
  /\ At(r, "delete_project", "collect")
  /\ IF req[r].data.project \in DOMAIN projects THEN Goto(r, "delete") ELSE Finish(r)
  /\ UNCHANGED <<projectTables, featureTables, imageTables, noticeTables>>

(* With a project its children, by the column that refers to the parent. *)
WithChildren(ps) == \A q \in DOMAIN projects : projects[q].parent \in ps => q \in ps

(* A project and its descendants: what is in every such set around it. *)
Subtree(p) ==
  {q \in DOMAIN projects :
     /\ p \in DOMAIN projects
     /\ \A ps \in SUBSET DOMAIN projects : p \in ps /\ WithChildren(ps) => q \in ps}

(* ON DELETE SET NULL for the tasks of features. *)
ForgetFeatures(table, fs) ==
  [t \in DOMAIN table |-> [table[t] EXCEPT !.feature = IF @ \in fs THEN Nothing ELSE @]]

(* What the DELETE takes with it: the tree as it is now, not as collected.
   A task of another project may name one of its features. *)
Doomed(r) == Subtree(req[r].data.project)

DropProject(r) ==
  LET doomed == Doomed(r)
      gone == {f \in DOMAIN features : features[f].project \in doomed} IN
  /\ At(r, "delete_project", "delete")
  /\ projects' = Without(projects, doomed)
  /\ userAccess' = Without(userAccess, {a \in DOMAIN userAccess : a[1] \in doomed})
  /\ teamAccess' = {a \in teamAccess : a[1] \notin doomed}
  /\ features' = Without(features, gone)
  /\ notifications' =
       Without(notifications, {n \in DOMAIN notifications : notifications[n].project \in doomed})
  /\ tasks' =
       ForgetFeatures(Without(tasks, {t \in DOMAIN tasks : tasks[t].project \in doomed}), gone)
  /\ Finish(r)
  /\ UNCHANGED <<lineage, imageTables>>

(* The summary, the children and the breadcrumb of a project, in that order;
   the children are looked for only while the project exists. *)
GetProjectInfo(r, p) ==
  /\ p \in DOMAIN projects
  /\ Begin(r, "info", "children", [path |-> <<p>>, parent |-> projects[p].parent])

GetProjectInfoRequest(r, p) ==
  /\ Free(r, "info") /\ GetProjectInfo(r, p)
  /\ UNCHANGED <<projectTables, featureTables, imageTables, noticeTables>>

ListSubProjects(r) ==
  /\ At(r, "info", "children")
  /\ IF Head(req[r].data.path) \in DOMAIN projects THEN Goto(r, "climb") ELSE Finish(r)
  /\ UNCHANGED <<projectTables, featureTables, imageTables, noticeTables>>

(* Mutant: a parent that is gone ends the climb. *)
BuildBreadcrumbTruncates(r) ==
  LET q == req[r].data IN
  /\ At(r, "info", "climb")
  /\ IF q.parent \in DOMAIN projects
     THEN Continue(r, "climb", [path |-> <<q.parent>> \o q.path, parent |-> projects[q.parent].parent])
     ELSE Goto(r, "answer")
  /\ UNCHANGED <<projectTables, featureTables, imageTables, noticeTables>>

(* One parent is read at a time. *)
BuildBreadcrumb(r) ==
  LET q == req[r].data IN
  /\ At(r, "info", "climb")
  /\ \/ q.parent = Nothing /\ Goto(r, "answer")
     \/ /\ q.parent \in DOMAIN projects
        /\ Continue(r, "climb", [path |-> <<q.parent>> \o q.path, parent |-> projects[q.parent].parent])
     \/ q.parent \notin DOMAIN projects \cup {Nothing} /\ Finish(r)
  /\ UNCHANGED <<projectTables, featureTables, imageTables, noticeTables>>

AnswerInfo(r) ==
  /\ At(r, "info", "answer")
  /\ Finish(r)
  /\ UNCHANGED <<projectTables, featureTables, imageTables, noticeTables>>

---------------------------------------------------------------------------
(* Features. *)

CreateFeatureRequest(r, p, u) ==
  /\ Free(r, "create_feature") /\ p \in DOMAIN projects
  /\ Begin(r, "create_feature", "check_access", [project |-> p, user |-> u])
  /\ UNCHANGED <<projectTables, featureTables, imageTables, noticeTables>>

CreateFeature(r) ==
  /\ At(r, "create_feature", "allowed")
  /\ IF req[r].data.project \in DOMAIN projects THEN Goto(r, "insert") ELSE Finish(r)
  /\ UNCHANGED <<projectTables, featureTables, imageTables, noticeTables>>

InsertFeature(r, f) ==
  LET p == req[r].data.project IN
  /\ At(r, "create_feature", "insert")
  /\ f \notin DOMAIN features
  /\ features' = IF p \in DOMAIN projects
                 THEN Put(features, f, [project |-> p, status |-> "draft"]) ELSE features
  /\ Finish(r)
  /\ UNCHANGED <<projectTables, tasks, imageTables, noticeTables>>

(* verifyFeatureOwnership has found the feature in the project of the URL. *)
FeatureRequest(r, op, f, data) ==
  /\ Free(r, op) /\ f \in DOMAIN features
  /\ Begin(r, op, "load", data)
  /\ UNCHANGED <<projectTables, featureTables, imageTables, noticeTables>>

(* The texts and the changelogs: the row only has to be there. *)
UpdateFeatureRequest(r, f) == FeatureRequest(r, "update_feature", f, [feature |-> f])

UpdateFeatureChangelogsRequest(r, f) == FeatureRequest(r, "changelogs", f, [feature |-> f])

UpdateFeatureStatusRequest(r, f, status) ==
  FeatureRequest(r, "status", f, [feature |-> f, project |-> features[f].project, status |-> status])

DeleteFeatureRequest(r, f) == FeatureRequest(r, "delete_feature", f, [feature |-> f])

FindFeature(r, ops, next) ==
  /\ req[r].op \in ops /\ req[r].step = "load"
  /\ IF req[r].data.feature \in DOMAIN features THEN Goto(r, next) ELSE Finish(r)
  /\ UNCHANGED <<projectTables, featureTables, imageTables, noticeTables>>

UpdateFeature(r) == FindFeature(r, {"update_feature"}, "update_texts")

UpdateFeatureChangelogs(r) == FindFeature(r, {"changelogs"}, "update_texts")

DeleteFeature(r) == FindFeature(r, {"delete_feature"}, "delete")

(* Mutant: a finished feature can be taken up again. *)
ValidFeatureTransitionsReopen ==
  [draft |-> {"ready", "blocked"}, ready |-> {"draft", "in_progress", "blocked"},
   in_progress |-> {"ready", "done", "blocked"}, done |-> {"in_progress"},
   blocked |-> {"draft", "ready", "in_progress"}]

ValidFeatureTransitions ==
  [draft |-> {"ready", "blocked"}, ready |-> {"draft", "in_progress", "blocked"},
   in_progress |-> {"ready", "done", "blocked"}, done |-> {},
   blocked |-> {"draft", "ready", "in_progress"}]

FeatureStatuses == DOMAIN ValidFeatureTransitions

UpdateFeatureStatus(r) ==
  LET q == req[r].data IN
  /\ At(r, "status", "load")
  /\ IF q.feature \in DOMAIN features /\ q.status \in ValidFeatureTransitions[features[q.feature].status]
     THEN Goto(r, "write_status") ELSE Finish(r)
  /\ UNCHANGED <<projectTables, featureTables, imageTables, noticeTables>>

(* Only these are worth a notification. *)
NotifyFeatureStatusChange(r, status) ==
  IF status \in {"done", "blocked", "in_progress"} THEN Goto(r, "notify") ELSE Finish(r)

(* The status is written whatever it is by now. *)
WriteStatus(r) ==
  LET q == req[r].data IN
  /\ At(r, "status", "write_status")
  /\ IF q.feature \in DOMAIN features
     THEN features' = [features EXCEPT ![q.feature].status = q.status] /\ NotifyFeatureStatusChange(r, q.status)
     ELSE UNCHANGED features /\ Finish(r)
  /\ UNCHANGED <<projectTables, tasks, imageTables, noticeTables>>

(* The UPDATE of texts that are left out here. *)
WriteTextsOf(r, op) ==
  /\ At(r, op, "update_texts")
  /\ Finish(r)
  /\ UNCHANGED <<projectTables, featureTables, imageTables, noticeTables>>

WriteFeature(r) == WriteTextsOf(r, "update_feature")
WriteChangelogs(r) == WriteTextsOf(r, "changelogs")

DropFeature(r) ==
  LET f == req[r].data.feature IN
  /\ At(r, "delete_feature", "delete")
  /\ features' = Without(features, {f})
  /\ tasks' = ForgetFeatures(tasks, {f})
  /\ Finish(r)
  /\ UNCHANGED <<projectTables, imageTables, noticeTables>>

(* Tasks, as far as they name features and agents.  A task is created for a
   feature only if that is a project below its own, from the time when
   features were projects, while the foreign key asks for a feature. *)
CreateTaskRequest(r, p, f, role) ==
  /\ Free(r, "create_task") /\ p \in DOMAIN projects
  /\ Begin(r, "create_task", "check_feature", [project |-> p, feature |-> f, role |-> role])
  /\ UNCHANGED <<projectTables, featureTables, imageTables, noticeTables>>

CreateTask(r) ==
  LET q == req[r].data IN
  /\ At(r, "create_task", "check_feature")
  /\ IF \/ q.feature = Nothing
        \/ q.feature \in DOMAIN projects /\ projects[q.feature].parent = q.project
     THEN Goto(r, "insert") ELSE Finish(r)
  /\ UNCHANGED <<projectTables, featureTables, imageTables, noticeTables>>

InsertTask(r, t) ==
  LET q == req[r].data IN
  /\ At(r, "create_task", "insert")
  /\ t \notin DOMAIN tasks
  /\ tasks' = IF q.project \in DOMAIN projects /\ q.feature \in DOMAIN features \cup {Nothing}
              THEN Put(tasks, t, q) ELSE tasks
  /\ Finish(r)
  /\ UNCHANGED <<projectTables, features, imageTables, noticeTables>>

(* An update reads the row and writes it back as a whole, if the task is still
   in the project: the feature and the role are those of the request or those
   that were read. *)
UpdateTaskRequest(r, t, f, role) ==
  /\ Free(r, "update_task") /\ t \in DOMAIN tasks
  /\ Begin(r, "update_task", "write_task",
       [task |-> t, row |-> [tasks[t] EXCEPT !.feature = f, !.role = role]])
  /\ UNCHANGED <<projectTables, featureTables, imageTables, noticeTables>>

WriteTask(r) ==
  LET q == req[r].data IN
  /\ At(r, "update_task", "write_task")
  /\ tasks' = IF /\ q.task \in DOMAIN tasks /\ tasks[q.task].project = q.row.project
                 /\ q.row.feature \in DOMAIN features \cup {Nothing}
              THEN [tasks EXCEPT ![q.task] = q.row] ELSE tasks
  /\ Finish(r)
  /\ UNCHANGED <<projectTables, features, imageTables, noticeTables>>

---------------------------------------------------------------------------
(* Dockerfiles: at most one version of a slug is the latest. *)

FindBySlugAndVersion(image) == {d \in DOMAIN dockerfiles : dockerfiles[d].image = image}

CreateDockerfile(r, image, latest) ==
  /\ FindBySlugAndVersion(image) = {}
  /\ Begin(r, "create_image", "insert", [image |-> image, latest |-> latest])

CreateDockerfileRequest(r, image, latest) ==
  /\ Free(r, "create_image") /\ CreateDockerfile(r, image, latest)
  /\ UNCHANGED <<projectTables, featureTables, imageTables, noticeTables>>

(* The row is inserted as the latest before the others are told. *)
InsertDockerfile(r, d) ==
  LET q == req[r].data IN
  /\ At(r, "create_image", "insert")
  /\ d \notin DOMAIN dockerfiles
  /\ IF FindBySlugAndVersion(q.image) = {}
     THEN /\ dockerfiles' = Put(dockerfiles, d, [image |-> q.image, latest |-> q.latest])
          /\ IF q.latest THEN Continue(r, "set_latest", [dockerfile |-> d]) ELSE Finish(r)
     ELSE UNCHANGED dockerfiles /\ Finish(r)
  /\ UNCHANGED <<projectTables, featureTables, noticeTables>>

(* A request may leave alone whether it is the latest: unset. *)
UpdateDockerfile(r, d, latest) ==
  /\ d \in DOMAIN dockerfiles
  /\ Begin(r, "update_image", "write",
       [dockerfile |-> d, set |-> latest = "yes",
        row |-> [dockerfiles[d] EXCEPT !.latest = IF latest = "unset" THEN @ ELSE latest = "yes"]])

UpdateDockerfileRequest(r, d, latest) ==
  /\ Free(r, "update_image") /\ UpdateDockerfile(r, d, latest)
  /\ UNCHANGED <<projectTables, featureTables, imageTables, noticeTables>>

WriteDockerfile(r) ==
  LET q == req[r].data IN
  /\ At(r, "update_image", "write")
  /\ dockerfiles' = Overwrite(dockerfiles, q.dockerfile, q.row)
  /\ IF q.set /\ q.dockerfile \in DOMAIN dockerfiles
     THEN Continue(r, "set_latest", [dockerfile |-> q.dockerfile]) ELSE Finish(r)
  /\ UNCHANGED <<projectTables, featureTables, noticeTables>>

(* Mutant: the versions that were the latest keep the mark. *)
SetLatestAdds(r) ==
  LET d == req[r].data.dockerfile IN
  /\ req[r].step = "set_latest"
  /\ dockerfiles' = IF d \in DOMAIN dockerfiles
                    THEN [dockerfiles EXCEPT ![d].latest = TRUE] ELSE dockerfiles
  /\ Finish(r)
  /\ UNCHANGED <<projectTables, featureTables, noticeTables>>

(* One transaction; nothing happens when the Dockerfile is gone. *)
SetLatest(r) ==
  LET d == req[r].data.dockerfile IN
  /\ req[r].step = "set_latest"
  /\ dockerfiles' =
       IF d \in DOMAIN dockerfiles
       THEN [e \in DOMAIN dockerfiles |->
               IF dockerfiles[e].image[1] = dockerfiles[d].image[1]
               THEN [dockerfiles[e] EXCEPT !.latest = (e = d)] ELSE dockerfiles[e]]
       ELSE dockerfiles
  /\ Finish(r)
  /\ UNCHANGED <<projectTables, featureTables, noticeTables>>

DeleteDockerfileRequest(r, d) ==
  /\ Free(r, "delete_image") /\ d \in DOMAIN dockerfiles
  /\ Begin(r, "delete_image", "in_use", [dockerfile |-> d])
  /\ UNCHANGED <<projectTables, featureTables, imageTables, noticeTables>>

ImageInUse(d) == \E p \in DOMAIN projects : projects[p].dockerfile = d

(* Mutant: a Dockerfile is deleted whether it is used or not. *)
DeleteDockerfileUsed(r) ==
  /\ At(r, "delete_image", "in_use")
  /\ Goto(r, "delete")
  /\ UNCHANGED <<projectTables, featureTables, imageTables, noticeTables>>

DeleteDockerfile(r) ==
  /\ At(r, "delete_image", "in_use")
  /\ IF ImageInUse(req[r].data.dockerfile) THEN Finish(r) ELSE Goto(r, "delete")
  /\ UNCHANGED <<projectTables, featureTables, imageTables, noticeTables>>

(* ON DELETE SET NULL for the projects that use it by now. *)
DropDockerfile(r) ==
  LET d == req[r].data.dockerfile IN
  /\ At(r, "delete_image", "delete")
  /\ dockerfiles' = Without(dockerfiles, {d})
  /\ projects' = [p \in DOMAIN projects |->
                    [projects[p] EXCEPT !.dockerfile = IF @ = d THEN Nothing ELSE @]]
  /\ Finish(r)
  /\ UNCHANGED <<lineage, featureTables, noticeTables>>

(* The project is found first, then the Dockerfile, then the column is set. *)
SetProjectDockerfileRequest(r, p, d) ==
  /\ Free(r, "set_image") /\ p \in DOMAIN projects
  /\ Begin(r, "set_image", "find_image", [project |-> p, dockerfile |-> d])
  /\ UNCHANGED <<projectTables, featureTables, imageTables, noticeTables>>

SetProjectDockerfile(r) ==
  /\ At(r, "set_image", "find_image")
  /\ IF req[r].data.dockerfile \in DOMAIN dockerfiles THEN Goto(r, "write_column") ELSE Finish(r)
  /\ UNCHANGED <<projectTables, featureTables, imageTables, noticeTables>>

ClearProjectDockerfile(r, p) ==
  /\ p \in DOMAIN projects
  /\ Begin(r, "clear_image", "write_column", [project |-> p, dockerfile |-> Nothing])

ClearProjectDockerfileRequest(r, p) ==
  /\ Free(r, "clear_image") /\ ClearProjectDockerfile(r, p)
  /\ UNCHANGED <<projectTables, featureTables, imageTables, noticeTables>>

(* The UPDATE, unless the foreign key or the WHERE clause finds no row. *)
WriteDockerfileColumn(r) ==
  LET q == req[r].data IN
  /\ req[r].step = "write_column"
  /\ projects' = IF q.project \in DOMAIN projects /\ q.dockerfile \in DOMAIN dockerfiles \cup {Nothing}
                 THEN [projects EXCEPT ![q.project].dockerfile = q.dockerfile] ELSE projects
  /\ Finish(r)
  /\ UNCHANGED <<lineage, featureTables, imageTables, noticeTables>>
=============================================================================
