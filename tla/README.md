# A TLA+ model of agach

agach runs coding agents on a task board. A **server** (Go, PostgreSQL) keeps
users, projects, features, tasks and agents behind an HTTP API and a WebSocket
hub; a **daemon** on each machine that runs agents connects to that hub, builds
Docker images and holds planning chats with Claude; a **sidecar** beside each
agent offers the board to it as MCP tools; a **dashboard** in the browser shows
it all.

This directory models the parts of it in which the order of steps decides
whether the system is right. The modules are checked by TLC on small instances;
what matters most about the task board and its clients, the hub, the planning
chats, identity, the catalog and the daemon is proved by TLAPS for every number
of tasks, connections, sessions, rows and concurrent requests: every invariant
and every action property of the passing runs, and that the board, the hub and the
planning chats each implement an abstract specification.

- [1. The system](#1-the-system)
- [2. The modules](#2-the-modules)
- [3. The runs](#3-the-runs)
- [4. Where code and documentation disagree](#4-where-code-and-documentation-disagree)
- [5. The proofs](#5-the-proofs)
- [6. What is not modelled](#6-what-is-not-modelled)
- [7. The plan](#7-the-plan)

Paths are relative to `src/`; line numbers are of the commit that is there.

## 1. The system

| component | state | operations | talks to |
|---|---|---|---|
| Task board (`internal/server/app/task_service.go`, `outbound/pg/pg_tasks.go`) | table `tasks`: column, block and won't-do flags, timestamps, token counters, position | create (one or many), update, move, complete, block, unblock, won't-do with approval and rejection, seen, session, delete, move to another project; the next tasks | database, one statement at a time; hub (events) |
| Dependencies (`dependency_service.go`, `pg_dependencies.go`) | table `task_dependencies` | add, remove, reads for context | task board (a start asks whether they are resolved) |
| WebSocket hub (`internal/pkg/websocket`) | map of clients, count per address, channels register / unregister / broadcast / relay, a send channel per client | connect, broadcast, relay, send to a daemon, evict, disconnect, stop | all server handlers publish through it; daemons and browsers hang on it |
| Planning chats, server (`inbound/commands/chats.go`, `pg_chats.go`) | table `chat_sessions`, transcripts | start, end, usage, upload | hub (`chat.start` to the daemon), dashboard |
| Planning chats, daemon (`internal/daemon/app/chat.go`, `proxy.go`, `git.go`) | map of sessions; per session a process, a pipe, a transcript, a proxy socket, a worktree | start, user message, ping, end, TTL check | server (HTTP uploads), Claude, git |
| Daemon connection (`internal/daemon/client`, `app/app.go`, `app/tokens.go`) | the token file, tokens in memory, the connection | enrol, refresh, dial, reconnect, stop | hub, identity |
| Daemon resources (`internal/daemon/app/resources.go`) | cache on disk and a map of what is in it | one `Sync` per manifest | hub, HTTP |
| Docker builds (`internal/daemon/app/docker.go`, `outbound/sqlite`) | table of builds, images | rebuild, prune | Docker, dashboard |
| Onboarding and nodes (`internal/identity/app/onboarding.go`, `nodes.go`) | codes, nodes, access to them | create code, complete, rename, revoke, grant | daemon's first start and every connection |
| Authentication, users, SSO, teams (`internal/identity/app/auth.go`, `sso.go`, `teams.go`) | users, teams and members; used refresh tokens in memory | register, invite, log in, refresh, profile, role, block | everything |
| Projects and access, features, Dockerfiles, notifications (`internal/server/app`) | their tables, with foreign keys between them | create, update, delete, the status of a feature, the latest Dockerfile, grants | task board, hub |
| Agents, skills, specialized agents (`agent_service.go`, `skill_service.go`, `specialized_agents.go`) | roles, skills, which agent has which skill and works in which project | create, clone, update, delete, assign, remove with reassignment | task board (a task names its agent by slug) |
| Comments (`comment_service.go`) | table `comments` | create, update, delete | task board |
| Sidecar (`internal/sidecar`) | none of its own | MCP tools, each one or more HTTP requests | server, through a proxy of the daemon |
| Dashboard (`internal/server/ux`) | what it shows | requests, reloads on WebSocket events | server |

**What is hard.** The server has no transaction around an operation and no
version on a row. Every HTTP request is a goroutine that reads a row, checks
it, and writes *all* of its columns back later; so requests on one row
overwrite each other, and every check is about a state that may be gone. The
hub is one goroutine with two unbuffered channels, between handlers, readers
and writers that must never wait for each other in a circle. The daemon runs a
process per chat and ends it from two places, works on builds and manifests as
many at a time as it is asked to, refreshes one token from several goroutines
into one file, and may die at any moment with nothing to clean up after it. A
dashboard reloads what it shows in several statements, as often as it is told,
and takes the answers in the order they come.

**What makes each part correct.**

- *Task board*: the columns of a row fit each other whichever requests met; a
  block is lifted only by a decision; nothing is started before what it depends
  on; usage is counted once and not lost; a deleted task stays deleted and no
  task is in two projects; dependencies join existing tasks and form no cycle.
- *Its clients*: a page that has been told of everything shows the board; the
  next tasks are ranked and were all startable; a batch is created from its
  first task on, each with its dependencies.
- *Hub*: it never sends on a closed channel; limits hold; a client that stays
  connected misses nothing; whoever is gone is forgotten and whoever is dropped
  learns of it; nobody waits for ever.
- *Planning chats*: a session is ended once, whoever ends it; the transcript is
  never lost; what a session used is released before its end is announced; an
  idle session ends, a session in use does not.
- *Identity*: one person is one user; an administrator is left; an invite, a
  code and a refresh token are used once; a block and a revocation stand until
  they are lifted.
- *Catalog*: whatever a row refers to exists; what is in use is kept; one
  version of a Dockerfile is the latest; a finished feature stays finished; an
  agent leaves a project when nothing waits for it.
- *Daemon*: its tokens are not lost; it comes back when it can and stops when it
  is told to; a build is recorded as it ended; the cache holds what it says.

`PROJECT.json` has the same inventory in full, with the hazards of the code
at their lines and the properties that cover each.

## 2. The modules

```
TaskRow  DependencyGraph                      Handlers             Connection
    \      /    \                             /      \                 |
   TaskBoard   TaskLifecycle              Users     Projects         Builds
    |     \_ refines _/                     |          |               |
 LiveBoard  Ranking                       Nodes      Agents        Resources
    |      /                                |          |               |
 NextTasks                              Identity    Catalog          Daemon
    |
 Sidecar           Hub refines EventStreams    ChatSessions refines ChatLife
```

A line down is `EXTENDS`: the module at the foot of a column is the composition
of those above it. `MCTaskBoard`, `MCSidecar`, `MCHub`, `MCChatSessions`,
`MCIdentity`, `MCCatalog` and `MCDaemon` hold the small instances, and
`TaskDataProofs`, `TaskBoardProofs`, `SidecarProofs`, `HubProofs`,
`ChatSessionsProofs`, `IdentityProofs`, `CatalogProofs` and `DaemonProofs` the
proofs.

### TaskRow

One row of `tasks`, and each operation of the task service as a guard on a row
(`CanMove`, `CanComplete`, ...) and a function from the row that was read to
the row that is written (`Moved`, `Completed`, ...). It also has the four
conditions that make a row consistent. Texts are reduced to whether they are
there where the code tests that, timestamps to whether they are set, and the
four token counters, which are treated alike, to one. Positions are left out.
`CompleteTask` and `RejectWontDo` look the column of the row up twice and ignore
the errors; `known` says whether they got an answer, and when they did not the
column is not checked.

### DependencyGraph

The edges, and the recursive query behind `WouldCreateCycle`. Reachability is
the least set closed under the edges, stated without recursion so that proofs
can use it.

### TaskBoard

The two tables and the requests on them. `req[r]` is one HTTP handler: where it
is between its statements, and the row it holds. Each action is one statement,
or a read with the checks made on what it returned:

| code | actions |
|---|---|
| `CreateTask`, `BulkCreateTasks` | `CreateTask`; `BulkCreateTasks`, then one `InsertDependency` per edge |
| `UpdateTask`, `BlockTask`, `ApproveWontDo`, `RejectWontDo` | the action of that name (the read), then `WriteRow` |
| `MoveTask` | `MoveTask`, to `in_progress` also `CheckDependencies`, then `WriteRow` |
| `UnblockTask` | `UnblockTask`, `ContinueUnblock` (it calls `MoveTask`, which reads again), `WriteRow` |
| won't-do endpoint | `WontDo`, `WriteRow`, `PostComment`, `ContinueWontDo`, `WriteRow`, `PostComment` |
| complete endpoint | `CompleteTask`, `WriteRow`, and with a human estimate `ContinueEstimate`, `WriteRow` |
| `MarkTaskSeen`, `UpdateTaskSession` | `MarkTaskSeen` and `MarkSeenRow`; `UpdateTaskSession` |
| `DeleteTask`, `MoveTaskToProject` | `DeleteTask` / `MoveTaskToProject`, `DeleteRow`, and `RecreateTask` |
| `AddDependency`, `RemoveDependency` | `AddDependency`, `CheckCycle`, `InsertDependency`; `RemoveDependency` |
| an error, a cancelled context, a dead server | `Abort`, after any step |

A request refused by its first read has changed nothing and is a stuttering
step. Task ids are UUIDs: `used` holds those that were ever given out.
`reported` and `origin` are history variables. `BulkCreateTasks`,
`RemoveDependency` and `UpdateTaskFiles` are operations of the service that no
route reaches today.

### TaskLifecycle

What the board promises to its users, each operation done at once: a task's
column, what it waits for, what was spent on it. A task is completed from where it
stands unless it is blocked, since that is all the code is sure to check.
`TaskBoard` implements it if requests do not overlap, under the mapping at the end
of `TaskBoard.tla` (the column of a live task, `absent` for any other).

### LiveBoard, Ranking, NextTasks, Sidecar: the board and its clients

`LiveBoard` puts the HTTP handler around each request: `Serve` takes it,
`Advance` lets a step of `TaskBoard` happen, and `Announce` broadcasts what
`Announcements` says for the operation - nothing when the service returned an
error, although it may have written before (`Quit`, `AnswerLost`). `inbox` are
the events on their way to the page that is open; `Receive` starts a load for
those the page reacts to (`KanbanPage.tsx`, `BacklogPage.tsx`): of the projects
below its own a Kanban page loads the tasks and drops the events.
`ReadStatement` is one SELECT of the server; child projects that cannot be read
are left out (`ReadChildrenFails`) and the answer says success. `ShowAnswer`
takes the answers in any order, as the page does, and `LoadFails` empties a
backlog page and leaves the others as they are. `stale`, `unread` and `missed`
say what the page cannot know: it shows an overtaken answer or none, one without
these projects, or was never told.

`NextTasks` is the query of that name: one SELECT per project (`ReadReady`), a
map, the sort by two loops written in `GetNextTasks`, and the cut. `Ranking` has the
order, the `LIMIT` of the SELECT (`Foremost`) and the loops (`Pass` is the inner
one, `Sorted` the outer), which start from the rows in any order.

`Sidecar` runs the tools of an agent as requests of its own, each through the
proxy of the daemon (`Forward`), which sends it to the project the chat was
started for whatever the agent asked for. `CreateNext`, `AddNext` and
`AddLink` go on when the answer to the request before has arrived; the first
error ends the tool (`TakeError`).

### Hub

`hub` is the goroutine `Run`: in its `select`, stopped, or between the receive
of a client from the register channel and the decision about it (`Receive`,
`Admit`) - between the two the handler already goes on. `handler`, `reader` and
`writer` say where a connection's three goroutines are. `Deliver` is the
broadcast case of the select with its eviction, `ForwardRelay` the relay case,
`Unregister` the unregister case, which a reader waits for. `SendManifest` is
`SendToDaemon` as `ServeHTTP` calls it. Each connection is made once; a peer
that reconnects is another one. `processed`, `since`, `received` and `direct`
are history variables; `Got` and `Due` are what a client has, written or in its
channel, and what it should have.

### EventStreams

What the hub promises to its clients, with no hub in it: one log of events, and
each client's own positions in it. A client joins once (`Join`, within the
limits), is owed every event that concerns it (`Publish`), sees what it is owed one
by one in the order of the log (`See`), and leaves for good (`Leave`); an
event finds no follower that is `Lag` events behind without ending it. `Hub`
implements it: the log is `processed`, what a client is owed are the `Places` in
the log of what it was sent or has in its channel, and what it has seen those of
what was written to it. Of the hub's goroutines, channels and locks nothing is
left; `Register`, `Receive` and every step of a reader stutter, `Admit` is a
`Join` or a stutter, `Deliver` a `Publish`, `WriteEvent` a `See`.

### ChatSessions

The life of a chat over both programs. `start` is the goroutine of `chat.start`
(worktree, agents, proxy, Claude, registration, greeting), each of whose steps
may fail and leave what is there. `reader` is `readClaudeOutput`, `Wait` the
`cmd.Wait` that closes the pipe. `ender["user"]` is the read pump that handles
`chat.end` and nothing else meanwhile (`PumpFree`), `ender["ttl"]` the TTL
checker with its list `expired`; `TakeToEnd` is the start of `EndSession` under
the lock and `EndStep` the rest. Time is abstract: `TimePasses` puts a session
into `stale`, any use takes it out. `Restart` is a daemon that is stopped or
dies: nothing calls `ChatManager.Stop`, so nothing is ended or cleaned up, and
the next daemon knows nothing of what lies on the disk. Uploads of usage that
were on their way may still arrive.

### ChatLife

A chat as its user may rely on it. A session goes one way: asked for, open,
ending, sealed, over, or lost with the daemon; it has one Claude, which is gone
before the transcript is sealed; the transcript takes one line after the other
until then and no more afterwards; and that transcript, while there is a copy of
it, is what the server is given before the session is over. `ChatSessions`
implements it, whoever ends the session and whatever fails: `PhaseOf` reads the
phase of a session off the progress of its start, the map of sessions, the
enders and the ends that were announced. Proxies, worktrees, agents, pipes,
timers and the TTL are stutters, and so are the rows of the server.

### Handlers, Users, Nodes, Identity

`Handlers` is what the request handlers of the server have in common: `req[r]`
is a goroutine between two of its statements, with what it read. `workload`,
chosen in the initial state, says which operations the clients ask for and
whether they wait for answers (`overlap`); one run so covers many groups of
operations that share rows, and none of the groups that cannot meet.

`Users` has the users with role, block and password, invitations, refresh
tokens, SSO and teams; `Nodes` the onboarding codes, the nodes, access to them,
and the daemons that refresh tokens and connect. An action named `...Request` is
the route with its middleware and what the handler checks before the service
reads; the action without that suffix is the service up to its write;
`InsertUser`, `UpdateUser`, `InsertNode`, `MarkUsed`, `UpdateNode` are the
writes. So `RenameNodeRequest`, `RenameNode` (reads the node) and `UpdateNode`
(writes the whole row) are three steps, and `RevokeNode` may come between any
two. What a daemon asks for is a look and an act as well: `RefreshDaemonToken`
looks whether its node is revoked and `IssueDaemonToken` hands out the token,
`ValidateDaemonJWT` looks and `AdmitDaemon` lets the connection in; `refreshing`
and `admitting` are the nodes between the two. `Identity` composes them, with
the cascade of a deleted team, requests that fail half-way (`GiveUp`) and
`Restart`, which forgets the used refresh tokens as the server's `sync.Map`
does. `Seeded` is what the first starts leave: the administrator alone, or the
member too unless the configuration gives both one address.

### Projects, Agents, Catalog

The rest of the server's tables in the same form. `Projects` has projects,
access, features, Dockerfiles and notifications; `Agents` agents, skills,
specialized agents and their places in projects; `Catalog` adds comments and
what the foreign keys delete across them (`RemoveProject`, `DropAgent`,
`DeleteTask`). Of a task it has the project, the feature and the agent, which
`TaskBoard` leaves out. `CheckProjectAccess` and `CheckTeamAccess` are the two
SELECTs of `HasAccess`. `lineage` is a history variable: where a project
was put. Like the UPDATE of `pg_tasks.go`, `WriteTask` finds its task only in the
project that the request names; `ForgetFeatures` is the `ON DELETE SET NULL` of
the tasks, which reaches the tasks of other projects too; `Subtree`, what goes
with a deleted project, is the least set closed under "has its parent in it".

### Connection, Builds, Resources, Daemon

`Connection` is `App.Run`: enrol with a code unless there is a token file, get
an access token, dial, refresh on 401, wait and dial again. `refresh[c]` is
`refreshAccessToken` on behalf of the main goroutine or of a chat's proxy, and
ends in `Save` (the file is emptied) and `Write`. While the file cannot be written
(`Fill`, `Clear`) it ends in `CannotOpen` or `CannotWrite` instead: the token that
came is in use and is not handed to the connection, and at the start of the
process that is the end of it. An access token is the number
of the period in which it is good; `firstToken` is the one that the Docker
service and the chat manager were made with and keep. `Crash` kills the process
anywhere; an outage of the server or a broken link lasts as long as it likes.
`DaemonsAdmitted` says whether the server accepts a daemon's token where the
daemon puts it; see section 4.

`Builds` has one goroutine per rebuild, from the fetch of the Dockerfile to the
record of the outcome, and one that prunes; events are lost while the link is
down, and SQLite turns away one of two writers (`Busy`). `Resources` has one
goroutine per manifest; `cached` is the file, `known` the map that says what is
in it. `Daemon` composes the three: the end of the process ends all goroutines,
and commands and manifests come over an open link only.

## 3. The runs

A `CHECK_DEADLOCK FALSE` is there where the system may rest: no request, no
client, no session.

| run | instance | distinct states | what it shows |
|---|---|---|---|
| `board_sequential` | 2 task ids, none exists at first, 1 request, all operations but the two that are single statements without a check | 426 495 | The types; usage is never lost; no cycle; starts after dependencies; blocks lifted by decisions only; **the board implements `TaskLifecycle`** |
| `board_rows` | 1 task, 2 requests, every operation that writes its row | 922 190 | Rows stay consistent and no usage is counted twice, whatever interleaves |
| `board_existence` | 4 task ids of which 2 exist, 2 requests: update, seen, transfer, delete, add a dependency | 92 325 | No dangling dependency, no task in two projects, none back from the dead |
| `sidecar` | 13 workloads on 5 task ids in a project and one below it: a page of the dashboard, up to 2 requests, an agent with its tools, the query for the next tasks | 1 379 789 | A page that was told shows the board; an answer is ranked; a batch is created in order |
| `hub_safety` | 2 dashboards (one follows a project, one none) and a daemon, one address, limits 2 and 1, channels of 1 and 2, 2 events, Stop | 1 561 278 | Channels in the map are open, limits hold; **the hub implements `EventStreams`** |
| `hub_live` | a dashboard and a daemon, limits not in the way, channels of 1, 2 events and a relayed message | 138 459 | Who is gone is forgotten, who is dropped learns of it, a relayed message arrives |
| `chat_sessions` | 1 session, 2 lines, 1 result, 1 restart, lines may be too long | 45 200 | Transcript kept, resources released when the end is told, idle sessions end; **the daemon implements `ChatLife`** |
| `identity` | 10 workloads on 3 users, 2 subjects of the identity provider, 2 teams, 2 nodes, 1 code, 1 refresh token; 2 requests | 717 988 | One person is one user; an administrator is left; codes, invites and tokens are used once; blocks and revocations stand |
| `catalog` | 15 workloads on 1 to 3 rows of each table; 2 requests | 117 465 | References hold; one latest Dockerfile; done stays done; what is in use is kept; tasks are reassigned first; breadcrumbs without gaps |
| `daemon` | 10 workloads: 3 periods, 2 starts, 3 rebuilds (2 at once) of 2 versions, 2 manifests at once in 2 versions; crash, stop, expiry, outage, break, revocation, full disk, a token file that cannot be written | 433 144 | Tokens kept, outcomes stored, the cache as noted, and two liveness properties |
| `lost_lines`, `daemon_refused` | the smallest that show it | - | section 4 |

Two invariants are proved and no longer listed in a run, since a refinement that is
checked there says more: `NoGaps` of `Hub` (what a registered client got is what it
is due) follows a client in `EventStreams` also after it has left the map, and
`EndedOnce` of `ChatSessions` (no session has two enders) is the one way of a session
in `ChatLife`.

**Properties that overlapping requests break.** The code has no transactions, so
some promises hold only as long as requests do not overlap, and the properties
say so: `AdminRemains`, `OneLatest`, `UsedIsKept`, `ReassignedFirst` and the first
half of `UsedOnce` name `workload.overlap`, and `board_sequential` has one
request. Others hold whatever overlaps, but except what the code cannot help:
`BlockStands`, `RevocationFinal` and `DoneIsFinal` begin once no request is under
way that had read the row before (the settled states of these properties); after
a revocation that includes the tokens and connections that were already being
given.
`TokensKept`, `OutcomeStored`, `KnownIsCached` and `PageCurrent` name the
failures after which they need not hold, each with a history variable that
records exactly that failure (`damaged` and `unwritten`, `unsaved`, `overlapped`
and `spoiled`, `stale`, `unread` and `missed`).

**Why these bounds.** All violations of the row conditions need one task, and a
pair of requests is enough to put a stale row into the table: a third would
only overwrite it again, and section 5 proves these conditions for any number. A
transfer needs an unused id and two of them two, beside two tasks to join. In
the hub a channel of one message is full after one event, so the second evicts;
the limit of one client per address against two connections reaches both
refusals, in the handler and in `Run`. `hub_live` leaves the limits out of the
way, because a refused connection never enters the map. `ChatSessions` has one
session: sessions share nothing but the map and the two enders, both enders can
work on the one there is, and the checker can hold it in its list while the
user ends it (time may pass between `CheckTTL` and `EndExpired`, which is what a
second session would add); with two, the liveness run takes hours. Two lines let
one be read and one be lost, one result makes one upload, one restart can fall
between any two steps.

In `identity` and `catalog` two requests are enough for a check and a write with
another write between them, and each workload has the rows that its operations
share: two users besides the administrator to demote each other or to be the
same person, two nodes for one code, three projects for a breadcrumb with one
above and one below, two versions of one Dockerfile. In `sidecar` a page reads
two projects, two loads may be under way so that one overtakes the other, and
five tasks allow three below and two in the main project, which a query merges.
In `daemon` a token expires twice (once unnoticed, once again while it is being
refreshed), the second start is the one after a crash, and two builds at once
with a third after them are what the unique version, the prune and the stale
image need.

`MaxReported`, `MaxInteger`, `MaxEvents`, `MaxLoads`, `MaxRelays`, `MaxLines`,
`MaxTurns`, `MaxRestarts`, `MaxPeriods`, `MaxStarts`, `MaxBuilds`,
`MaxOverlapping`, `MaxVersions` and `MaxReleases` are bounds of the models only;
`MaxInteger` stands for the range of an `INTEGER` column, which the code does
meet: with it at 1, reports fail to be stored for the reason they would at 2^31.
`MaxCount` of `NextTasks` is `maxNextCount` of the code, made small. A bound of
another kind is the choice of workloads: operations in different workloads do
not meet in a run. They are grouped by the rows that they read or write.

**Symmetry.** Requests are interchangeable, and rows of one table where no
constant tells them apart; no run with a liveness property uses symmetry.

**Fairness.** `hub_live`, `chat_sessions`, `daemon` and `daemon_refused` use
some, all of it weak.

- *Hub*: `Run` is a `select` in a loop: a case that stays ready is taken (Go
  chooses at random among those that are ready), and it does not block on
  anything that lacks a deadline. Handlers and pumps are goroutines that run. A
  read on a closed connection fails. The writer's write succeeds or runs into
  its deadline. What happens at most once to a connection shares one condition.
  No fairness for peers: they need not leave, send or answer.
- *Chats*: the TTL checker ticks every minute, it takes each session of its list
  in turn, and no step of `EndSession` waits without a timeout - five seconds
  for Claude, then a kill; timeouts on the upload and on git. The last step sends
  a message and so needs the lock that a dial holds (`websocket.go:65`, `:117`);
  that a dial ends is assumed, although `Dialer` has no handshake timeout
  (`:76`): the operating system gives up on a connection, a server that accepts one
  and never answers the upgrade would keep it. Nothing is assumed
  of Claude, of the user or of the goroutine that starts a session.
- *Daemon*: the steps of `Run` and of a proxy's refresh. Timers fire, HTTP clients
  give up after 30 seconds, and a reader that hears nothing gets an error after
  60. Nothing is assumed of the server, of the network, of the process being
  started again, or of builds, whose requests have no time limit.

**Liveness.** `PartedOnBothSides`: a connection that is closed leaves the map,
and a client whose channel was closed has its connection closed.
`RelayReachesDaemons`: what a dashboard says to the daemons reaches each that
stays connected. `IdleSessionsEnd`: a session left alone for the TTL ends even if
Claude ignores the interrupt, unless it is used or the daemon dies first.
`ComesBack`: a daemon that runs, with a node in use, a server that can be
reached and a token file that can be written from some time on, is connected
again and again, whatever expired or broke before. `StopsWhenTold`: after SIGTERM
the process ends, wherever it waits.

Each property was also checked against a plausible bug in the definition it
depends on: the operators marked `Mutant` are these bugs, and no behaviour of
the specifications uses them.

## 4. Where code and documentation disagree

Two runs end in a counterexample, each to a sentence of the repository.

| run | the code | against |
|---|---|---|
| `lost_lines` | `Wait` closes the pipe before the reader is done, and after a kill nobody waits for the reader. | "persists the full conversation on session end" (`README.md`) |
| `daemon_refused` | `WSClient.Connect` sends its token as the query parameter `token`; the handler reads `ticket`, and the route is behind a check that wants the `Authorization` header of a user (`cmd/agach-server/main.go`, `serverRouter.Use`). Every dial is answered 401, every refresh is followed by another. | "The daemon registers with the server, receives tokens, and connects via WebSocket." (`README.md`) |

The second matters to the other models. As the program is wired today neither a
daemon nor a dashboard's WebSocket gets past that check, and the requests of a
sidecar, which carry a daemon's token, do not either. `Hub`, `ChatSessions`,
`LiveBoard`, `Sidecar`, and `Daemon` with `DaemonsAdmitted = TRUE` model what
happens once a client is let in, as the handlers, the tests and the
documentation mean it.

Other disagreements and losses were met on the way. The models have them; no
property denies what the code plainly does.

*Task board and its clients*

- An `UpdateTask` that read the row before `BlockTask` wrote it puts the old
  column back: the block is gone, although "UnblockTask unblocks a task (human
  only)" (`inbound/commands/tasks.go`). With two requests
  `BlockIsLiftedExplicitly` fails.
- Two `AddDependency` requests both pass the check for a cycle and then both
  insert; with two requests `DependenciesAcyclic` fails. A dependency added or
  reopened between the check of `MoveTask` and its write does not stop the start
  (`task_service.go:470`), so `StartsAfterDependencies` fails too, and so does
  `TokensAccounted`: one report overwrites another. An update that read the row
  before `MarkTaskSeen` writes `seen_at` back to NULL while `seen_by_human` stays.
- `CompleteTask` and `RejectWontDo` ignore the errors of both column lookups
  (`task_service.go:566`, `:883`): when both fail a task that was never started is
  completed, against "a task must first be started (moved to in_progress) before it
  can be completed" (`deep_security_test.go:198`).
- `ApproveWontDo` leaves `wont_do_requested` set on the done task
  (`task_service.go:825`); `RejectWontDo` clears it.
- The dashboard reacts to `task_*`, `comment_*` and `project_updated`. The
  rejection of a won't-do is announced as `wont_do_rejected`, so no board
  changes; `AddDependency` and `UpdateTaskSession` announce nothing, nor does a
  handler that fails after a write (`MoveTaskToProject` whose INSERT fails, a
  won't-do whose approval fails). The backlog page reacts to four events only, and
  the Kanban page to none of a child project: nothing fills its `childProjectIds`
  (`KanbanPage.tsx:59`), against "WebSocket: refetch board on task events (including
  child projects)" (`:279`).
  These are the tasks in `missed`, against the "live WebSocket updates" of
  `README.md:137`.
- `KanbanPage.tsx:221` neither cancels an earlier load nor orders the answers: an
  overtaken answer that arrives last stays on the page (`stale`), as does the old
  board after a failed load; after a reconnect nothing is loaded. The backlog
  clears itself when a load fails (`BacklogPage.tsx:28`), and reads of child
  projects that fail leave their tasks out without a word
  (`queries/tasks.go:154`, `:236`).
- The dashboard connects without a `project_id` (`lib/ws.ts`), and the hub sends
  an event that names a project only to connections that named the same one.
- `GetNextTasks` claims nothing: two orchestrators are given the same task.
- `bulk_create_tasks` creates a task before it adds its dependencies: meanwhile
  another agent can start it. A tool that ends in an error does not say what it
  has created, and its repetition creates it again; a reference to a later task
  of the batch is sent as it stands and refused. In a chat with a feature every
  creation fails, because `CreateTask` looks the feature up among the projects
  (`task_service.go:70`).

*Hub and chats*

- A client evicted from the map stays in `ipCount`: after twenty the address is
  refused for good (`hub.go:156`). `LimitsRespected` says that the count is never
  too low and never over the limit, not that it is ever given back.
- The manifest goes to whichever connection of the node is in the map, before the
  hub has admitted the new one (`inbound/commands/websocket.go:151`).
- The TTL checker ends what it collected earlier without looking again, so that
  a session in use is ended.
- `ChatManager.Stop` is never called, so the "graceful shutdown" of
  `README.md:157` does not happen; `Restart` has what happens instead.
- A failed start of Claude leaves the proxy listening and the worktree there
  (`chat.go:397`); `StartFails` and the failing half of `StartClaude` have it.
- Each result starts an upload of the totals of its own (`chat.go:234`), and an
  older one may arrive last: `UpdateTokenUsage` takes them in any order.
- `chat.end` keeps the read pump for longer than the connection's pong deadline.

*Identity and catalog*

- A profile, password or login request that had read the user before he was
  blocked lifts the block; a rename that had read the node before it was revoked
  makes it active again. A token that is being issued, and a connection that is
  being let in, is not stopped by a revocation in between (`auth.go:469`, `:487`).
- Two daemons that complete onboarding with one code both create a node; only
  one gets tokens, the other node stays active.
- `usedRefreshTokens` and the list of logged-out tokens are in memory: a restart
  makes used tokens good again.
- `RevokeTeamAccess` notifies for a grant that was not there. `HasAccess` is two
  SELECTs. `AssignAgentToProject` prefers a specialized agent of the same slug.
- The heir of a removed agent may be the agent itself (`HandsToItself`) or one
  that is not in the project; a skill that only specialized agents have is not
  in use for `DeleteSkill`; `SetSkills` deletes and inserts without a
  transaction.
- `agents_download.go` reads `project_roles`, which no route fills.

*Daemon*

- The token file is emptied before it is written, and a code is used up before
  its answer arrives: a crash within a save, or a lost answer, and the machine
  must be enrolled anew (`damaged`). A save that fails leaves the file empty until
  the next one that works (`unwritten`), and the connection keeps its old token
  although a new one was obtained (`app.go:214`).
- The Docker service and the chat manager keep the access token of the start:
  when it has expired, every fetch and upload is refused until the next start.
- `UNIQUE(dockerfile_slug, version)` makes a second rebuild of a version fail,
  and no event says so, against the comment at `docker.go:115`. A build that the
  process dies in, or whose outcome SQLite refuses, stays `pending`. A build
  whose output was cut claims the image an earlier one left. `image_hash` is
  never written, so `PruneNonLatest` removes records and no images, and it may
  remove the record of a build that is under way.
- A failed download is not tried again until the next manifest.

## 5. The proofs

TLAPS checks all of the following from the definitions the runs use. The
assumptions are `TaskBoardAssumption` of `TaskBoard.tla` (there is a task id, the
existing tasks are among them, the bounds are natural numbers), `HubAssumption`
of `Hub.tla` (each connection has an address, a project or none, a node or none,
a daemon follows no project, limits and bounds are natural numbers; a limit or a
channel may be 0), `ChatAssumption` of `ChatSessions.tla` (`Nobody` is no
session, the bounds are natural numbers), and `ConnectionAssumption`,
`BuildsAssumption` and `ResourcesAssumption` of the daemon's modules (the bounds
are natural numbers, and there is a token period, a version and a release).
Identity and catalog need less: `HandlersAssumption` (finitely many requests at a
time, and a workload says whether they overlap), `UsersAssumption` (the two
seeded users are users, and whoever logs in has an address), `NodesAssumption`
and `ProjectsAssumption` (what stands for NULL is no id, and the first project is
a project), and `AgentsAssumption` (the first agent's slug is a slug). The clients of the board
need `LiveBoardAssumption` (the requests of the agents are not those of the dashboard,
a page is of one of the three kinds and of a project, and the projects below one are
a list of projects), and what is said of the next tasks needs `RankingAssumption` and
`NextTasksAssumption` as well: no two tasks have the same `created_at`, which has
microseconds (between equal ones the order is open), there are finitely many
task ids, `maxNextCount` is not 0, and a query is about a project.

Nothing else is assumed of how many tasks, requests, operations, connections, rows,
sessions, builds or manifests there are, nor of what is asked for and what may
happen around the daemon (`Workloads` is any set; with `overlap` and without).

| theorem (module) | says |
|---|---|
| `TypeCorrect` (`TaskBoardProofs`) | `Spec => []TypeOK`; no stored counter exceeds its column |
| `RowsAlwaysConsistent` | every row is one that a single request could have written: the four row conditions |
| `TokensNeverOverCounted` | no interleaving counts usage twice |
| `TasksNeverDuplicated` | no task is in two projects |
| `DependenciesAlwaysJoinTasks` | dependencies join existing, different tasks |
| `DeletedTasksStayDeleted` | an action property: no deleted task comes back |
| `SequentialDependenciesAcyclic` | the dependencies are acyclic **if** requests run one after the other (two that overlap can close one) |
| `SequentialTokensAccounted`, `SequentialStartsAfterDependencies`, `SequentialBlockIsLiftedExplicitly` | under the same condition no usage is lost, no task starts before its dependencies, and only who means to lifts a block |
| `SequentialRefinesLifecycle` | under the same condition `TaskBoard` implements `TaskLifecycle`: reads, checks and writes are together one operation done at once, also when lookups fail and their errors are ignored |
| `OperationsKeepConsistency` (`TaskDataProofs`) | each operation maps consistent rows to consistent rows |
| `SafeEdgeKeepsAcyclic`, `FewerEdgesKeepAcyclic`, `SourceCreatesNoCycle` (`TaskDataProofs`) | the check of `AddDependency` is right, deleting never harms, and a bulk create needs no check because nothing depends on its tasks yet |
| `LoopsSort` (`TaskDataProofs`) | the two loops of `GetNextTasks` put any list of tasks in order and leave it a list of the same tasks |
| `PageAlwaysCurrent`, `AnswersAlwaysRanked`, `BatchAlwaysInOrder` (`SidecarProofs`) | with all clients, failing requests and loads, and restarts: `PageCurrent`, `RankedAnswer` and `BatchInOrder` |
| `ClientsKeepTheBoardSound` | in that system too the board has the five invariants above that need no condition; a restart keeps them |
| `TypeCorrect`, `RegisteredAlwaysOpen`, `LimitsAlwaysRespected`, `NobodyMissesEvents` (`HubProofs`) | the types, `RegisteredAreOpen`, `LimitsRespected` and `NoGaps` of `Hub` |
| `HubRefinesStreams` | `Hub` implements `EventStreams`, with no condition |
| `TypeCorrect`, `SessionsEndedOnce`, `EndedSessionsReleased`, `TranscriptsKept` (`ChatSessionsProofs`) | the types, `EndedOnce`, `EndedIsReleased` and `TranscriptKept` of `ChatSessions` |
| `SessionsRefineLife` | `ChatSessions` implements `ChatLife`, with no condition |
| `TypeCorrect`, `OneUserForever`, `AdminAlwaysRemains`, `AlwaysUsedOnce`, `EnrolmentAlwaysRecorded`, `BlockAlwaysStands`, `RevocationAlwaysFinal` (`IdentityProofs`) | the types and every property of the run `identity`, two of which are action properties |
| `TypeCorrect`, `ReferencesAlwaysHold`, `BreadcrumbAlwaysSound`, `DoneAlwaysFinal`, `OneIsLatest`, `UsedAlwaysKept`, `AlwaysReassignedFirst` (`CatalogProofs`) | the types and every property of the run `catalog`, three of which are action properties |
| `TypeCorrect`, `TokensAreKept`, `OutcomesAreStored`, `CacheIsKnown` (`DaemonProofs`) | the types and the three invariants of `Daemon` |

**The argument for the board.** None of the properties is inductive. A request carries a row
from one statement to another, and the table may change in between; so each
invariant says of the requests under way what it says of the table.

- *Rows* (`RowInv`): every stored row **and every row a request is about to
  write** is consistent. A write replaces one consistent row by another, however
  old; that `WriteRow` writes every column is what keeps the table consistent
  here and what loses the block of section 4. Preparing a row is
  `OperationsKeepConsistency`.
- *Usage* (`CountInv`): a row that is to be written counts at most what had been
  reported when it was read plus what its own request reports, and `reported`
  never shrinks.
- *Transfers* (`TwinInv`): the request that must recreate a task is the only one
  to carry its origin, and no live task has it, because only one DELETE of a row
  succeeds.
- *Deletion*: rows appear only under ids that were never used.
- *Edges*: the INSERT itself checks both ends (foreign keys) and the DELETE
  takes the edges along (cascade), so what the request checked before does not
  matter.
- *Cycles*: with one request, an edge that waits in step `link` still passes the
  check of `WouldCreateCycle` when it is inserted, since nobody else has changed
  the edges; `SafeEdgeKeepsAcyclic` does the rest.
- *One request after the other* (`SequentialInv`): what a request is about to write
  is what its operation makes of the row **that is there** (`Intended`), and its
  last check of the dependencies is still true. Overlap is what breaks this, and
  with it the three properties and the refinement: section 4 has the runs.
- *Refinement*: `StepsOnBoard` says of every step what it does to columns,
  edges and spent usage: nothing (`Unseen`), tasks arrive, one departs, an edge
  comes or goes, or a request that is up to date writes (`Written`). One lemma for
  each then names the action of `TaskLifecycle` that it is. The steps before the
  write stutter, so the write is where the operation happens.

`StepKinds` and `ReadStepsPrepare` in `TaskBoardProofs` split a step once into a
step that only prepares a request and the eight kinds that write, and
every invariant's proof has one case for each.

**The argument for the clients.** `ClientSpec` composes four actors, and a step of it is
reduced twice: `LiveKinds` says which step of a handler or of the page it is, whoever
took it (most steps of an agent are steps of the handler of its request), and
`LiveStepsOnBoard` that on the board this is a step of `TaskBoard` or a restart. So the
invariants of the board carry over as they are.

- *Handlers* (`HandlerInv`): while a handler serves, its request is one for the
  operation and the task it was begun for (`Serves`); so when it announces, the tasks
  it names are all that have changed. `ProceedTouches` says which tasks a step of a
  request can move: its own, and the one that a transfer recreates.
- *Page* (`PageInv`): a task is `Known` if no handler has still to announce it, no event
  in the inbox names it, and it was not missed. The load that was begun last, with what
  its remaining statements would return now (`Coming`), is right about every known task
  of the projects that it reads; and if that load is over, what is shown is. A load may
  be torn as it likes: a task that moves under it is not known, and the event that makes
  it known again begins a load of its own. That a load which was overtaken has overtaken
  all before it (`OldestOvertaken`) is why the history variable `stale` tells the truth.
- *Next tasks* (`QueryInv`): what a query has found was ready when it was found, and as
  long as nothing has changed it has, of each project it has read, all that the
  `LIMIT` did not cut off. What a `LIMIT` of ten times the count, or of the count, cut
  off has that many rows before it (`ForemostBefore`), and those are still before it
  when the rows of all projects are put together (`CutOffBehind`); so cutting in each
  project and then again loses nothing. `LoopsSort` gives the order: after round `i`
  the first `i` positions hold what belongs there (`InPlace`). It is an induction
  over the rounds, which goes through the least counterexample (`LeastNumber`,
  `RoundByRound`), and that the recursive functions exist at all is `LoopRuns`.
- *Batches* (`BatchInv`): each dependency of a created task is there (`Linked`), or is left, or
  is the single edge of the request that is on its way (`LinkPending`), and a handler
  that announces has seen the INSERT succeed. A link that is there stays as long
  as both tasks live, since only a DELETE of a task takes its edges and no id is
  given twice (`EdgesKept`).

**The argument for the hub.** `HubInv` adds two things to the types and the three
invariants.

- *Registration* (`HandOver`) takes a client from its handler over the
  unbuffered channel to `Run`. It is in the map only when both are done with it;
  until then its channel is open and empty. Without this a second `Admit` could
  put a client back whose channel had been closed, and a client could start with
  events from before it was there. Limits hold because `Admit` decides and enters
  in one step of one goroutine, and because whoever leaves the map is counted
  down at most once.
- *Order* (`Ordered`): events are numbered as they are published, and those in the
  broadcast channel come after those that were processed. So what `Deliver`
  appends to a channel is later than all that is in it, and "each once" follows
  from "in order".
- *Refinement* (`Traced`): what a client got is increasing and comes from the log,
  also when it has left the map, of which `NoGaps` says nothing. So its events have
  places in the log, a place once given does not change as the log grows, and an
  event that is written adds the least place that was not seen. For who is in the
  map, how many events it is behind is how many are in its channel, so that "its
  channel is full" is "it is `Lag` events behind". Joining counts who follows:
  the map and `Following` are one set, and a limit for one is one for the other.

**The argument for identity.** Every write puts back a row as some request read
it, so `RequestsOK` says of each request what it remembers: the columns that no
operation changes (address and subject of a user, owner of a node) are those of
the row it will write. This is why `OneUserPerPerson` survives the writes of
whole rows; at an INSERT the unique constraints of the table give it.

- *Without overlap* (`OneAtATime`, `SequentialInv`): who is asked to change a role
  is not the only administrator, and whoever is about to complete an invite has
  seen that there is no password yet. Both are true only as long as nobody else
  writes in between, which `OneAtATime` says.
- *Refresh tokens* (`TokenInv`): the answers given for a token and the requests that
  are about to note it as used are together at most as many as may run at once,
  because a request looks up a token only when it is not noted. This counts
  requests, and so needs that they are finitely many.
- *Enrolment* (`EnrolInv`): a node whose code is still to be marked has no tokens
  yet, and no two requests wait with the same node.
- *Blocks and revocations* are lifted only by a write, and a write puts back what was
  read: so once no request holds an old row, a new one reads the block.
  A node that is revoked then passes no look, so only what had passed it before ends in
  a token or a connection (`KeptOut`).

**The argument for the catalog.** What the foreign keys and their cascades keep is
`ReferencesHold`, and it would be inductive, were it not for requests that write
rows they have read before. `CatalogInv` says of those what they need.

- *Rows* (`ProjectsOK` to `AgentsOK`): each statement checks its references or
  follows a cascade; one lemma for each kind of statement.
- *Lineage* (`LineageOK`): no operation moves a project, and ids are not used twice,
  so above a project there is what was there when it was created. An `update_project`
  writes back a parent it has read; that it is still there, if the project is, is
  because a deleted parent takes the project along. `PathSoFar` says of a
  breadcrumb that is being read that it is the end of the lineage.
- *Features*: once one is done, a request that reads it finds no way out.
- *Without overlap* (`SequentialInv`): what a request has looked up (no project and
  no agent uses the version or the skill, no task waits for the agent) is true
  when its statement runs.
- *Latest version* (`LatestInv`): two versions are the latest only while a request is
  about to set one (`SettledBy`). It needs that requests neither overlap nor
  fail half-way, as `OneLatest` does.

**The argument for chats.** `Inv` of `ChatSessionsProofs` adds to the properties
what links a session's parts: the row comes before anything is started
(`CreatedFirst`); only a session that was registered is listed, ended or over,
so none can be started again under its id (`WasRegistered`); the pipe of a
session that is listed or being ended is closed only after Claude has exited,
which is how `Stopped` knows (`PipeTells`); and who ends a session has released
what comes before the step it is at (`EndedSoFar`). Not even the types are
inductive without the last: the transcript may be deleted only because it was
closed two steps earlier.

*Refinement* needs two facts more (`LifeInv`): Claude is started only once and is
there when its session is listed (`RunsOnce`), and the transcript stays on the disk
until it is uploaded and is open only as long as the session is not sealed
(`TranscriptAtHand`). Each step then moves the phase of at most one session
(`PhaseGoes`, `OthersKept`, `EnderMoves`), and there is one lemma for each group of
steps: the server's, the start's, Claude's and its reader's, the list's, the
enders', a restart's.

**The argument for the daemon.** The three parts have invariants of their own, and
`DaemonInvStep` shows that a step of one of them, and the steps that two or three
take together (the end of the process, a link that opens or breaks), keep all
three.

- *Connection* (`ConnectionInv`): the file is empty only while a caller of
  `refreshAccessToken` is about to fill it, or because he could not or died there
  (`EmptyWhileWritten`); once the code is used there is a file, or `doOnboarding` is
  about to make one, unless its save failed (`FileThere`, `MainRefreshes`); and
  until the first refresh is over no proxy exists that could touch it
  (`NothingBefore`).
- *Builds* (`BuildsInv`): there is no record before `Create` (`Recorded`), nobody is
  told an outcome before the step that stores it, and only a build that was run
  gets to the step that stores a success (`ToldInTime`).
- *Cache* (`ResourcesInv`): as long as no overlap was noticed all syncs want one
  version (`OneVersion`), so that what one of them notes is what the last of them
  has written (`NotedIsCached`).

**Only model-checked.** Liveness and fairness, which are out of the prover's
reach: `PartedOnBothSides`, `RelayReachesDaemons`, `IdleSessionsEnd`, `ComesBack`,
`StopsWhenTold`.

**What the proofs changed.** An attempt that failed was a question to the code,
and three times the model had been wrong: `WriteTask` wrote a task that had left
the project, a deleted project left its features named by the tasks of others,
and `Seeded` had two users of one address. `NoGaps` spoke only of clients whose
writer was running, as though what others had been sent did not matter.

## 6. What is not modelled

- *Within the modelled parts of the board*: positions within a column and
  `ReorderTask`, which writes what no query of the board orders by;
  `GetNextTask`, which no route reaches; texts, searches and statistics;
  `mark_as_wont_do` of a comment.
- *Of the hub and the chats*: the ticket and JWT checks before the upgrade (their
  outcome is `DaemonsAdmitted`), pings, the parsing of relayed messages; the
  shared clone behind the worktrees, messages and warnings of a chat, the file of
  a transcript on the server.
- *Of identity*: the list of logged-out tokens, the rate limiter, `UpdateTeam`,
  the deletion of users and of expired codes, which have no route.
- *Of the catalog*: texts and sort orders; the agents of a single project
  (`CreateProjectAgent` and its kin), `CreateInProject`, which have no route;
  lists and summaries, but for the breadcrumb.
- *Of the daemon*: the hub in `inbound/ws`, which nothing starts; lists of images
  and logs of builds.
- *Of the sidecar*: `update_feature_changelogs`, a single request that `Catalog`
  has, and the summary files in the worktree, which nothing reads back.
- *Read-only or pure*: columns (their WIP limits are stored and never enforced),
  prompts, statistics, converters, controllers, configuration, migrations, the
  dashboard's other pages.

What the models take as given: PostgreSQL executes one statement atomically and
enforces the foreign keys, the unique and the check constraints of the
migrations; SQLite refuses one of two writers; the Go runtime implements
channels and mutexes; a file written to the daemon's disk survives the daemon.
A new row of `Handlers`' tables takes an id that no row has, although an earlier
one may have had it: UUIDs are never reused, so the models have more behaviours
there than the program.

## 7. The plan

Written, in this order: `TaskRow` and `DependencyGraph`; `TaskBoard` with
`TaskLifecycle`; their proofs; `Hub`; `ChatSessions` and its proofs; `Handlers`,
`Users`, `Nodes`, `Identity`; `Projects`, `Agents`, `Catalog`; `Connection`,
`Builds`, `Resources`, `Daemon`; `LiveBoard`, `Ranking`, `NextTasks`, `Sidecar`; the proofs of
`Daemon`, `Hub`, `Identity`, `Catalog` and of the board's clients; `EventStreams` and
`ChatLife` with their refinement by `Hub` and `ChatSessions`.

Every invariant and every action property of the runs is proved. What could come next:
abstract specifications of the remaining components (one owner for each row of
the catalog, a token store for the daemon) and their refinement.
