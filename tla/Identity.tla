------------------------------ MODULE Identity ------------------------------
(***************************************************************************)
(* The identity subsystem: users, teams and nodes together, as the clients *)
(* of one server see them, with requests that fail half-way because the    *)
(* client has gone or the database does not answer, and with restarts of   *)
(* the server.                                                             *)
(***************************************************************************)
EXTENDS Nodes

vars == <<userTables, teamTables, nodeTables, req, workload>>

Init ==
  /\ HandlersInit
  /\ UsersInit
  /\ NodesInit

---------------------------------------------------------------------------
(* The foreign keys of the cascade: the access of a team goes with it. *)
RemoveTeam(r) ==
  /\ DeleteTeam(r)
  /\ access' = {a \in access : a[2] # req[r].data.team}
  /\ UNCHANGED <<codes, nodes, enrolled, daemonTables>>

(* A statement fails, or the context of the request is cancelled. *)
GiveUp(r) ==
  /\ Busy(r)
  /\ Finish(r)
  /\ UNCHANGED <<userTables, teamTables, nodeTables>>

(* What was in memory is gone: the requests, those of daemons too, the used
   refresh tokens and the connections. *)
Restart ==
  /\ Offered("restart")
  /\ req' = [r \in Requests |-> Idle]
  /\ usedTokens' = {}
  /\ refreshed' = [k \in Tokens |-> 0]
  /\ refreshing' = {} /\ admitting' = {}
  /\ connected' = {}
  /\ touching' = {}
  /\ UNCHANGED <<users, invites, tokens, completed, teamTables,
                 codes, nodes, access, enrolled, fresh>>

UsersNext ==
  /\ \E r \in Requests :
       \/ \E u \in Users : UpdateProfileRequest(r, u)
       \/ \E u \in Users : ChangePasswordRequest(r, u)
       \/ \E u, v \in Users, role \in {"admin", "member"} : SetUserRoleRequest(r, u, v, role)
       \/ \E u, v \in Users : BlockUserRequest(r, u, v)
       \/ \E u, v \in Users : UnblockUserRequest(r, u, v)
       \/ UpdateProfile(r)
       \/ ChangePassword(r)
       \/ SetUserRole(r)
       \/ BlockUser(r)
       \/ UnblockUser(r)
       \/ \E e \in Emails : Register(r, e)
       \/ \E u \in Users, e \in Emails : InviteUserRequest(r, u, e)
       \/ InviteUser(r)
       \/ \E u \in Users : CompleteInvite(r, u)
       \/ Callback(r)
       \/ ExchangeCode(r)
       \/ \E s \in Subjects : ValidateIDToken(r, s)
       \/ LoginOIDC(r)
       \/ \E u \in Users : InsertUser(r, u)
       \/ UserExists(r)
       \/ \E u \in Users : LoginRequest(r, u)
       \/ Login(r)
       \/ UpdateUser(r)
       \/ TouchFails(r)
       \/ IssueToken(r)
       \/ \E k \in Tokens : Refresh(r, k)
       \/ RefreshToken(r)
       \/ \E u \in Users, s \in Slugs : CreateTeamRequest(r, u, s)
       \/ CreateTeam(r)
       \/ \E t \in Teams : InsertTeam(r, t)
       \/ \E u \in Users, t \in Teams : DeleteTeamRequest(r, u, t)
       \/ \E u, v \in Users, t \in Teams : SetUserTeamRequest(r, u, t, v)
       \/ \E u, v \in Users, t \in Teams : RemoveUserFromTeamRequest(r, u, t, v)
       \/ AddToTeam(r)
       \/ RemoveFromTeam(r)
  /\ UNCHANGED nodeTables

NodesNext ==
  /\ \/ \E r \in Requests :
          \/ \E u \in Users, m \in Modes : GenerateCodeRequest(r, u, m)
          \/ \E c \in Codes : GenerateCode(r, c)
          \/ InsertCode(r)
          \/ \E c \in Codes : CompleteOnboarding(r, c)
          \/ \E n \in Nodes : InsertNode(r, n)
          \/ MarkUsed(r)
          \/ \E u \in Users, n \in Nodes : RevokeNodeRequest(r, u, n)
          \/ \E u \in Users, n \in Nodes : AdminRevokeNodeRequest(r, u, n)
          \/ \E u \in Users, n \in Nodes : RenameNodeRequest(r, u, n)
          \/ RevokeNode(r)
          \/ AdminRevokeNode(r)
          \/ RenameNode(r)
          \/ NodeRefused(r)
          \/ UpdateNode(r)
          \/ \E u \in Users, n \in Nodes, g, w \in Grantees : UpdateAccessRequest(r, u, n, g, w)
          \/ UpdateNodeAccess(r)
          \/ GrantAccess(r)
          \/ GrantFails(r)
          \/ WithdrawAccess(r)
     \/ \E c \in Codes : ExpireCode(c)
     \/ \E n \in Nodes : \/ RefreshDaemonToken(n) \/ IssueDaemonToken(n) \/ ExpireToken(n)
                         \/ ValidateDaemonJWT(n) \/ AdmitDaemon(n) \/ Disconnect(n)
                         \/ UpdateLastSeen(n)
  /\ UNCHANGED <<userTables, teamTables>>

Next ==
  /\ \/ UsersNext
     \/ NodesNext
     \/ \E r \in Requests : RemoveTeam(r) \/ GiveUp(r)
     \/ Restart
  /\ UNCHANGED workload

Spec == Init /\ [][Next]_vars

---------------------------------------------------------------------------
(* Properties. *)

(* The rows are well-formed, invites are for users that exist, and only a
   daemon that is enrolled has tokens or a connection. *)
TypeOK ==
  /\ workload \in Workloads
  /\ DOMAIN users \subseteq Users /\ \A u \in DOMAIN users : users[u] \in UserRow
  /\ DOMAIN teams \subseteq Teams /\ \A t \in DOMAIN teams : teams[t] \in Slugs
  /\ invites \subseteq DOMAIN users
  /\ DOMAIN tokens \subseteq Tokens /\ usedTokens \subseteq Tokens
  /\ DOMAIN codes \subseteq Codes /\ \A c \in DOMAIN codes : codes[c] \in CodeRow
  /\ DOMAIN nodes \subseteq Nodes /\ \A n \in DOMAIN nodes : nodes[n] \in NodeRow
  /\ fresh \cup refreshing \cup admitting \cup connected \cup touching \subseteq DOMAIN enrolled

(* Two first logins of a person at the same time leave one user: with an
   address taken, nobody else comes into being for it. *)
OneUserPerPerson ==
  \A u, v \in DOMAIN users :
    u # v => /\ users[u].email # users[v].email
             /\ users[u].subject = users[v].subject => users[u].subject = NoSubject

(* As long as requests do not overlap, an administrator is left: nobody
   changes the own role.  Two administrators that demote each other at the
   same time, each accepted before, leave none. *)
AdminRemains ==
  workload.overlap \/ \E u \in DOMAIN users : IsAdmin(u)

(* What is good for one use is used once: an invite, unless two requests
   complete it at the same time or an overlapping write brings the row without
   a password back, and a refresh token, which between the look-up and the
   store may give as many access tokens as requests run at once. *)
UsedOnce ==
  /\ workload.overlap \/ \A u \in Users : completed[u] <= 1
  /\ \A k \in Tokens :
       refreshed[k] <= IF workload.overlap THEN Cardinality(Requests) ELSE 1

(* A row of u is about to be written in which he is not blocked. *)
WritesUnblocked(u) ==
  \E r \in Requests : /\ req[r].step \in {"update_user", "touch"}
                      /\ Target(r) = u /\ ~req[r].data.row.blocked

BlockSettled(u) == u \in DOMAIN users /\ users[u].blocked /\ ~WritesUnblocked(u)

(* Only an administrator's decision lifts a block, or the write of a request
   that had read the row before it: once none of these is running, the block
   stays whatever the user and others do. *)
BlockStands ==
  [][\A u \in Users :
       BlockSettled(u) => BlockSettled(u)' \/ \E r \in Requests : UnblockUser(r)]_vars

(* A daemon that was let in is the one the code was used by: a code that is
   completed by two daemons at once makes two nodes, but only one of them
   gets tokens. *)
EnrolmentRecorded ==
  \A n \in DOMAIN enrolled : codes[enrolled[n]].usedBy = n

(* A row of n is about to be written in which it is active. *)
WritesActive(n) ==
  \E r \in Requests : /\ req[r].step = "update_node"
                      /\ req[r].data.node = n /\ req[r].data.row.status = "active"

RevocationSettled(n) ==
  n \in DOMAIN nodes /\ nodes[n].status = "revoked" /\ ~WritesActive(n)

(* A revocation is final but for what had read the node before it: once no
   rename is running that did, the node stays revoked; a connection is only
   let in that had been accepted before, and a new token is only the answer to
   a refresh that had been, or to the enrolment. *)
RevocationFinal ==
  [][\A n \in Nodes :
       RevocationSettled(n) =>
         /\ RevocationSettled(n)'
         /\ n \in refreshing' => n \in refreshing
         /\ n \in admitting' => n \in admitting
         /\ n \in fresh' => n \in fresh \cup refreshing \/ n \notin DOMAIN enrolled
         /\ n \in connected' => n \in connected \cup admitting]_vars
=============================================================================
