--------------------------- MODULE IdentityProofs ---------------------------
(***************************************************************************)
(* The safety properties of the identity subsystem, for any users, nodes,  *)
(* codes and tokens, any workloads and any number of requests at a time.   *)
(***************************************************************************)
EXTENDS Identity, FiniteSetTheorems, TLAPS

USE HandlersAssumption, UsersAssumption, NodesAssumption
    DEF HandlersAssumption, UsersAssumption, NodesAssumption, daemonTables

(* A row that may be written for u: who he is does not change. *)
RowFor(u, row) ==
  /\ u \in DOMAIN users /\ row \in UserRow
  /\ row.email = users[u].email /\ row.subject = users[u].subject

(* The address of somebody who came through the provider is the provider's. *)
AddressOfSubject(row) == row.subject # NoSubject => row.email = EmailOf[row.subject]

(* What a request remembers at a step is what the step needs. *)
UserData(q) ==
  /\ q.step \in {"load", "login", "issue"} => q.data.target \in DOMAIN users
  /\ q.step = "load" /\ q.op = "role" => q.data.role \in {"admin", "member"}
  /\ q.step \in {"update_user", "touch"} => RowFor(q.data.target, q.data.row)
  /\ q.step = "check_email" => q.data.email \in Emails
  /\ q.step = "find_subject" => q.data.subject \in Subjects
  /\ q.step = "insert_user" => q.data.row \in UserRow /\ AddressOfSubject(q.data.row)
  /\ q.step = "store_used" => q.data.token \in Tokens
  /\ q.step \in {"check_slug", "insert_team"} => q.data.slug \in Slugs

NodeData(q) ==
  /\ q.step = "draw" => q.data.owner \in Users /\ q.data.mode \in Modes
  /\ q.step = "insert_code" => /\ q.data.code \in Codes
                               /\ q.data.row \in CodeRow /\ q.data.row.usedBy = NoNode
  /\ q.step = "insert_node" => q.data.code \in DOMAIN codes /\ q.data.row \in NodeRow
  /\ q.step = "mark_used" => q.data.code \in DOMAIN codes /\ q.data.node \in DOMAIN nodes
  /\ q.step \in {"load_node", "update_node"} => q.data.node \in DOMAIN nodes
  /\ q.step = "update_node" => q.data.row \in NodeRow

Wellformed(q) ==
  /\ q = Idle \/ q = [op |-> q.op, step |-> q.step, data |-> q.data]
  /\ UserData(q) /\ NodeData(q)

RequestsOK == DOMAIN req = Requests /\ \A r \in Requests : Wellformed(req[r])

TablesOK ==
  /\ TypeOK
  /\ refreshed \in [Tokens -> Nat] /\ completed \in [Users -> Nat]
  /\ DOMAIN enrolled \subseteq DOMAIN nodes
  /\ \A u \in DOMAIN users : AddressOfSubject(users[u])

(* Clients that do not overlap have one request between them. *)
OneAtATime ==
  workload.overlap \/ \A r, s \in Requests : Busy(r) /\ Busy(s) => r = s

IdentityInv == TablesOK /\ RequestsOK /\ OneUserPerPerson /\ OneAtATime

---------------------------------------------------------------------------
(* Without overlap, the request that is running has seen the present rows: it
   writes no role but to somebody who is not its actor, and no row without the
   password that the user has. *)

OtherAdmin(u) == \E v \in DOMAIN users \ {u} : users[v].role = "admin"

Current(q) ==
  /\ q.step = "load" /\ q.op = "role" => OtherAdmin(q.data.target)
  /\ q.step \in {"update_user", "touch"} =>
       /\ q.data.row.role = users[q.data.target].role \/ OtherAdmin(q.data.target)
       /\ users[q.data.target].password => q.data.row.password
  /\ q.step = "update_user" /\ q.op = "complete_invite" =>
       q.data.row.password /\ ~users[q.data.target].password

InviteOver ==
  \A u \in Users :
    completed[u] # 0 => completed[u] = 1 /\ u \in DOMAIN users /\ users[u].password

SequentialInv ==
  workload.overlap \/ /\ \A r \in Requests : Current(req[r])
                      /\ \E u \in DOMAIN users : IsAdmin(u)
                      /\ InviteOver

(* The requests that are about to store k as used. *)
Storing(k) == {r \in Requests : At(r, "refresh", "store_used") /\ req[r].data.token = k}

RefreshLimit == IF workload.overlap THEN Cardinality(Requests) ELSE 1

TokenInv ==
  \A k \in Tokens :
    /\ k \notin usedTokens => refreshed[k] = 0
    /\ refreshed[k] + Cardinality(Storing(k)) <= RefreshLimit

(* A node that waits for its code to be marked is nobody else's. *)
EnrolInv ==
  /\ EnrolmentRecorded
  /\ \A n \in DOMAIN enrolled : enrolled[n] \in DOMAIN codes
  /\ \A r \in Requests : At(r, "enrol", "mark_used") => req[r].data.node \notin DOMAIN enrolled
  /\ \A r, s \in Requests :
       At(r, "enrol", "mark_used") /\ At(s, "enrol", "mark_used") /\ r # s =>
         req[r].data.node # req[s].data.node

---------------------------------------------------------------------------
(* Requests. *)

(* r takes its turn: the others stand still and, when clients do not overlap,
   are idle. *)
Turn(r) ==
  /\ DOMAIN req' = Requests
  /\ \A s \in Requests \ {r} : req'[s] = req[s]
  /\ Busy(r) \/ workload.overlap \/ \A s \in Requests : ~Busy(s)

(* A request that begins, or goes on with other data. *)
LEMMA TurnBegin ==
  ASSUME RequestsOK, NEW r \in Requests, NEW op, NEW step, NEW data, NEW asked,
         Free(r, asked) \/ Busy(r), Begin(r, op, step, data)
  PROVE  Turn(r) /\ req'[r] = [op |-> op, step |-> step, data |-> data]
BY DEF RequestsOK, Turn, Begin, Free

(* A request that goes on with the data that it has. *)
LEMMA TurnGoto ==
  ASSUME RequestsOK, NEW r \in Requests, NEW step, Busy(r), Goto(r, step)
  PROVE  Turn(r) /\ req'[r] = [op |-> req[r].op, step |-> step, data |-> req[r].data]
<1>1. req[r] = [op |-> req[r].op, step |-> req[r].step, data |-> req[r].data]
  BY DEF RequestsOK, Wellformed, Busy, Idle
<1> QED
  BY <1>1 DEF RequestsOK, Turn, Goto

(* A request that ends. *)
LEMMA TurnFinish ==
  ASSUME RequestsOK, NEW r \in Requests, Busy(r), Finish(r)
  PROVE  Turn(r) /\ req'[r] = Idle
BY DEF RequestsOK, Turn, Finish

(* An idle request remembers nothing. *)
LEMMA IdleWellformed == Wellformed(Idle) /\ Wellformed(Idle)'
BY DEF Wellformed, UserData, NodeData, Idle

(* Rows are added, and who a user is does not change. *)
Grows ==
  /\ DOMAIN users \subseteq DOMAIN users'
  /\ \A u \in DOMAIN users : /\ users'[u].email = users[u].email
                             /\ users'[u].subject = users[u].subject
  /\ DOMAIN codes \subseteq DOMAIN codes'
  /\ DOMAIN nodes \subseteq DOMAIN nodes'

(* What a request remembers stays what it needs. *)
LEMMA StaysWellformed ==
  ASSUME Grows, NEW q, Wellformed(q)
  PROVE  Wellformed(q)'
<1>1. UserData(q)'
  BY DEF Grows, Wellformed, UserData, RowFor, UserRow, AddressOfSubject
<1>2. NodeData(q)'
  BY DEF Grows, Wellformed, NodeData, NodeRow, CodeRow, Modes
<1> QED
  BY <1>1, <1>2 DEF Wellformed

(* A turn that ends well keeps what is said of requests. *)
LEMMA TurnKeeps ==
  ASSUME IdentityInv, Grows, NEW r \in Requests, Turn(r), Wellformed(req[r])',
         UNCHANGED workload
  PROVE  RequestsOK' /\ OneAtATime'
<1>1. ASSUME NEW s \in Requests PROVE Wellformed(req[s])'
  <2>1. CASE s = r
    BY <2>1
  <2>2. CASE s # r
    <3>1. req'[s] = req[s] /\ Wellformed(req[s])
      BY <2>2 DEF Turn, IdentityInv, RequestsOK
    <3>2. ASSUME NEW q, Wellformed(q) PROVE Wellformed(q)'
      BY <3>2, StaysWellformed
    <3> QED
      BY <3>1, <3>2 DEF Wellformed, UserData, NodeData, RowFor, AddressOfSubject
  <2> QED
    BY <2>1, <2>2
<1>2. OneAtATime'
  BY DEF Turn, IdentityInv, OneAtATime, Busy
<1> QED
  BY <1>1, <1>2 DEF RequestsOK, Turn

---------------------------------------------------------------------------
(* The steps.  Most of them only move a request; the others are grouped by
   what they read or write. *)

Tables == <<userTables, teamTables, nodeTables>>

Quiet(r) == Turn(r) /\ Wellformed(req[r])' /\ UNCHANGED Tables

(* A request gets to a step after which neither a row is written that had
   been read before, nor a token stored. *)
Elsewhere(r) ==
  /\ Quiet(r)
  /\ ~(req'[r].step = "load" /\ req'[r].op = "role")
  /\ req'[r].step \notin {"update_user", "touch", "store_used", "mark_used", "update_node"}

(* Steps of a request that read a user to write him back. *)
ReadsRow(r) ==
  \/ UpdateProfile(r) \/ ChangePassword(r) \/ SetUserRole(r) \/ BlockUser(r) \/ UnblockUser(r)
  \/ \E u \in Users : CompleteInvite(r, u)
  \/ Login(r) /\ req'[r].step = "touch"

(* Steps of a request that read a node to write it back. *)
ReadsNode(r) == RevokeNode(r) \/ AdminRevokeNode(r) \/ RenameNode(r)

(* The statements on teams, codes and access, which are nobody else's. *)
WritesAside(r) ==
  \/ /\ (\E t \in Teams : InsertTeam(r, t)) \/ AddToTeam(r) \/ RemoveFromTeam(r)
     /\ UNCHANGED nodeTables
  \/ RemoveTeam(r)
  \/ (InsertCode(r) \/ GrantAccess(r) \/ WithdrawAccess(r)) /\ UNCHANGED teamTables

DaemonStep ==
  \/ \E c \in Codes : ExpireCode(c)
  \/ \E n \in Nodes : \/ RefreshDaemonToken(n) \/ IssueDaemonToken(n) \/ ExpireToken(n)
                      \/ ValidateDaemonJWT(n) \/ AdmitDaemon(n) \/ Disconnect(n)
                      \/ UpdateLastSeen(n)

QuietUsers(r) ==
  \/ \E u \in Users : UpdateProfileRequest(r, u)
  \/ \E u \in Users : ChangePasswordRequest(r, u)
  \/ \E u \in Users, v \in Users : BlockUserRequest(r, u, v)
  \/ \E u \in Users, v \in Users : UnblockUserRequest(r, u, v)
  \/ \E e \in Emails : Register(r, e)
  \/ \E u \in Users, e \in Emails : InviteUserRequest(r, u, e)
  \/ InviteUser(r)
  \/ Callback(r)
  \/ ExchangeCode(r)
  \/ \E s \in Subjects : ValidateIDToken(r, s)
  \/ LoginOIDC(r)
  \/ UserExists(r)
  \/ \E u \in Users : LoginRequest(r, u)
  \/ TouchFails(r)
  \/ \E u \in Users, s \in Slugs : CreateTeamRequest(r, u, s)
  \/ CreateTeam(r)
  \/ \E u \in Users, t \in Teams : DeleteTeamRequest(r, u, t)
  \/ \E u \in Users, v \in Users, t \in Teams : SetUserTeamRequest(r, u, t, v)
  \/ \E u \in Users, v \in Users, t \in Teams : RemoveUserFromTeamRequest(r, u, t, v)

QuietNodes(r) ==
  \/ \E u \in Users, m \in Modes : GenerateCodeRequest(r, u, m)
  \/ \E c \in Codes : GenerateCode(r, c)
  \/ \E c \in Codes : CompleteOnboarding(r, c)
  \/ \E u \in Users, n \in Nodes : RevokeNodeRequest(r, u, n)
  \/ \E u \in Users, n \in Nodes : AdminRevokeNodeRequest(r, u, n)
  \/ \E u \in Users, n \in Nodes : RenameNodeRequest(r, u, n)
  \/ NodeRefused(r)
  \/ \E u \in Users, n \in Nodes, g \in Grantees, w \in Grantees : UpdateAccessRequest(r, u, n, g, w)
  \/ UpdateNodeAccess(r)
  \/ GrantFails(r)

(* It is quiet, and leads elsewhere, to begin or to go on with well-formed
   data. *)
LEMMA QuietBegin ==
  ASSUME IdentityInv, NEW r \in Requests, NEW op, NEW step, NEW data, NEW asked,
         Free(r, asked) \/ Busy(r), Begin(r, op, step, data), UNCHANGED Tables,
         UserData([op |-> op, step |-> step, data |-> data]),
         NodeData([op |-> op, step |-> step, data |-> data])
  PROVE  /\ Quiet(r)
         /\ /\ step # "load" \/ op # "role"
            /\ step \notin {"update_user", "touch", "store_used", "mark_used", "update_node"}
            => Elsewhere(r)
<1>1. Turn(r) /\ req'[r] = [op |-> op, step |-> step, data |-> data]
  BY TurnBegin DEF IdentityInv
<1>2. UserData(req[r])' /\ NodeData(req[r])'
  BY <1>1 DEF UserData, NodeData, RowFor, Tables, userTables, nodeTables
<1> QED
  BY <1>1, <1>2 DEF Elsewhere, Quiet, Wellformed

(* Likewise with the data that the request has. *)
LEMMA QuietGoto ==
  ASSUME IdentityInv, NEW r \in Requests, NEW step, Busy(r), Goto(r, step), UNCHANGED Tables,
         UserData([op |-> req[r].op, step |-> step, data |-> req[r].data]),
         NodeData([op |-> req[r].op, step |-> step, data |-> req[r].data]),
         step \notin {"load", "update_user", "touch", "store_used", "mark_used", "update_node"}
  PROVE  Elsewhere(r)
<1>1. Turn(r) /\ req'[r] = [op |-> req[r].op, step |-> step, data |-> req[r].data]
  BY TurnGoto DEF IdentityInv
<1>2. UserData(req[r])' /\ NodeData(req[r])'
  BY <1>1 DEF UserData, NodeData, RowFor, Tables, userTables, nodeTables
<1> QED
  BY <1>1, <1>2 DEF Elsewhere, Quiet, Wellformed

(* And it is to end. *)
LEMMA QuietFinish ==
  ASSUME IdentityInv, NEW r \in Requests, Busy(r), Finish(r), UNCHANGED Tables
  PROVE  Elsewhere(r)
<1>1. Turn(r) /\ req'[r] = Idle
  BY TurnFinish DEF IdentityInv
<1>2. Wellformed(req[r])'
  BY <1>1, IdleWellformed DEF Wellformed, UserData, NodeData, Idle
<1> QED
  BY <1>1, <1>2 DEF Elsewhere, Quiet, Idle

(* The row of a new user, as registration, invitation and provider make it. *)
LEMMA NewUserIsRow ==
  ASSUME NEW email \in Emails, NEW password \in BOOLEAN, NEW subject \in Subjects \cup {NoSubject},
         subject # NoSubject => email = EmailOf[subject]
  PROVE  NewUser(email, password, subject) \in UserRow
         /\ AddressOfSubject(NewUser(email, password, subject))
BY DEF NewUser, UserRow, AddressOfSubject

(* What a request remembers. *)
LEMMA Remembers ==
  ASSUME IdentityInv, NEW r \in Requests
  PROVE  UserData(req[r]) /\ NodeData(req[r])
BY DEF IdentityInv, RequestsOK, Wellformed

(* The quiet steps of the requests on users and teams. *)
LEMMA QuietUsersStep ==
  ASSUME IdentityInv, NEW r \in Requests, QuietUsers(r), UNCHANGED nodeTables
  PROVE  Elsewhere(r)
<1>1. ASSUME NEW u \in Users, UpdateProfileRequest(r, u)
      PROVE  Elsewhere(r)
  BY <1>1, QuietBegin
     DEF UpdateProfileRequest, ActorFromRequest, Valid, Tables, UserData, NodeData
<1>2. ASSUME NEW u \in Users, ChangePasswordRequest(r, u)
      PROVE  Elsewhere(r)
  BY <1>2, QuietBegin
     DEF ChangePasswordRequest, ActorFromRequest, Valid, Tables, UserData, NodeData
<1>3. ASSUME NEW u \in Users, NEW v \in Users, BlockUserRequest(r, u, v)
      PROVE  Elsewhere(r)
  BY <1>3, QuietBegin
     DEF BlockUserRequest, AdminRequest, ActorFromRequest, Tables, UserData, NodeData
<1>4. ASSUME NEW u \in Users, NEW v \in Users, UnblockUserRequest(r, u, v)
      PROVE  Elsewhere(r)
  BY <1>4, QuietBegin
     DEF UnblockUserRequest, AdminRequest, ActorFromRequest, Tables, UserData, NodeData
<1>5. ASSUME NEW e \in Emails, Register(r, e)
      PROVE  Elsewhere(r)
  <2> DEFINE row == NewUser(e, TRUE, NoSubject)
  <2>1. row \in UserRow /\ AddressOfSubject(row)
    BY NewUserIsRow
  <2>2. Free(r, "register") /\ Begin(r, "register", "insert_user", [row |-> row]) /\ UNCHANGED Tables
    BY <1>5 DEF Register, Tables
  <2> HIDE DEF row
  <2>3. UserData([op |-> "register", step |-> "insert_user", data |-> [row |-> row]])
        /\ NodeData([op |-> "register", step |-> "insert_user", data |-> [row |-> row]])
    BY <2>1, <2>2 DEF UserData, NodeData
  <2> QED
    BY <2>1, <2>2, <2>3, QuietBegin
<1>6. ASSUME NEW u \in Users, NEW e \in Emails, InviteUserRequest(r, u, e)
      PROVE  Elsewhere(r)
  BY <1>6, QuietBegin
     DEF InviteUserRequest, AdminRequest, ActorFromRequest, Tables, UserData, NodeData
<1>7. CASE InviteUser(r)
  <2>1. CASE FindByEmail(req[r].data.email) = {}
    <3> DEFINE row == NewUser(req[r].data.email, FALSE, NoSubject)
    <3>1. row \in UserRow /\ AddressOfSubject(row)
      BY <1>7, Remembers, NewUserIsRow DEF InviteUser, At, UserData
    <3>2. /\ Busy(r) /\ UNCHANGED Tables
          /\ Begin(r, req[r].op, "insert_user", [row |-> row])
      BY <1>7, <2>1 DEF InviteUser, At, Busy, Continue, Tables
    <3> HIDE DEF row
    <3>3. UserData([op |-> req[r].op, step |-> "insert_user", data |-> [row |-> row]])
          /\ NodeData([op |-> req[r].op, step |-> "insert_user", data |-> [row |-> row]])
      BY <3>1, <3>2 DEF UserData, NodeData
    <3> QED
      BY <3>1, <3>2, <3>3, QuietBegin
  <2>2. CASE FindByEmail(req[r].data.email) # {}
    BY <1>7, <2>2, QuietFinish DEF InviteUser, At, Busy, Tables
  <2> QED
    BY <2>1, <2>2
<1>8. CASE Callback(r)
  BY <1>8, QuietBegin
     DEF Callback, Tables, UserData, NodeData
<1>9. CASE ExchangeCode(r)
  BY <1>9, Remembers, QuietGoto DEF ExchangeCode, At, Busy, Tables, UserData, NodeData, RowFor
<1>10. ASSUME NEW s \in Subjects, ValidateIDToken(r, s)
      PROVE  Elsewhere(r)
  <2>1. /\ Busy(r) /\ UNCHANGED Tables
        /\ Begin(r, req[r].op, "find_subject", [subject |-> s])
    BY <1>10 DEF ValidateIDToken, At, Continue, Busy, Tables
  <2>2. UserData([op |-> req[r].op, step |-> "find_subject", data |-> [subject |-> s]])
        /\ NodeData([op |-> req[r].op, step |-> "find_subject", data |-> [subject |-> s]])
    BY <1>10 DEF UserData, NodeData
  <2> QED
    BY <2>1, <2>2, QuietBegin
<1>11. CASE LoginOIDC(r)
  <2> DEFINE s == req[r].data.subject
  <2>1. s \in Subjects /\ Busy(r) /\ UNCHANGED Tables
    BY <1>11, Remembers DEF LoginOIDC, UserData, At, Busy, Tables
  <2>2. CASE FindBySSO(s) = {}
    <3> DEFINE row == NewUser(EmailOf[s], FALSE, s)
    <3>1. row \in UserRow /\ AddressOfSubject(row)
      BY <2>1, NewUserIsRow
    <3>2. Begin(r, req[r].op, "insert_user", [row |-> row])
      BY <1>11, <2>2 DEF LoginOIDC, Continue
    <3> HIDE DEF row
    <3>3. UserData([op |-> req[r].op, step |-> "insert_user", data |-> [row |-> row]])
          /\ NodeData([op |-> req[r].op, step |-> "insert_user", data |-> [row |-> row]])
      BY <2>1, <3>1, <3>2 DEF UserData, NodeData
    <3> QED
      BY <2>1, <3>1, <3>2, <3>3, QuietBegin
  <2>3. CASE FindBySSO(s) # {}
    <3> DEFINE u == CHOOSE v \in FindBySSO(s) : TRUE
    <3>1. u \in DOMAIN users
      BY <2>3 DEF FindBySSO
    <3>2. Begin(r, req[r].op, "issue", [target |-> u])
      BY <1>11, <2>3 DEF LoginOIDC, Continue
    <3> HIDE DEF u
    <3>3. UserData([op |-> req[r].op, step |-> "issue", data |-> [target |-> u]])
          /\ NodeData([op |-> req[r].op, step |-> "issue", data |-> [target |-> u]])
      BY <2>1, <3>1, <3>2 DEF UserData, NodeData
    <3> QED
      BY <2>1, <3>1, <3>2, <3>3, QuietBegin
  <2> QED
    BY <2>2, <2>3
<1>12. CASE UserExists(r)
  BY <1>12, QuietFinish DEF UserExists, At, Busy, Tables
<1>13. ASSUME NEW u \in Users, LoginRequest(r, u)
      PROVE  Elsewhere(r)
  BY <1>13, QuietBegin
     DEF LoginRequest, Tables, UserData, NodeData
<1>14. CASE TouchFails(r)
  BY <1>14, Remembers, QuietGoto DEF TouchFails, At, Busy, Tables, UserData, NodeData, RowFor
<1>15. ASSUME NEW u \in Users, NEW s \in Slugs, CreateTeamRequest(r, u, s)
      PROVE  Elsewhere(r)
  BY <1>15, QuietBegin
     DEF CreateTeamRequest, AdminRequest, ActorFromRequest, Tables, UserData, NodeData
<1>16. CASE CreateTeam(r)
  BY <1>16, Remembers, QuietGoto, QuietFinish DEF CreateTeam, At, Busy, Tables, UserData, NodeData
<1>17. ASSUME NEW u \in Users, NEW t \in Teams, DeleteTeamRequest(r, u, t)
      PROVE  Elsewhere(r)
  BY <1>17, QuietBegin
     DEF DeleteTeamRequest, AdminRequest, ActorFromRequest, Tables, UserData, NodeData
<1>18. ASSUME NEW u \in Users, NEW v \in Users, NEW t \in Teams, SetUserTeamRequest(r, u, t, v)
      PROVE  Elsewhere(r)
  BY <1>18, QuietBegin
     DEF SetUserTeamRequest, AdminRequest, ActorFromRequest, Tables, UserData, NodeData
<1>19. ASSUME NEW u \in Users, NEW v \in Users, NEW t \in Teams, RemoveUserFromTeamRequest(r, u, t, v)
      PROVE  Elsewhere(r)
  BY <1>19, QuietBegin
     DEF RemoveUserFromTeamRequest, AdminRequest, ActorFromRequest, Tables, UserData, NodeData
<1> QED
  BY <1>1, <1>2, <1>3, <1>4, <1>5, <1>6, <1>7, <1>8, <1>9, <1>10, <1>11, <1>12, <1>13, <1>14,
     <1>15, <1>16, <1>17, <1>18, <1>19 DEF QuietUsers

(* The quiet steps of the requests on codes, nodes and access. *)
LEMMA QuietNodesStep ==
  ASSUME IdentityInv, NEW r \in Requests, QuietNodes(r), UNCHANGED <<userTables, teamTables>>
  PROVE  Elsewhere(r)
<1>1. ASSUME NEW u \in Users, NEW m \in Modes, GenerateCodeRequest(r, u, m)
      PROVE  Elsewhere(r)
  BY <1>1, QuietBegin
     DEF GenerateCodeRequest, ActorFromRequest, Tables, UserData, NodeData
<1>2. ASSUME NEW c \in Codes, GenerateCode(r, c)
      PROVE  Elsewhere(r)
  <2> DEFINE row == [owner |-> req[r].data.owner, mode |-> req[r].data.mode,
                     expired |-> FALSE, usedBy |-> NoNode]
  <2>1. row \in CodeRow /\ row.usedBy = NoNode
    BY <1>2, Remembers DEF GenerateCode, At, NodeData, CodeRow
  <2>2. /\ Busy(r) /\ UNCHANGED Tables
        /\ Begin(r, req[r].op, "insert_code", [code |-> c, row |-> row])
    BY <1>2 DEF GenerateCode, At, Busy, Continue, Tables
  <2> HIDE DEF row
  <2>3. UserData([op |-> req[r].op, step |-> "insert_code", data |-> [code |-> c, row |-> row]])
        /\ NodeData([op |-> req[r].op, step |-> "insert_code", data |-> [code |-> c, row |-> row]])
    BY <2>1, <2>2 DEF UserData, NodeData
  <2> QED
    BY <2>1, <2>2, <2>3, QuietBegin
<1>3. ASSUME NEW c \in Codes, CompleteOnboarding(r, c)
      PROVE  Elsewhere(r)
  <2> DEFINE row == [owner |-> codes[c].owner, mode |-> codes[c].mode,
                     status |-> "active", key |-> TRUE, seen |-> FALSE]
  <2>1. c \in DOMAIN codes /\ codes[c] \in CodeRow
    BY <1>3 DEF CompleteOnboarding, Usable, IdentityInv, TablesOK, TypeOK
  <2>2. row \in NodeRow
    BY <2>1 DEF NodeRow, CodeRow
  <2>3. /\ Free(r, "enrol") /\ UNCHANGED Tables
        /\ Begin(r, "enrol", "insert_node", [code |-> c, row |-> row])
    BY <1>3 DEF CompleteOnboarding, Tables
  <2> HIDE DEF row
  <2>4. UserData([op |-> "enrol", step |-> "insert_node", data |-> [code |-> c, row |-> row]])
        /\ NodeData([op |-> "enrol", step |-> "insert_node", data |-> [code |-> c, row |-> row]])
    BY <2>1, <2>2, <2>3 DEF UserData, NodeData
  <2> QED
    BY <2>1, <2>2, <2>3, <2>4, QuietBegin
<1>4. ASSUME NEW u \in Users, NEW n \in Nodes, RevokeNodeRequest(r, u, n)
      PROVE  Elsewhere(r)
  BY <1>4, QuietBegin
     DEF RevokeNodeRequest, NodeRequest, ActorFromRequest, Tables, UserData, NodeData
<1>5. ASSUME NEW u \in Users, NEW n \in Nodes, AdminRevokeNodeRequest(r, u, n)
      PROVE  Elsewhere(r)
  BY <1>5, QuietBegin
     DEF AdminRevokeNodeRequest, NodeRequest, ActorFromRequest, Tables, UserData, NodeData
<1>6. ASSUME NEW u \in Users, NEW n \in Nodes, RenameNodeRequest(r, u, n)
      PROVE  Elsewhere(r)
  BY <1>6, QuietBegin
     DEF RenameNodeRequest, NodeRequest, ActorFromRequest, Tables, UserData, NodeData
<1>7. CASE NodeRefused(r)
  BY <1>7, QuietFinish DEF NodeRefused, At, Busy, Tables
<1>8. ASSUME NEW u \in Users, NEW n \in Nodes, NEW g \in Grantees, NEW w \in Grantees,
             UpdateAccessRequest(r, u, n, g, w)
      PROVE  Elsewhere(r)
  BY <1>8, QuietBegin
     DEF UpdateAccessRequest, ActorFromRequest, Tables, UserData, NodeData
<1>9. CASE UpdateNodeAccess(r)
  BY <1>9, Remembers, QuietGoto DEF UpdateNodeAccess, At, Busy, Tables, UserData, NodeData, RowFor
<1>10. CASE GrantFails(r)
  BY <1>10, QuietFinish DEF GrantFails, At, Busy, Tables
<1> QED
  BY <1>1, <1>2, <1>3, <1>4, <1>5, <1>6, <1>7, <1>8, <1>9, <1>10 DEF QuietNodes

(* What is written back to a user is the row that was read, but for the role
   that an administrator sets, a password and the end of a block. *)
Written(r) ==
  LET q == req'[r]
      row == q.data.row
      old == users[q.data.target] IN
  /\ q.step \in {"update_user", "touch"}
  /\ q.data.target \in DOMAIN users
  /\ row.role = old.role \/ (At(r, "role", "load") /\ Target(r) = q.data.target)
  /\ old.password => row.password
  /\ q.op = "complete_invite" /\ q.step = "update_user" => row.password /\ ~old.password
  /\ old.blocked => row.blocked \/ UnblockUser(r)

(* A request that reads a user, and goes on to write a row back. *)
LEMMA ReadsUser ==
  ASSUME IdentityInv, NEW r \in Requests, NEW op, NEW step \in {"update_user", "touch"},
         NEW target, NEW row, RowFor(target, row), NEW asked, Free(r, asked) \/ Busy(r),
         Begin(r, op, step, [target |-> target, row |-> row]), UNCHANGED Tables
  PROVE  Quiet(r) /\ req'[r] = [op |-> op, step |-> step, data |-> [target |-> target, row |-> row]]
<1> DEFINE data == [target |-> target, row |-> row]
<1>1. Turn(r) /\ req'[r] = [op |-> op, step |-> step, data |-> data]
  BY TurnBegin DEF IdentityInv
<1>2. /\ UserData([op |-> op, step |-> step, data |-> data])
      /\ NodeData([op |-> op, step |-> step, data |-> data])
  BY DEF UserData, NodeData
<1> QED
  BY <1>1, <1>2, QuietBegin

(* The steps that load a user, change a copy of his row and go on to write it. *)
LEMMA LoadsUser ==
  ASSUME IdentityInv, NEW r \in Requests, NEW op, NEW row,
         RowFor(Target(r), row), LoadUser(r, op, row), UNCHANGED nodeTables
  PROVE  Quiet(r) /\ req'[r] = [op |-> op, step |-> "update_user",
                                data |-> [target |-> Target(r), row |-> row]]
<1>1. /\ Busy(r) /\ UNCHANGED Tables /\ req[r].op = op
      /\ Begin(r, op, "update_user", [target |-> Target(r), row |-> row])
  BY DEF LoadUser, At, Busy, Continue, Tables
<1> QED
  BY <1>1, ReadsUser

(* What is written back to a user is what was read of him, and what the
   request changes: his role, his password, whether he is blocked. *)
LEMMA ReadsRowStep ==
  ASSUME IdentityInv, NEW r \in Requests, ReadsRow(r), UNCHANGED nodeTables
  PROVE  Quiet(r) /\ Written(r)
<1> DEFINE old == users[Target(r)]
<1>1. ASSUME req[r].step \in {"load", "login"}
      PROVE  Target(r) \in DOMAIN users /\ old \in UserRow /\ RowFor(Target(r), old)
  BY <1>1, Remembers DEF IdentityInv, TablesOK, TypeOK, UserData, Target, RowFor
<1>2. ASSUME NEW op, NEW row, LoadUser(r, op, row), row \in UserRow,
             row.email = old.email, row.subject = old.subject, old.password => row.password,
             old.blocked => row.blocked \/ UnblockUser(r),
             row.role = old.role \/ op = "role", op # "complete_invite"
      PROVE  Quiet(r) /\ Written(r)
  <2>1. /\ Target(r) \in DOMAIN users /\ RowFor(Target(r), row)
        /\ At(r, op, "load")
    BY <1>1, <1>2 DEF LoadUser, At, RowFor
  <2>2. Quiet(r) /\ req'[r] = [op |-> op, step |-> "update_user",
                                data |-> [target |-> Target(r), row |-> row]]
    BY <1>2, <2>1, LoadsUser
  <2> QED
    BY <1>2, <2>1, <2>2 DEF Written
<1>3. CASE UpdateProfile(r)
  BY <1>1, <1>2, <1>3 DEF UpdateProfile, LoadUser, At
<1>4. CASE ChangePassword(r)
  BY <1>1, <1>2, <1>4 DEF ChangePassword, At
<1>5. CASE SetUserRole(r)
  <2>1. req[r].data.role \in {"admin", "member"} /\ old \in UserRow
    BY <1>1, <1>5, Remembers DEF SetUserRole, LoadUser, At, UserData
  <2>2. [old EXCEPT !.role = req[r].data.role] \in UserRow
    BY <2>1 DEF UserRow
  <2> QED
    BY <1>2, <1>5, <2>1, <2>2 DEF SetUserRole, UserRow
<1>6. CASE BlockUser(r)
  <2>1. old \in UserRow
    BY <1>1, <1>6 DEF BlockUser, LoadUser, At
  <2>2. [old EXCEPT !.blocked = TRUE] \in UserRow
    BY <2>1 DEF UserRow
  <2> QED
    BY <1>2, <1>6, <2>1, <2>2 DEF BlockUser, UserRow
<1>7. CASE UnblockUser(r)
  <2>1. old \in UserRow
    BY <1>1, <1>7 DEF UnblockUser, LoadUser, At
  <2>2. [old EXCEPT !.blocked = FALSE] \in UserRow
    BY <2>1 DEF UserRow
  <2>3. LoadUser(r, "unblock", [old EXCEPT !.blocked = FALSE])
    BY <1>7 DEF UnblockUser
  <2> QED
    BY <1>2, <1>7, <2>1, <2>2, <2>3 DEF UserRow
<1>8. ASSUME NEW u \in Users, CompleteInvite(r, u)
      PROVE  Quiet(r) /\ Written(r)
  <2> DEFINE row == [users[u] EXCEPT !.password = TRUE]
  <2>1. u \in DOMAIN users /\ users[u] \in UserRow /\ ~users[u].password
    BY <1>8 DEF CompleteInvite, IdentityInv, TablesOK, TypeOK
  <2>2. /\ RowFor(u, row) /\ row.password /\ row.role = users[u].role
        /\ users[u].blocked => row.blocked
    BY <2>1 DEF RowFor, UserRow
  <2>3. /\ Free(r, "complete_invite") /\ UNCHANGED Tables
        /\ Begin(r, "complete_invite", "update_user", [target |-> u, row |-> row])
    BY <1>8 DEF CompleteInvite, Tables
  <2> HIDE DEF row
  <2>4. Quiet(r) /\ req'[r] = [op |-> "complete_invite", step |-> "update_user",
                               data |-> [target |-> u, row |-> row]]
    BY <2>2, <2>3, ReadsUser
  <2>5. /\ req'[r].step = "update_user" /\ req'[r].data.target = u /\ req'[r].data.row = row
    BY <2>4
  <2> QED
    BY <2>1, <2>2, <2>4, <2>5 DEF Written
<1>9. CASE Login(r) /\ req'[r].step = "touch"
  <2>1. Busy(r) /\ UNCHANGED Tables /\ req[r].step = "login"
    BY <1>9 DEF Login, Busy, Tables
  <2>2. ~Finish(r)
    BY <1>9, <2>1, TurnFinish DEF IdentityInv, Idle
  <2>3. Begin(r, req[r].op, "touch", [target |-> Target(r), row |-> old])
    BY <1>9, <2>2 DEF Login, Continue
  <2>4. Quiet(r) /\ req'[r] = [op |-> req[r].op, step |-> "touch",
                               data |-> [target |-> Target(r), row |-> old]]
    BY <1>1, <2>1, <2>3, ReadsUser
  <2> QED
    BY <1>1, <2>1, <2>4 DEF Written
<1> QED
  BY <1>3, <1>4, <1>5, <1>6, <1>7, <1>8, <1>9 DEF ReadsRow

(* What is written back to a node is the row that was read, or revokes it. *)
WrittenNode(r) ==
  LET q == req'[r] IN
  /\ q.step = "update_node" /\ q.data.node \in DOMAIN nodes
  /\ nodes[q.data.node].status = "revoked" => q.data.row.status = "revoked"

(* The same for a node: only a revocation changes its status. *)
LEMMA ReadsNodeStep ==
  ASSUME IdentityInv, NEW r \in Requests, ReadsNode(r), UNCHANGED <<userTables, teamTables>>
  PROVE  Quiet(r) /\ WrittenNode(r)
<1> DEFINE n == req[r].data.node
<1>1. ASSUME req[r].step = "load_node"
      PROVE  n \in DOMAIN nodes /\ nodes[n] \in NodeRow
  BY <1>1, Remembers DEF IdentityInv, TablesOK, TypeOK, NodeData
<1>2. ASSUME NEW op, NEW row \in NodeRow, LoadNode(r, op, row),
             nodes[n].status = "revoked" => row.status = "revoked"
      PROVE  Quiet(r) /\ WrittenNode(r)
  <2>1. /\ Busy(r) /\ UNCHANGED Tables /\ req[r].step = "load_node"
        /\ Begin(r, req[r].op, "update_node", [node |-> n, row |-> row])
    BY <1>2 DEF LoadNode, At, Busy, Continue, Tables
  <2>2. n \in DOMAIN nodes
    BY <1>1, <2>1
  <2>3. Turn(r) /\ req'[r] = [op |-> req[r].op, step |-> "update_node",
                              data |-> [node |-> n, row |-> row]]
    BY <2>1, TurnBegin DEF IdentityInv
  <2> HIDE DEF n
  <2>4. /\ UserData([op |-> req[r].op, step |-> "update_node", data |-> [node |-> n, row |-> row]])
        /\ NodeData([op |-> req[r].op, step |-> "update_node", data |-> [node |-> n, row |-> row]])
    BY <2>2 DEF UserData, NodeData
  <2>5. Quiet(r)
    BY <2>1, <2>4, QuietBegin
  <2> QED
    BY <1>2, <2>2, <2>3, <2>5 DEF WrittenNode
<1>3. nodes[n] \in NodeRow => Revoked(nodes[n]) \in NodeRow /\ Revoked(nodes[n]).status = "revoked"
  BY DEF NodeRow, Revoked
<1>4. CASE RevokeNode(r)
  BY <1>1, <1>2, <1>3, <1>4 DEF RevokeNode, At
<1>5. CASE AdminRevokeNode(r)
  BY <1>1, <1>2, <1>3, <1>5 DEF AdminRevokeNode, At
<1>6. CASE RenameNode(r)
  BY <1>1, <1>2, <1>6 DEF RenameNode, At
<1> QED
  BY <1>4, <1>5, <1>6 DEF ReadsNode

(* An administrator asks for another role of somebody else. *)
LEMMA RoleRequestStep ==
  ASSUME IdentityInv, NEW r \in Requests, NEW u \in Users, NEW v \in Users,
         NEW role \in {"admin", "member"}, SetUserRoleRequest(r, u, v, role), UNCHANGED nodeTables
  PROVE  /\ Quiet(r) /\ u # v /\ IsAdmin(u)
         /\ req'[r] = [op |-> "role", step |-> "load", data |-> [target |-> v, role |-> role]]
<1> DEFINE data == [target |-> v, role |-> role]
<1>1. /\ Free(r, "role") /\ Begin(r, "role", "load", data) /\ UNCHANGED Tables
      /\ u # v /\ IsAdmin(u) /\ v \in DOMAIN users
  BY DEF SetUserRoleRequest, AdminRequest, ActorFromRequest, Tables
<1>2. /\ UserData([op |-> "role", step |-> "load", data |-> data])
      /\ NodeData([op |-> "role", step |-> "load", data |-> data])
  BY <1>1 DEF UserData, NodeData
<1>3. req'[r] = [op |-> "role", step |-> "load", data |-> data]
  BY <1>1, TurnBegin DEF IdentityInv
<1> QED
  BY <1>1, <1>2, <1>3, QuietBegin

(* A refresh token is looked up. *)
LEMMA RefreshStep ==
  ASSUME IdentityInv, NEW r \in Requests, NEW k \in Tokens, Refresh(r, k), UNCHANGED nodeTables
  PROVE  /\ Quiet(r) /\ ~Busy(r) /\ k \notin usedTokens
         /\ req'[r] = [op |-> "refresh", step |-> "store_used", data |-> [token |-> k]]
<1>1. /\ Free(r, "refresh") /\ Begin(r, "refresh", "store_used", [token |-> k])
      /\ UNCHANGED Tables /\ k \notin usedTokens
  BY DEF Refresh, Tables
<1>2. /\ UserData([op |-> "refresh", step |-> "store_used", data |-> [token |-> k]])
      /\ NodeData([op |-> "refresh", step |-> "store_used", data |-> [token |-> k]])
  BY DEF UserData, NodeData
<1>3. req'[r] = [op |-> "refresh", step |-> "store_used", data |-> [token |-> k]]
  BY <1>1, TurnBegin DEF IdentityInv
<1> QED
  BY <1>1, <1>2, <1>3, QuietBegin DEF Free

(* A request that is given up, and a login that is refused. *)
LEMMA RefusalStep ==
  ASSUME IdentityInv, NEW r \in Requests,
         GiveUp(r) \/ (Login(r) /\ req'[r].step # "touch" /\ UNCHANGED nodeTables)
  PROVE  Elsewhere(r)
<1>1. CASE GiveUp(r)
  BY <1>1, QuietFinish DEF GiveUp, Tables
<1>2. CASE Login(r) /\ req'[r].step # "touch" /\ UNCHANGED nodeTables
  <2>1. Busy(r) /\ UNCHANGED Tables
    BY <1>2 DEF Login, Busy, Tables
  <2>2. ASSUME Begin(r, req[r].op, "touch", [target |-> Target(r), row |-> users[Target(r)]])
        PROVE  FALSE
    <3> DEFINE data == [target |-> Target(r), row |-> users[Target(r)]]
    <3>1. req'[r] = [op |-> req[r].op, step |-> "touch", data |-> data]
      BY <2>1, <2>2, TurnBegin DEF IdentityInv
    <3> QED
      BY <1>2, <3>1
  <2> QED
    BY <1>2, <2>1, <2>2, QuietFinish DEF Login, Continue
<1> QED
  BY <1>1, <1>2

---------------------------------------------------------------------------
(* What is a step: one of the groups. *)

Reads(r) ==
  \/ \E u, v \in Users, role \in {"admin", "member"} : SetUserRoleRequest(r, u, v, role)
  \/ ReadsRow(r)
  \/ \E k \in Tokens : Refresh(r, k)

UsersFrame == UNCHANGED <<userTables, teamTables>>

(* The statements that write users and sessions, and those that write nodes. *)
WritesUsers(r) ==
  \/ \E u \in Users : InsertUser(r, u)
  \/ UpdateUser(r) \/ IssueToken(r) \/ RefreshToken(r)

WritesNodes(r) ==
  (\E n \in Nodes : InsertNode(r, n)) \/ MarkUsed(r) \/ UpdateNode(r)

RequestStep(r) ==
  \/ Elsewhere(r)
  \/ (Reads(r) \/ WritesUsers(r)) /\ UNCHANGED nodeTables
  \/ (ReadsNode(r) \/ WritesNodes(r)) /\ UsersFrame
  \/ WritesAside(r) /\ UNCHANGED userTables

(* Every step of the system is one of a request, of a daemon, or a restart. *)
LEMMA StepGroups ==
  ASSUME IdentityInv, [Next]_vars
  PROVE  \/ UNCHANGED vars
         \/ /\ UNCHANGED workload
            /\ (\E r \in Requests : RequestStep(r)) \/ (DaemonStep /\ UsersFrame) \/ Restart
<1>1. ASSUME UsersNext PROVE \E r \in Requests : RequestStep(r)
  <2>1. PICK r \in Requests :
          \/ QuietUsers(r) \/ Reads(r) \/ WritesUsers(r)
          \/ Login(r) /\ req'[r].step # "touch"
          \/ (\E t \in Teams : InsertTeam(r, t)) \/ AddToTeam(r) \/ RemoveFromTeam(r)
    BY <1>1 DEF UsersNext, QuietUsers, Reads, ReadsRow, WritesUsers
  <2>2. UNCHANGED nodeTables
    BY <1>1 DEF UsersNext
  <2>3. ASSUME (\E t \in Teams : InsertTeam(r, t)) \/ AddToTeam(r) \/ RemoveFromTeam(r)
        PROVE  RequestStep(r)
    BY <2>2, <2>3 DEF RequestStep, WritesAside, InsertTeam, AddToTeam, RemoveFromTeam
  <2> QED
    BY <2>1, <2>2, <2>3, QuietUsersStep, RefusalStep DEF RequestStep
<1>2. ASSUME NodesNext
      PROVE  (\E r \in Requests : RequestStep(r)) \/ (DaemonStep /\ UsersFrame)
  <2>1. UsersFrame
    BY <1>2 DEF NodesNext, UsersFrame
  <2>2. CASE DaemonStep
    BY <2>1, <2>2
  <2>3. ASSUME NEW r \in Requests,
               \/ QuietNodes(r) \/ ReadsNode(r) \/ WritesNodes(r)
               \/ InsertCode(r) \/ GrantAccess(r) \/ WithdrawAccess(r)
        PROVE  RequestStep(r)
    BY <2>1, <2>3, QuietNodesStep DEF RequestStep, WritesAside, UsersFrame
  <2> QED
    BY <1>2, <2>2, <2>3 DEF NodesNext, QuietNodes, ReadsNode, WritesNodes, DaemonStep
<1>3. ASSUME NEW r \in Requests, RemoveTeam(r) \/ GiveUp(r)
      PROVE  RequestStep(r)
  BY <1>3, RefusalStep DEF RequestStep, WritesAside, RemoveTeam, DeleteTeam
<1> QED
  BY <1>1, <1>2, <1>3 DEF Next

---------------------------------------------------------------------------
(* The invariant of the tables and the requests. *)

(* An UPDATE replaces one row. *)
LEMMA OverwriteIs ==
  ASSUME NEW table, NEW row, NEW id \in DOMAIN table
  PROVE  /\ DOMAIN Overwrite(table, id, row) = DOMAIN table
         /\ Overwrite(table, id, row)[id] = row
         /\ \A i \in DOMAIN table \ {id} : Overwrite(table, id, row)[i] = table[i]
BY DEF Overwrite

(* A turn ends with a request that is over, or has well-formed data. *)
LEMMA FinishWell ==
  ASSUME IdentityInv, NEW r \in Requests, Busy(r), Finish(r)
  PROVE  Turn(r) /\ Wellformed(req[r])'
BY TurnFinish, IdleWellformed DEF IdentityInv, Wellformed, UserData, NodeData, Idle

(* The same when the turn goes on with new data ... *)
LEMMA BeginWell ==
  ASSUME IdentityInv, NEW r \in Requests, Busy(r),
         NEW op, NEW step, NEW data, Begin(r, op, step, data),
         UserData([op |-> op, step |-> step, data |-> data])',
         NodeData([op |-> op, step |-> step, data |-> data])'
  PROVE  Turn(r) /\ Wellformed(req[r])'
<1>1. Turn(r) /\ req'[r] = [op |-> op, step |-> step, data |-> data]
  BY TurnBegin DEF IdentityInv
<1>2. UserData(req[r])' /\ NodeData(req[r])'
  BY <1>1 DEF UserData, NodeData, RowFor
<1> QED
  BY <1>1, <1>2 DEF Wellformed

(* ... and when it keeps its data. *)
LEMMA GotoWell ==
  ASSUME IdentityInv, NEW r \in Requests, Busy(r),
         NEW step, NEW q, q = req[r], Goto(r, step),
         UserData([op |-> q.op, step |-> step, data |-> q.data])',
         NodeData([op |-> q.op, step |-> step, data |-> q.data])'
  PROVE  Turn(r) /\ Wellformed(req[r])'
<1>1. Turn(r) /\ req'[r] = [op |-> q.op, step |-> step, data |-> q.data]
  BY TurnGoto DEF IdentityInv
<1>2. UserData(req[r])' /\ NodeData(req[r])'
  BY <1>1 DEF UserData, NodeData, RowFor
<1> QED
  BY <1>1, <1>2 DEF Wellformed

(* A user comes into being. *)
LEMMA InsertUserKeeps ==
  ASSUME IdentityInv, NEW r \in Requests, NEW u \in Users, InsertUser(r, u),
         UNCHANGED <<nodeTables, workload>>
  PROVE  IdentityInv'
<1> DEFINE row == req[r].data.row
<1>1. row \in UserRow /\ AddressOfSubject(row)
  BY Remembers DEF InsertUser, UserData
<1>2. u \notin DOMAIN users /\ EmailFree(row) /\ users' = Put(users, u, row) /\ Busy(r)
  BY DEF InsertUser, Busy
<1> HIDE DEF row
<1>3. /\ DOMAIN users' = DOMAIN users \cup {u} /\ users'[u] = row
      /\ \A v \in DOMAIN users : users'[v] = users[v]
  BY <1>2 DEF Put
<1>4. Grows
  BY <1>3 DEF Grows, nodeTables
<1>5. TablesOK'
  <2>1. invites' \subseteq DOMAIN users' /\ UNCHANGED <<tokens, usedTokens, refreshed, completed>>
    BY <1>3 DEF InsertUser, IdentityInv, TablesOK, TypeOK
  <2> QED
    BY <1>1, <1>3, <2>1
       DEF InsertUser, IdentityInv, TablesOK, TypeOK, AddressOfSubject, teamTables, nodeTables,
           UserRow, NodeRow, CodeRow, Modes
<1>6. OneUserPerPerson'
  <2>1. \A v \in DOMAIN users : users[v].email # row.email
    BY <1>2 DEF EmailFree, FindByEmail
  <2>2. \A v \in DOMAIN users : users[v].subject = row.subject => row.subject = NoSubject
    BY <1>1, <2>1 DEF IdentityInv, TablesOK, AddressOfSubject
  <2> QED
    BY <1>3, <2>1, <2>2 DEF IdentityInv, OneUserPerPerson
<1>7. Turn(r) /\ Wellformed(req[r])'
  <2>1. CASE req[r].op = "invite"
    BY <1>2, <2>1, FinishWell DEF InsertUser
  <2>2. CASE req[r].op # "invite"
    <3>0. PICK op : op = req[r].op
      OBVIOUS
    <3>1. PICK step \in {"issue", "login"} : Begin(r, op, step, [target |-> u])
      BY <2>2, <3>0 DEF InsertUser, Continue
    <3>2. UserData([op |-> op, step |-> step, data |-> [target |-> u]])'
          /\ NodeData([op |-> op, step |-> step, data |-> [target |-> u]])'
      BY <1>3 DEF UserData, NodeData
    <3> QED
      BY <1>2, <3>1, <3>2, BeginWell
  <2> QED
    BY <2>1, <2>2
<1> QED
  BY <1>4, <1>5, <1>6, <1>7, TurnKeeps DEF IdentityInv

(* A row is written back. *)
LEMMA UpdateUserWrites ==
  ASSUME IdentityInv, NEW r \in Requests, UpdateUser(r)
  PROVE  LET u == req[r].data.target
             row == req[r].data.row IN
         /\ RowFor(u, row) /\ Busy(r)
         /\ DOMAIN users' = DOMAIN users /\ users'[u] = row
         /\ \A v \in DOMAIN users \ {u} : users'[v] = users[v]
<1>1. RowFor(req[r].data.target, req[r].data.row)
  BY Remembers DEF UpdateUser, UserData
<1>2. users' = Overwrite(users, req[r].data.target, req[r].data.row) /\ Busy(r)
  BY DEF UpdateUser, Busy
<1> QED
  BY <1>1, <1>2, OverwriteIs DEF RowFor

(* A row is written back that was read before: its address is still its own. *)
LEMMA UpdateUserKeeps ==
  ASSUME IdentityInv, NEW r \in Requests, UpdateUser(r), UNCHANGED <<nodeTables, workload>>
  PROVE  IdentityInv'
<1> DEFINE u == req[r].data.target
           row == req[r].data.row
<1>1. /\ RowFor(u, row) /\ Busy(r)
      /\ DOMAIN users' = DOMAIN users /\ users'[u] = row
      /\ \A v \in DOMAIN users \ {u} : users'[v] = users[v]
  BY UpdateUserWrites
<1>2. completed' \in [Users -> Nat]
  <2>1. completed \in [Users -> Nat] /\ u \in Users
    BY <1>1 DEF RowFor, IdentityInv, TablesOK, TypeOK
  <2>2. PICK n \in {completed[u], completed[u] + 1} : completed' = [completed EXCEPT ![u] = n]
    BY DEF UpdateUser
  <2> QED
    BY <2>1, <2>2
<1>3. Turn(r) /\ Wellformed(req[r])'
  <2>1. CASE Finish(r)
    BY <1>1, <2>1, FinishWell
  <2>2. ASSUME NEW step \in {"issue", "login"}, Goto(r, step)
        PROVE  Turn(r) /\ Wellformed(req[r])'
    <3>1. PICK q : q = req[r]
      OBVIOUS
    <3>2. UserData([op |-> q.op, step |-> step, data |-> q.data])'
          /\ NodeData([op |-> q.op, step |-> step, data |-> q.data])'
      BY <1>1, <3>1 DEF UserData, NodeData, RowFor
    <3> QED
      BY <1>1, <2>2, <3>1, <3>2, GotoWell
  <2> QED
    BY <2>1, <2>2 DEF UpdateUser
<1> HIDE DEF u, row
<1>4. \A v \in DOMAIN users : /\ users'[v].email = users[v].email
                             /\ users'[v].subject = users[v].subject
  BY <1>1 DEF RowFor
<1>5. Grows
  BY <1>1, <1>4 DEF Grows, nodeTables
<1>6. TablesOK'
  <2>1. \A v \in DOMAIN users' : users'[v] \in UserRow /\ AddressOfSubject(users'[v])
    BY <1>1, <1>4 DEF RowFor, IdentityInv, TablesOK, TypeOK, AddressOfSubject
  <2> QED
    BY <1>1, <1>2, <2>1
       DEF UpdateUser, IdentityInv, TablesOK, TypeOK, AddressOfSubject, teamTables, nodeTables,
           UserRow, NodeRow, CodeRow, Modes
<1>7. OneUserPerPerson'
  BY <1>1, <1>4 DEF IdentityInv, OneUserPerPerson
<1> QED
  BY <1>3, <1>5, <1>6, <1>7, TurnKeeps DEF IdentityInv

(* The sessions. *)
LEMMA SessionKeeps ==
  ASSUME IdentityInv, NEW r \in Requests, IssueToken(r) \/ RefreshToken(r),
         UNCHANGED <<nodeTables, workload>>
  PROVE  IdentityInv'
<1>1. /\ Busy(r) /\ Finish(r) /\ UNCHANGED <<users, invites, completed, teams, members>>
  BY DEF IssueToken, RefreshToken, At, Busy, teamTables
<1>2. /\ DOMAIN tokens' \subseteq Tokens /\ usedTokens' \subseteq Tokens
      /\ refreshed' \in [Tokens -> Nat]
  <2>1. CASE IssueToken(r)
    <3>1. UNCHANGED <<usedTokens, refreshed>>
      BY <2>1 DEF IssueToken
    <3>2. CASE Tokens \subseteq DOMAIN tokens
      BY <2>1, <3>1, <3>2 DEF IssueToken, IdentityInv, TablesOK, TypeOK
    <3>3. CASE ~(Tokens \subseteq DOMAIN tokens)
      <4>1. PICK k \in Tokens : tokens' = Put(tokens, k, Target(r))
        BY <2>1, <3>3 DEF IssueToken
      <4>2. DOMAIN tokens' = DOMAIN tokens \cup {k}
        BY <4>1 DEF Put
      <4> QED
        BY <3>1, <4>2 DEF IdentityInv, TablesOK, TypeOK
    <3> QED
      BY <3>2, <3>3
  <2>2. CASE RefreshToken(r)
    <3>1. req[r].data.token \in Tokens
      BY <2>2, Remembers DEF RefreshToken, At, UserData
    <3> QED
      BY <2>2, <3>1 DEF RefreshToken, IdentityInv, TablesOK, TypeOK
  <2> QED
    BY <2>1, <2>2
<1>3. TablesOK' /\ OneUserPerPerson' /\ Grows
  BY <1>1, <1>2 DEF IdentityInv, TablesOK, TypeOK, OneUserPerPerson, Grows, nodeTables,
                    AddressOfSubject, UserRow, NodeRow, CodeRow, Modes
<1> QED
  BY <1>1, <1>3, FinishWell, TurnKeeps DEF IdentityInv

(* The statements of teams, codes and access. *)
LEMMA AsideKeeps ==
  ASSUME IdentityInv, NEW r \in Requests, WritesAside(r), UNCHANGED <<userTables, workload>>
  PROVE  IdentityInv'
<1>1. /\ UNCHANGED <<users, invites, tokens, usedTokens, refreshed, completed>>
      /\ UNCHANGED <<nodes, enrolled, daemonTables>> /\ Busy(r)
  BY DEF WritesAside, InsertTeam, AddToTeam, RemoveFromTeam, RemoveTeam, DeleteTeam, InsertCode,
         GrantAccess, WithdrawAccess, At, Busy, userTables, nodeTables
<1>2. DOMAIN teams' \subseteq Teams /\ \A t \in DOMAIN teams' : teams'[t] \in Slugs
  <2> USE DEF IdentityInv, TablesOK, TypeOK
  <2>1. CASE \E t \in Teams : InsertTeam(r, t)
    <3>1. req[r].data.slug \in Slugs
      BY <2>1, Remembers DEF InsertTeam, At, UserData
    <3> QED
      BY <2>1, <3>1 DEF InsertTeam, Put
  <2>2. CASE RemoveTeam(r)
    BY <2>2 DEF RemoveTeam, DeleteTeam, Without
  <2>3. CASE UNCHANGED teams
    BY <2>3
  <2> QED
    BY <2>1, <2>2, <2>3 DEF WritesAside, AddToTeam, RemoveFromTeam, teamTables
<1>3. /\ DOMAIN codes' \subseteq Codes /\ \A c \in DOMAIN codes' : codes'[c] \in CodeRow
      /\ DOMAIN codes \subseteq DOMAIN codes'
  <2> USE DEF IdentityInv, TablesOK, TypeOK
  <2>1. CASE InsertCode(r)
    <3>1. req[r].data.code \in Codes /\ req[r].data.row \in CodeRow
      BY <2>1, Remembers DEF InsertCode, At, NodeData
    <3> QED
      BY <2>1, <3>1 DEF InsertCode, Put
  <2>2. CASE UNCHANGED codes
    BY <2>2
  <2> QED
    BY <2>1, <2>2 DEF WritesAside, RemoveTeam, GrantAccess, WithdrawAccess, nodeTables
<1>4. TablesOK' /\ OneUserPerPerson' /\ Grows
  BY <1>1, <1>2, <1>3
     DEF IdentityInv, TablesOK, TypeOK, OneUserPerPerson, Grows, AddressOfSubject, UserRow, NodeRow, Modes
<1>5. Turn(r) /\ Wellformed(req[r])'
  <2>1. CASE Finish(r)
    BY <1>1, <2>1, FinishWell
  <2>2. CASE GrantAccess(r)
    <3>1. PICK q : q = req[r]
      OBVIOUS
    <3>2. UserData([op |-> q.op, step |-> "withdraw", data |-> q.data])'
          /\ NodeData([op |-> q.op, step |-> "withdraw", data |-> q.data])'
      BY DEF UserData, NodeData
    <3> QED
      BY <1>1, <2>2, <3>1, <3>2, GotoWell DEF GrantAccess
  <2> QED
    BY <2>1, <2>2 DEF WritesAside, InsertTeam, AddToTeam, RemoveFromTeam, RemoveTeam, DeleteTeam,
                      InsertCode, WithdrawAccess
<1> QED
  BY <1>4, <1>5, TurnKeeps DEF IdentityInv

(* The nodes. *)
LEMMA WritesNodesKeep ==
  ASSUME IdentityInv, NEW r \in Requests, WritesNodes(r), UsersFrame, UNCHANGED workload
  PROVE  IdentityInv'
<1> USE DEF IdentityInv, TablesOK, TypeOK
<1>1. UNCHANGED <<users, invites, tokens, usedTokens, refreshed, completed, teams, members>>
  BY DEF UsersFrame, userTables, teamTables
<1>2. ASSUME DOMAIN codes' = DOMAIN codes, \A c \in DOMAIN codes' : codes'[c] \in CodeRow,
             DOMAIN nodes' \subseteq Nodes, \A n \in DOMAIN nodes' : nodes'[n] \in NodeRow,
             DOMAIN nodes \subseteq DOMAIN nodes', DOMAIN enrolled' \subseteq DOMAIN nodes',
             fresh' \cup refreshing' \cup admitting' \cup connected' \cup touching' \subseteq DOMAIN enrolled',
             Turn(r), Wellformed(req[r])'
      PROVE  IdentityInv'
  <2>1. TablesOK' /\ OneUserPerPerson' /\ Grows
    BY <1>1, <1>2 DEF OneUserPerPerson, Grows, AddressOfSubject, UserRow
  <2> QED
    BY <1>2, <2>1, TurnKeeps
<1>3. ASSUME NEW n \in Nodes, InsertNode(r, n)
      PROVE  IdentityInv'
  <2>1. /\ req[r].data.row \in NodeRow /\ req[r].data.code \in DOMAIN codes
        /\ UNCHANGED <<codes, enrolled, daemonTables>> /\ Busy(r)
    BY <1>3, Remembers DEF InsertNode, At, NodeData, Busy
  <2>2. /\ DOMAIN nodes' = DOMAIN nodes \cup {n} /\ nodes'[n] = req[r].data.row
        /\ \A m \in DOMAIN nodes : nodes'[m] = nodes[m]
    BY <1>3 DEF InsertNode, Put
  <2>3. PICK op, code : op = req[r].op /\ code = req[r].data.code
    OBVIOUS
  <2>4. Begin(r, op, "mark_used", [code |-> code, node |-> n])
    BY <1>3, <2>3 DEF InsertNode, Continue
  <2>5. UserData([op |-> op, step |-> "mark_used", data |-> [code |-> code, node |-> n]])'
        /\ NodeData([op |-> op, step |-> "mark_used", data |-> [code |-> code, node |-> n]])'
    BY <2>1, <2>2, <2>3 DEF UserData, NodeData
  <2>6. Turn(r) /\ Wellformed(req[r])'
    BY <2>1, <2>4, <2>5, BeginWell
  <2> QED
    BY <1>2, <2>1, <2>2, <2>6
<1>4. CASE MarkUsed(r)
  <2>1. /\ req[r].data.code \in DOMAIN codes /\ req[r].data.node \in DOMAIN nodes
        /\ UNCHANGED <<nodes, refreshing, admitting, connected, touching>> /\ Busy(r) /\ Finish(r)
    BY <1>4, Remembers DEF MarkUsed, At, NodeData, Busy
  <2>2. /\ DOMAIN codes' = DOMAIN codes /\ \A c \in DOMAIN codes' : codes'[c] \in CodeRow
    BY <1>4, <2>1 DEF MarkUsed, CodeRow
  <2>3. /\ DOMAIN enrolled' \subseteq DOMAIN nodes
        /\ fresh' \cup refreshing' \cup admitting' \cup connected' \cup touching' \subseteq DOMAIN enrolled'
    BY <1>4, <2>1 DEF MarkUsed, Put
  <2>4. Turn(r) /\ Wellformed(req[r])'
    BY <2>1, FinishWell
  <2> QED
    BY <1>2, <2>1, <2>2, <2>3, <2>4
<1>5. CASE UpdateNode(r)
  <2>1. /\ req[r].data.node \in DOMAIN nodes /\ req[r].data.row \in NodeRow
        /\ UNCHANGED <<codes, enrolled, daemonTables>> /\ Busy(r) /\ Finish(r)
        /\ nodes' = Overwrite(nodes, req[r].data.node, req[r].data.row)
    BY <1>5, Remembers DEF UpdateNode, NodeData, Busy
  <2>2. DOMAIN nodes' = DOMAIN nodes /\ \A n \in DOMAIN nodes : nodes'[n] \in NodeRow
    BY <2>1, OverwriteIs
  <2>3. Turn(r) /\ Wellformed(req[r])'
    BY <2>1, FinishWell
  <2> QED
    BY <1>2, <2>1, <2>2, <2>3
<1> QED
  BY <1>3, <1>4, <1>5 DEF WritesNodes

(* The daemons, and the time. *)
LEMMA DaemonKeeps ==
  ASSUME IdentityInv, DaemonStep, UsersFrame, UNCHANGED workload
  PROVE  IdentityInv'
<1> USE DEF IdentityInv, TablesOK, TypeOK
<1>1. UNCHANGED <<users, invites, tokens, usedTokens, refreshed, completed, teams, members, req>>
  BY DEF UsersFrame, userTables, teamTables, DaemonStep, ExpireCode, RefreshDaemonToken, IssueDaemonToken,
         ExpireToken, AdmitDaemon, ValidateDaemonJWT, Disconnect, UpdateLastSeen
<1>2. /\ DOMAIN codes' = DOMAIN codes /\ \A c \in DOMAIN codes' : codes'[c] \in CodeRow
  <2>1. ASSUME NEW c \in DOMAIN codes
        PROVE  [codes[c] EXCEPT !.expired = TRUE] \in CodeRow
    BY DEF CodeRow
  <2>2. UNCHANGED codes \/ \E c \in DOMAIN codes :
                             codes' = [codes EXCEPT ![c] = [codes[c] EXCEPT !.expired = TRUE]]
    BY DEF DaemonStep, ExpireCode, RefreshDaemonToken, IssueDaemonToken, ExpireToken, AdmitDaemon, ValidateDaemonJWT, Disconnect,
           UpdateLastSeen
  <2> QED
    BY <2>1, <2>2
<1>3. /\ DOMAIN nodes' = DOMAIN nodes /\ \A n \in DOMAIN nodes' : nodes'[n] \in NodeRow
  <2>1. ASSUME NEW n \in DOMAIN nodes
        PROVE  [nodes[n] EXCEPT !.seen = TRUE] \in NodeRow
    BY DEF NodeRow
  <2>2. UNCHANGED nodes \/ \E n \in DOMAIN nodes :
                             nodes' = [nodes EXCEPT ![n] = [nodes[n] EXCEPT !.seen = TRUE]]
    BY DEF DaemonStep, ExpireCode, RefreshDaemonToken, IssueDaemonToken, ExpireToken, AdmitDaemon, ValidateDaemonJWT, Disconnect,
           UpdateLastSeen
  <2> QED
    BY <2>1, <2>2
<1>4. enrolled' = enrolled /\ fresh' \cup refreshing' \cup admitting' \cup connected' \cup touching' \subseteq DOMAIN enrolled
  BY DEF DaemonStep, ExpireCode, RefreshDaemonToken, IssueDaemonToken, ExpireToken, AdmitDaemon, ValidateDaemonJWT, Disconnect,
         UpdateLastSeen
<1>5. TablesOK' /\ OneUserPerPerson' /\ Grows /\ OneAtATime'
  BY <1>1, <1>2, <1>3, <1>4
     DEF OneUserPerPerson, Grows, AddressOfSubject, UserRow, OneAtATime, Busy
<1>6. RequestsOK'
  BY <1>1, <1>2, <1>3 DEF RequestsOK, Wellformed, UserData, NodeData, RowFor, AddressOfSubject,
                          UserRow, NodeRow, CodeRow, Modes
<1> QED
  BY <1>5, <1>6

(* A restart forgets the requests and what was kept in memory. *)
LEMMA RestartKeeps ==
  ASSUME IdentityInv, Restart, UNCHANGED workload
  PROVE  IdentityInv'
<1>1. /\ UNCHANGED <<users, invites, tokens, completed, teams, members, codes, nodes, enrolled, fresh>>
      /\ req' = [r \in Requests |-> Idle] /\ usedTokens' = {} /\ refreshed' = [k \in Tokens |-> 0]
      /\ refreshing' = {} /\ admitting' = {} /\ connected' = {} /\ touching' = {}
  BY DEF Restart, teamTables
<1>2. TablesOK' /\ OneUserPerPerson' /\ Grows
  BY <1>1 DEF IdentityInv, TablesOK, TypeOK, OneUserPerPerson, Grows, AddressOfSubject, UserRow,
              NodeRow, CodeRow, Modes
<1>3. RequestsOK'
  BY <1>1, IdleWellformed DEF RequestsOK, Wellformed, UserData, NodeData, Idle
<1>4. OneAtATime'
  BY <1>1 DEF OneAtATime, Busy, Idle
<1> QED
  BY <1>2, <1>3, <1>4 DEF IdentityInv

(* A quiet step. *)
LEMMA QuietKeeps ==
  ASSUME IdentityInv, NEW r \in Requests, Quiet(r), UNCHANGED workload
  PROVE  IdentityInv'
<1>1. TablesOK' /\ OneUserPerPerson' /\ Grows
  BY DEF Quiet, Tables, userTables, teamTables, nodeTables, IdentityInv, TablesOK, TypeOK,
         OneUserPerPerson, Grows, AddressOfSubject, UserRow, NodeRow, CodeRow, Modes
<1> QED
  BY <1>1, TurnKeeps DEF Quiet, IdentityInv

(* What reads is quiet. *)
LEMMA ReadsQuiet ==
  ASSUME IdentityInv, NEW r \in Requests,
         \/ Elsewhere(r)
         \/ Reads(r) /\ UNCHANGED nodeTables
         \/ ReadsNode(r) /\ UsersFrame
  PROVE  Quiet(r)
<1>1. CASE Reads(r) /\ UNCHANGED nodeTables
  BY <1>1, RoleRequestStep, ReadsRowStep, RefreshStep DEF Reads
<1>2. CASE ReadsNode(r) /\ UsersFrame
  BY <1>2, ReadsNodeStep DEF UsersFrame
<1> QED
  BY <1>1, <1>2 DEF Elsewhere

(* Where a request is after it has read. *)
LEMMA AfterRead ==
  ASSUME IdentityInv, NEW r \in Requests, Reads(r), UNCHANGED nodeTables
  PROVE  /\ Quiet(r)
         /\ \/ Written(r) /\ req'[r].step \in {"update_user", "touch"}
            \/ req'[r].step = "load"
            \/ req'[r].step = "store_used" /\ \E k \in Tokens : Refresh(r, k)
<1>1. ASSUME NEW u \in Users, NEW v \in Users, NEW role \in {"admin", "member"},
             SetUserRoleRequest(r, u, v, role)
      PROVE  req'[r].step = "load"
  <2>1. /\ Quiet(r) /\ u # v /\ IsAdmin(u)
        /\ req'[r] = [op |-> "role", step |-> "load", data |-> [target |-> v, role |-> role]]
    BY <1>1, RoleRequestStep, ZenonT(30)
  <2> QED
    BY <2>1
<1>2. ASSUME NEW k \in Tokens, Refresh(r, k)
      PROVE  req'[r].step = "store_used"
  <2>1. req'[r] = [op |-> "refresh", step |-> "store_used", data |-> [token |-> k]]
    BY <1>2, RefreshStep
  <2> QED
    BY <2>1
<1>3. ReadsRow(r) => Written(r) /\ req'[r].step \in {"update_user", "touch"}
  BY ReadsRowStep DEF Written
<1> QED
  BY <1>1, <1>2, <1>3, ReadsQuiet DEF Reads

(* The seeded users have an address each. *)
LEMMA IdentityInit == Init => IdentityInv
<1> SUFFICES ASSUME Init PROVE IdentityInv
  OBVIOUS
<1> USE DEF Init, HandlersInit, UsersInit, NodesInit
<1>1. /\ DOMAIN users \subseteq {Admin, Member}
      /\ \A u \in DOMAIN users : users[u] \in UserRow /\ users[u].subject = NoSubject
      /\ \A u, v \in DOMAIN users : u # v => users[u].email # users[v].email
  <2> DEFINE admin == [NewUser(EmailOf[Admin], TRUE, NoSubject) EXCEPT !.role = "admin"]
             member == NewUser(EmailOf[Member], TRUE, NoSubject)
             both == [u \in {Admin, Member} |-> IF u = Admin THEN admin ELSE member]
  <2>1. /\ admin \in UserRow /\ admin.subject = NoSubject
        /\ member \in UserRow /\ member.subject = NoSubject
    BY DEF NewUser, UserRow
  <2>2. /\ users = [u \in {Admin} |-> admin] \/ users = both
        /\ \A u, v \in DOMAIN users : u # v => users[u].email # users[v].email
    BY DEF Seeded
  <2> HIDE DEF admin, member
  <2> QED
    BY <2>1, <2>2
<1>2. TablesOK /\ OneUserPerPerson
  BY <1>1 DEF TablesOK, TypeOK, OneUserPerPerson, AddressOfSubject
<1>3. RequestsOK
  BY IdleWellformed DEF RequestsOK
<1>4. OneAtATime
  BY DEF OneAtATime, Busy, Idle
<1> QED
  BY <1>2, <1>3, <1>4 DEF IdentityInv

(* One case for each group of steps. *)
LEMMA IdentityStep == IdentityInv /\ [Next]_vars => IdentityInv'
<1> SUFFICES ASSUME IdentityInv, [Next]_vars PROVE IdentityInv'
  OBVIOUS
<1>1. CASE UNCHANGED vars
  BY <1>1 DEF vars, userTables, teamTables, nodeTables, IdentityInv, TablesOK, TypeOK, RequestsOK,
              Wellformed, UserData, NodeData, RowFor, OneUserPerPerson, OneAtATime, Busy,
              AddressOfSubject, UserRow, NodeRow, CodeRow, Modes
<1>2. ASSUME UNCHANGED workload, NEW r \in Requests, RequestStep(r)
      PROVE  IdentityInv'
  <2>1. CASE WritesUsers(r) /\ UNCHANGED nodeTables
    BY <1>2, <2>1, InsertUserKeeps, UpdateUserKeeps, SessionKeeps DEF WritesUsers
  <2> QED
    BY <1>2, <2>1, ReadsQuiet, QuietKeeps, WritesNodesKeep, AsideKeeps DEF RequestStep
<1> QED
  BY <1>1, <1>2, StepGroups, DaemonKeeps, RestartKeeps

(* The rows are well-formed, whatever the requests remember of earlier ones
   and write back. *)
THEOREM IdentityInvariant == Spec => []IdentityInv
BY IdentityInit, IdentityStep, PTL DEF Spec

(* Types, for any users, nodes and requests. *)
THEOREM TypeCorrect == Spec => []TypeOK
<1>1. IdentityInv => TypeOK
  BY DEF IdentityInv, TablesOK
<1> QED
  BY <1>1, IdentityInvariant, PTL

(* No two users have an address or a person in common, however registrations,
   invitations and first logins overlap. *)
THEOREM OneUserForever == Spec => []OneUserPerPerson
<1>1. IdentityInv => OneUserPerPerson
  BY DEF IdentityInv
<1> QED
  BY <1>1, IdentityInvariant, PTL

---------------------------------------------------------------------------
(* Where a request is after it has written. *)

(* The request is over, or it goes on to something that reads first. *)
LEMMA AfterWrite ==
  ASSUME IdentityInv, NEW r \in Requests
  PROVE  /\ WritesUsers(r) => Turn(r) /\ req'[r].step \in {"idle", "issue", "login"}
         /\ WritesNodes(r) => Turn(r) /\ req'[r].step \in {"idle", "mark_used"}
         /\ UpdateNode(r) \/ MarkUsed(r) => req'[r].step = "idle"
         /\ WritesAside(r) => Turn(r) /\ req'[r].step \in {"idle", "withdraw"}
<1>1. RequestsOK
  BY DEF IdentityInv
<1>2. Busy(r) /\ Finish(r) => Turn(r) /\ req'[r].step = "idle"
  BY <1>1, TurnFinish DEF Idle
<1>3. ASSUME NEW op, NEW step, NEW data, Busy(r), Begin(r, op, step, data)
      PROVE  Turn(r) /\ req'[r].step = step
  <2>1. Turn(r) /\ req'[r] = [op |-> op, step |-> step, data |-> data]
    BY <1>1, <1>3, TurnBegin
  <2> QED
    BY <2>1
<1>4. ASSUME NEW step, Busy(r), Goto(r, step)
      PROVE  Turn(r) /\ req'[r].step = step
  <2>1. Turn(r) /\ req'[r] = [op |-> req[r].op, step |-> step, data |-> req[r].data]
    BY <1>1, <1>4, TurnGoto
  <2> QED
    BY <2>1
<1>5. ASSUME WritesUsers(r) PROVE Turn(r) /\ req'[r].step \in {"idle", "issue", "login"}
  <2>1. ASSUME NEW u \in Users, InsertUser(r, u)
        PROVE  Turn(r) /\ req'[r].step \in {"idle", "issue", "login"}
    BY <1>2, <1>3, <2>1 DEF InsertUser, Continue, Busy
  <2>2. CASE UpdateUser(r)
    BY <1>2, <1>4, <2>2 DEF UpdateUser, Busy
  <2>3. CASE IssueToken(r) \/ RefreshToken(r)
    BY <1>2, <2>3 DEF IssueToken, RefreshToken, At, Busy
  <2> QED
    BY <1>5, <2>1, <2>2, <2>3 DEF WritesUsers
<1>6. ASSUME UpdateNode(r) \/ MarkUsed(r) PROVE Turn(r) /\ req'[r].step = "idle"
  BY <1>2, <1>6 DEF UpdateNode, MarkUsed, At, Busy
<1>7. ASSUME WritesNodes(r) PROVE Turn(r) /\ req'[r].step \in {"idle", "mark_used"}
  <2>1. ASSUME NEW n \in Nodes, InsertNode(r, n)
        PROVE  Turn(r) /\ req'[r].step = "mark_used"
    BY <1>3, <2>1 DEF InsertNode, Continue, At, Busy
  <2> QED
    BY <1>6, <1>7, <2>1 DEF WritesNodes
<1>8. ASSUME WritesAside(r) PROVE Turn(r) /\ req'[r].step \in {"idle", "withdraw"}
  BY <1>2, <1>4, <1>8 DEF WritesAside, InsertTeam, AddToTeam, RemoveFromTeam, RemoveTeam, DeleteTeam,
                          InsertCode, GrantAccess, WithdrawAccess, At, Busy
<1> QED
  BY <1>5, <1>6, <1>7, <1>8

---------------------------------------------------------------------------
(* Requests that do not overlap. *)

(* Nobody else is in the middle of anything. *)
LEMMA OthersIdle ==
  ASSUME IdentityInv, ~workload.overlap, NEW r \in Requests, Turn(r)
  PROVE  \A s \in Requests \ {r} : req'[s].step = "idle"
BY DEF IdentityInv, OneAtATime, Turn, Busy

(* What is left to show of a turn: the request itself, the administrator and
   the invites. *)
LEMMA SequentialTurn ==
  ASSUME IdentityInv, ~workload.overlap, UNCHANGED workload, NEW r \in Requests, Turn(r),
         Current(req[r])', \E u \in DOMAIN users' : users'[u].role = "admin", InviteOver'
  PROVE  SequentialInv'
<1>1. ASSUME NEW s \in Requests PROVE Current(req[s])'
  <2>1. CASE s # r
    BY <2>1, OthersIdle DEF Current
  <2> QED
    BY <2>1
<1> QED
  BY <1>1 DEF SequentialInv, IsAdmin

(* A step that writes no user. *)
LEMMA SequentialSame ==
  ASSUME IdentityInv, SequentialInv, ~workload.overlap, UNCHANGED <<workload, users, completed>>,
         NEW r \in Requests, Turn(r), Current(req[r])'
  PROVE  SequentialInv'
<1>1. InviteOver' /\ \E u \in DOMAIN users' : users'[u].role = "admin"
  BY DEF SequentialInv, InviteOver, IsAdmin
<1> QED
  BY <1>1, SequentialTurn

(* A step that leads to no write of a user. *)
LEMMA NothingToWrite ==
  ASSUME NEW r \in Requests, req'[r].step \notin {"update_user", "touch"},
         ~(req'[r].step = "load" /\ req'[r].op = "role")
  PROVE  Current(req[r])'
BY DEF Current

(* What a request remembers of a user is what his row says. *)
LEMMA SequentialReads ==
  ASSUME IdentityInv, SequentialInv, ~workload.overlap, UNCHANGED <<workload, nodeTables>>,
         NEW r \in Requests, Reads(r)
  PROVE  SequentialInv'
<1>1. Quiet(r) /\ Turn(r) /\ UNCHANGED <<users, completed>>
  BY ReadsQuiet DEF Quiet, Tables, userTables
<1>2. Current(req[r])'
  <2>1. ASSUME NEW u \in Users, NEW v \in Users, NEW role \in {"admin", "member"},
               SetUserRoleRequest(r, u, v, role)
        PROVE  Current(req[r])'
    <3>0. UNCHANGED nodeTables
      OBVIOUS
    <3>1. /\ u # v /\ IsAdmin(u)
          /\ req'[r] = [op |-> "role", step |-> "load", data |-> [target |-> v, role |-> role]]
      BY <2>1, <3>0, RoleRequestStep, Zenon
    <3> QED
      BY <1>1, <3>1 DEF IsAdmin, Current, OtherAdmin
  <2>2. CASE ReadsRow(r)
    <3>1. Written(r) /\ Current(req[r])
      BY <2>2, ReadsRowStep DEF SequentialInv
    <3>2. At(r, "role", "load") => OtherAdmin(Target(r))
      BY <3>1 DEF Current, At, Target
    <3> QED
      BY <1>1, <3>1, <3>2 DEF Written, Current, OtherAdmin
  <2>3. ASSUME NEW k \in Tokens, Refresh(r, k)
        PROVE  Current(req[r])'
    <3>1. req'[r] = [op |-> "refresh", step |-> "store_used", data |-> [token |-> k]]
      BY <2>3, RefreshStep
    <3>2. req'[r].step = "store_used"
      BY <3>1
    <3> QED
      BY <3>2, NothingToWrite
  <2> QED
    BY <2>1, <2>2, <2>3 DEF Reads
<1> QED
  BY <1>1, <1>2, SequentialSame

(* So a role is changed only after the administrators have been counted, and a
   password is set only where there was none. *)
LEMMA SequentialWrites ==
  ASSUME IdentityInv, SequentialInv, ~workload.overlap, UNCHANGED workload,
         NEW r \in Requests, WritesUsers(r)
  PROVE  SequentialInv'
<1>1. Turn(r) /\ Current(req[r])'
  BY AfterWrite, NothingToWrite
<1>2. (\E v \in DOMAIN users : users[v].role = "admin") /\ InviteOver
  BY DEF SequentialInv, IsAdmin
<1>3. ASSUME NEW u \in Users, InsertUser(r, u)
      PROVE  SequentialInv'
  <2>1. /\ DOMAIN users' = DOMAIN users \cup {u} /\ u \notin DOMAIN users
        /\ \A v \in DOMAIN users : users'[v] = users[v]
        /\ completed' = completed
    BY <1>3 DEF InsertUser, Put
  <2>2. InviteOver' /\ \E v \in DOMAIN users' : users'[v].role = "admin"
    BY <1>2, <2>1 DEF InviteOver
  <2> QED
    BY <1>1, <2>2, SequentialTurn
<1>4. CASE UpdateUser(r)
  <2> DEFINE u == req[r].data.target
             row == req[r].data.row
  <2>1. /\ u \in DOMAIN users /\ u \in Users
        /\ DOMAIN users' = DOMAIN users /\ users'[u] = row
        /\ \A v \in DOMAIN users \ {u} : users'[v] = users[v]
    BY <1>4, UpdateUserWrites DEF RowFor, IdentityInv, TablesOK, TypeOK
  <2>2. /\ row.role = users[u].role \/ OtherAdmin(u)
        /\ users[u].password => row.password
        /\ req[r].step = "update_user" /\ req[r].op = "complete_invite" =>
             row.password /\ ~users[u].password
    BY <1>4 DEF SequentialInv, Current, UpdateUser
  <2>3. /\ \A v \in Users \ {u} : completed'[v] = completed[v]
        /\ \/ completed'[u] = completed[u]
           \/ /\ completed'[u] = completed[u] + 1
              /\ req[r].step = "update_user" /\ req[r].op = "complete_invite"
    BY <1>4, <2>1 DEF UpdateUser, IdentityInv, TablesOK
  <2> HIDE DEF u, row
  <2>4. \E v \in DOMAIN users' : users'[v].role = "admin"
    BY <1>2, <2>1, <2>2 DEF OtherAdmin
  <2>5. InviteOver'
    <3>1. completed[u] # 0 => completed[u] = 1 /\ users[u].password
      BY <1>2, <2>1 DEF InviteOver
    <3>2. completed'[u] # 0 => completed'[u] = 1 /\ row.password
      BY <2>2, <2>3, <3>1
    <3>3. \A v \in Users \ {u} :
            completed'[v] # 0 => completed'[v] = 1 /\ v \in DOMAIN users' /\ users'[v].password
      BY <1>2, <2>1, <2>3 DEF InviteOver
    <3> QED
      BY <2>1, <3>2, <3>3 DEF InviteOver
  <2> QED
    BY <1>1, <2>4, <2>5, SequentialTurn
<1>5. CASE IssueToken(r) \/ RefreshToken(r)
  BY <1>1, <1>5, SequentialSame DEF IssueToken, RefreshToken
<1> QED
  BY <1>3, <1>4, <1>5 DEF WritesUsers

(* One case for each group of steps. *)
LEMMA SequentialStep == IdentityInv /\ SequentialInv /\ [Next]_vars => SequentialInv'
<1> SUFFICES ASSUME IdentityInv, SequentialInv, [Next]_vars PROVE SequentialInv'
  OBVIOUS
<1>1. CASE workload.overlap
  <2>1. UNCHANGED workload
    BY DEF Next, vars
  <2> QED
    BY <1>1, <2>1 DEF SequentialInv
<1>2. ASSUME UNCHANGED <<users, completed, req>>, UNCHANGED workload
      PROVE  SequentialInv'
  BY <1>2 DEF SequentialInv, Current, OtherAdmin, InviteOver, IsAdmin
<1>3. ASSUME ~workload.overlap, UNCHANGED workload, NEW r \in Requests, RequestStep(r)
      PROVE  SequentialInv'
  <2>1. CASE Elsewhere(r)
    BY <1>3, <2>1, NothingToWrite, SequentialSame DEF Elsewhere, Quiet, Tables, userTables
  <2>2. CASE ReadsNode(r) /\ UsersFrame
    <3>1. Turn(r) /\ req'[r].step = "update_node" /\ UNCHANGED <<users, completed>>
      BY <2>2, ReadsNodeStep DEF Quiet, WrittenNode, UsersFrame, userTables
    <3> QED
      BY <1>3, <3>1, NothingToWrite, SequentialSame
  <2>3. CASE (WritesNodes(r) /\ UsersFrame) \/ (WritesAside(r) /\ UNCHANGED userTables)
    BY <1>3, <2>3, AfterWrite, NothingToWrite, SequentialSame DEF UsersFrame, userTables
  <2> QED
    BY <1>3, <2>1, <2>2, <2>3, SequentialReads, SequentialWrites DEF RequestStep
<1>4. ASSUME ~workload.overlap, UNCHANGED workload, Restart
      PROVE  SequentialInv'
  BY <1>4 DEF Restart, SequentialInv, Current, InviteOver, IsAdmin, Idle
<1>5. DaemonStep /\ UsersFrame => UNCHANGED <<users, completed, req>>
  BY DEF DaemonStep, UsersFrame, userTables, ExpireCode, RefreshDaemonToken, IssueDaemonToken,
         ExpireToken, AdmitDaemon, ValidateDaemonJWT, Disconnect, UpdateLastSeen
<1> QED
  BY <1>1, <1>2, <1>3, <1>4, <1>5, StepGroups DEF vars, userTables

(* The seeded administrator is one, and nobody has been invited. *)
LEMMA SequentialInit == Init => SequentialInv
<1> SUFFICES ASSUME Init PROVE SequentialInv
  OBVIOUS
<1>1. Admin \in DOMAIN users /\ users[Admin].role = "admin"
  BY DEF Init, UsersInit, Seeded, NewUser
<1> QED
  BY <1>1 DEF Init, HandlersInit, UsersInit, SequentialInv, Current, IsAdmin, InviteOver, Idle

(* Without overlap, what a request knows is true when it writes: an
   administrator is left, and an invite that was used has set a password. *)
THEOREM SequentialInvariant == Spec => []SequentialInv
BY SequentialInit, SequentialStep, IdentityInvariant, PTL DEF Spec

(* An administrator is left as long as requests do not overlap. *)
THEOREM AdminAlwaysRemains == Spec => []AdminRemains
<1>1. SequentialInv => AdminRemains
  BY DEF SequentialInv, AdminRemains
<1> QED
  BY <1>1, SequentialInvariant, PTL

---------------------------------------------------------------------------
(* Refresh tokens. *)

(* Only finitely many requests are about to store a token. *)
LEMMA StoringFinite ==
  ASSUME NEW k
  PROVE  IsFiniteSet(Storing(k)) /\ Cardinality(Storing(k)) \in Nat
<1>1. Storing(k) \subseteq Requests
  BY DEF Storing
<1> QED
  BY <1>1, FS_Subset, FS_CardinalityType

(* The number of uses that requests at a time can make of one token. *)
LEMMA LimitIsNumber == RefreshLimit \in Nat
BY FS_CardinalityType DEF RefreshLimit

(* Fewer requests store k. *)
LEMMA FewerStoring ==
  ASSUME NEW k, NEW S, S = Storing(k)', S \subseteq Storing(k)
  PROVE  Cardinality(S) \in Nat /\ Cardinality(S) <= Cardinality(Storing(k))
BY StoringFinite, FS_Subset, FS_CardinalityType

(* A request that moves, but not to where a token is stored. *)
LEMMA StoringShrinks ==
  ASSUME NEW r \in Requests, Turn(r), req'[r].step # "store_used", NEW k
  PROVE  Storing(k)' \subseteq Storing(k) \ {r}
BY DEF Storing, At, Turn

(* A step that neither looks up a token nor stores one. *)
LEMMA TokensSame ==
  ASSUME IdentityInv, TokenInv, UNCHANGED <<workload, refreshed, usedTokens>>,
         \A k \in Tokens : Storing(k)' \subseteq Storing(k)
  PROVE  TokenInv'
<1> SUFFICES ASSUME NEW k \in Tokens
             PROVE  /\ k \notin usedTokens' => refreshed'[k] = 0
                    /\ refreshed'[k] + Cardinality(Storing(k)') <= RefreshLimit'
  BY DEF TokenInv
<1>1. /\ Cardinality(Storing(k)') \in Nat /\ Cardinality(Storing(k)') <= Cardinality(Storing(k))
      /\ Cardinality(Storing(k)) \in Nat
  BY FewerStoring, StoringFinite
<1>2. RefreshLimit' = RefreshLimit /\ RefreshLimit \in Nat
  BY LimitIsNumber DEF RefreshLimit
<1>3. refreshed[k] \in Nat /\ refreshed'[k] = refreshed[k]
  BY DEF IdentityInv, TablesOK
<1> QED
  BY <1>1, <1>2, <1>3 DEF TokenInv

(* A token that is looked up is not used up. *)
LEMMA TokensLookedUp ==
  ASSUME IdentityInv, TokenInv, UNCHANGED <<workload, nodeTables>>,
         NEW r \in Requests, NEW token \in Tokens, Refresh(r, token)
  PROVE  TokenInv'
<1>1. /\ Turn(r) /\ ~Busy(r) /\ token \notin usedTokens /\ UNCHANGED <<refreshed, usedTokens>>
      /\ req'[r] = [op |-> "refresh", step |-> "store_used", data |-> [token |-> token]]
  BY RefreshStep DEF Quiet, Tables, userTables
<1> SUFFICES ASSUME NEW k \in Tokens
             PROVE  /\ k \notin usedTokens' => refreshed'[k] = 0
                    /\ refreshed'[k] + Cardinality(Storing(k)') <= RefreshLimit'
  BY DEF TokenInv
<1>2. RefreshLimit' = RefreshLimit /\ RefreshLimit \in Nat
  BY LimitIsNumber DEF RefreshLimit
<1>3. refreshed[k] \in Nat /\ refreshed'[k] = refreshed[k]
  BY <1>1 DEF IdentityInv, TablesOK
<1>4. CASE k # token
  <2>1. req'[r].data.token = token
    BY <1>1
  <2>2. Storing(k)' \subseteq Storing(k)
    BY <1>1, <1>4, <2>1 DEF Storing, At, Turn
  <2>3. /\ Cardinality(Storing(k)') \in Nat /\ Cardinality(Storing(k)') <= Cardinality(Storing(k))
        /\ Cardinality(Storing(k)) \in Nat
    BY <2>2, FewerStoring, StoringFinite
  <2> QED
    BY <1>1, <1>2, <1>3, <2>3 DEF TokenInv
<1>5. CASE k = token
  <2>1. refreshed'[k] = 0
    BY <1>1, <1>3, <1>5 DEF TokenInv
  <2>2. CASE workload.overlap
    <3>1. Storing(k)' \subseteq Requests
      BY DEF Storing
    <3>2. Cardinality(Storing(k)') \in Nat /\ Cardinality(Storing(k)') <= Cardinality(Requests)
      BY <3>1, FS_Subset, FS_CardinalityType
    <3> QED
      BY <1>2, <2>1, <2>2, <3>2 DEF RefreshLimit
  <2>3. CASE ~workload.overlap
    <3>1. Storing(k)' \subseteq {r}
      BY <1>1, <2>3, OthersIdle DEF Storing, At
    <3>2. IsFiniteSet({r}) /\ Cardinality({r}) = 1
      BY FS_Singleton
    <3>3. Cardinality(Storing(k)') \in Nat /\ Cardinality(Storing(k)') <= 1
      BY <3>1, <3>2, FS_Subset, FS_CardinalityType
    <3> QED
      BY <1>2, <2>1, <2>3, <3>3 DEF RefreshLimit
  <2> QED
    BY <2>2, <2>3
<1> QED
  BY <1>4, <1>5

(* A request that stores a token makes one use of it, and is one fewer to do so. *)
LEMMA TokensStored ==
  ASSUME IdentityInv, TokenInv, UNCHANGED workload, NEW r \in Requests, RefreshToken(r)
  PROVE  TokenInv'
<1> DEFINE token == req[r].data.token
<1>1. Turn(r) /\ req'[r].step # "store_used"
  BY AfterWrite DEF WritesUsers
<1>2. /\ At(r, "refresh", "store_used") /\ token \in Tokens /\ usedTokens' = usedTokens \cup {token}
      /\ refreshed' = [refreshed EXCEPT ![token] = @ + 1]
  BY Remembers DEF RefreshToken, At, UserData
<1> SUFFICES ASSUME NEW k \in Tokens
             PROVE  /\ k \notin usedTokens' => refreshed'[k] = 0
                    /\ refreshed'[k] + Cardinality(Storing(k)') <= RefreshLimit'
  BY DEF TokenInv
<1>3. RefreshLimit' = RefreshLimit /\ RefreshLimit \in Nat
  BY LimitIsNumber DEF RefreshLimit
<1>4. refreshed \in [Tokens -> Nat] /\ refreshed[k] \in Nat
  BY DEF IdentityInv, TablesOK
<1>5. Storing(k)' \subseteq Storing(k) \ {r}
  BY <1>1, StoringShrinks
<1>6. Cardinality(Storing(k)) \in Nat /\ IsFiniteSet(Storing(k))
  BY StoringFinite
<1>7. CASE k # token
  <2>1. Cardinality(Storing(k)') \in Nat /\ Cardinality(Storing(k)') <= Cardinality(Storing(k))
    BY <1>5, FewerStoring
  <2> QED
    BY <1>2, <1>3, <1>4, <1>6, <1>7, <2>1 DEF TokenInv
<1>8. CASE k = token
  <2>1. r \in Storing(k)
    BY <1>2, <1>8 DEF Storing
  <2>2. IsFiniteSet(Storing(k) \ {r}) /\ Cardinality(Storing(k) \ {r}) = Cardinality(Storing(k)) - 1
    BY <1>6, <2>1, FS_RemoveElement
  <2>3. /\ Cardinality(Storing(k)') \in Nat
        /\ Cardinality(Storing(k)') <= Cardinality(Storing(k)) - 1
    BY <1>5, <2>2, FS_Subset, FS_CardinalityType
  <2>4. refreshed'[k] = refreshed[k] + 1 /\ k \in usedTokens'
    BY <1>2, <1>4, <1>8
  <2> QED
    BY <1>3, <1>4, <1>6, <2>3, <2>4 DEF TokenInv
<1> QED
  BY <1>7, <1>8

(* One case for each group of steps. *)
LEMMA TokensStep == IdentityInv /\ TokenInv /\ [Next]_vars => TokenInv'
<1> SUFFICES ASSUME IdentityInv, TokenInv, [Next]_vars PROVE TokenInv'
  OBVIOUS
<1>1. ASSUME UNCHANGED <<workload, refreshed, usedTokens, req>>
      PROVE  TokenInv'
  BY <1>1, TokensSame DEF Storing, At
<1>2. ASSUME UNCHANGED <<workload, refreshed, usedTokens>>, NEW r \in Requests, Turn(r),
             req'[r].step # "store_used"
      PROVE  TokenInv'
  BY <1>2, StoringShrinks, TokensSame
<1>3. ASSUME UNCHANGED workload, NEW r \in Requests, RequestStep(r)
      PROVE  TokenInv'
  <2>1. CASE Elsewhere(r)
    BY <1>2, <1>3, <2>1 DEF Elsewhere, Quiet, Tables, userTables
  <2>2. CASE Reads(r) /\ UNCHANGED nodeTables
    <3>1. Quiet(r) /\ (req'[r].step = "store_used" => \E k \in Tokens : Refresh(r, k))
      BY <2>2, AfterRead
    <3>2. CASE req'[r].step # "store_used"
      BY <1>2, <1>3, <3>1, <3>2 DEF Quiet, Tables, userTables
    <3>3. CASE req'[r].step = "store_used"
      BY <1>3, <2>2, <3>1, <3>3, TokensLookedUp
    <3> QED
      BY <3>2, <3>3
  <2>3. CASE WritesUsers(r) /\ UNCHANGED nodeTables
    <3>1. Turn(r) /\ req'[r].step # "store_used"
      BY <2>3, AfterWrite
    <3>2. RefreshToken(r) \/ UNCHANGED <<refreshed, usedTokens>>
      BY <2>3 DEF WritesUsers, InsertUser, UpdateUser, IssueToken
    <3> QED
      BY <1>2, <1>3, <3>1, <3>2, TokensStored
  <2>4. CASE (ReadsNode(r) \/ WritesNodes(r)) /\ UsersFrame
    <3>1. Turn(r) /\ req'[r].step # "store_used" /\ UNCHANGED <<refreshed, usedTokens>>
      BY <2>4, ReadsNodeStep, AfterWrite DEF Quiet, WrittenNode, UsersFrame, userTables
    <3> QED
      BY <1>2, <1>3, <3>1
  <2>5. CASE WritesAside(r) /\ UNCHANGED userTables
    BY <1>2, <1>3, <2>5, AfterWrite DEF userTables
  <2> QED
    BY <1>3, <2>1, <2>2, <2>3, <2>4, <2>5 DEF RequestStep
<1>4. ASSUME UNCHANGED workload, Restart
      PROVE  TokenInv'
  <2>1. \A k \in Tokens : Storing(k)' = {} /\ refreshed'[k] = 0
    BY <1>4 DEF Restart, Storing, At, Idle
  <2>2. Cardinality({}) = 0 /\ RefreshLimit' \in Nat
    BY FS_EmptySet, FS_CardinalityType DEF RefreshLimit
  <2> QED
    BY <2>1, <2>2 DEF TokenInv
<1>5. DaemonStep /\ UsersFrame => UNCHANGED <<refreshed, usedTokens, req>>
  BY DEF DaemonStep, UsersFrame, userTables, ExpireCode, RefreshDaemonToken, IssueDaemonToken,
         ExpireToken, AdmitDaemon, ValidateDaemonJWT, Disconnect, UpdateLastSeen
<1> QED
  BY <1>1, <1>3, <1>4, <1>5, StepGroups DEF vars, userTables

(* No token has been used. *)
LEMMA TokensInit == Init => TokenInv
<1> SUFFICES ASSUME Init PROVE TokenInv
  OBVIOUS
<1>1. \A k \in Tokens : Storing(k) = {} /\ refreshed[k] = 0
  BY DEF Init, HandlersInit, UsersInit, Storing, At, Idle
<1>2. Cardinality({}) = 0 /\ RefreshLimit \in Nat
  BY FS_EmptySet, LimitIsNumber
<1> QED
  BY <1>1, <1>2 DEF TokenInv

(* A token is used as often as requests had looked it up at the same time, at
   most: uses and requests that are about to use it make up that number. *)
THEOREM TokenInvariant == Spec => []TokenInv
BY TokensInit, TokensStep, IdentityInvariant, PTL DEF Spec

(* An invite is completed once without overlap, and a refresh token gives one
   access token, or as many as there are requests at once. *)
THEOREM AlwaysUsedOnce == Spec => []UsedOnce
<1>1. IdentityInv /\ SequentialInv /\ TokenInv => UsedOnce
  <2> SUFFICES ASSUME IdentityInv, SequentialInv, TokenInv PROVE UsedOnce
    OBVIOUS
  <2>1. workload.overlap \/ \A u \in Users : completed[u] <= 1
    BY DEF SequentialInv, InviteOver
  <2>2. \A k \in Tokens : refreshed[k] <= RefreshLimit
    BY StoringFinite, LimitIsNumber DEF TokenInv, IdentityInv, TablesOK
  <2> QED
    BY <2>1, <2>2 DEF UsedOnce, RefreshLimit
<1> QED
  BY <1>1, IdentityInvariant, SequentialInvariant, TokenInvariant, PTL

---------------------------------------------------------------------------
(* Enrolment. *)

(* A step that touches no code and no node. *)
LEMMA EnrolSame ==
  ASSUME EnrolInv, enrolled' = enrolled,
         \A c \in DOMAIN codes : c \in DOMAIN codes' /\ codes'[c].usedBy = codes[c].usedBy,
         \A s \in Requests : req'[s] = req[s] \/ req'[s].step # "mark_used"
  PROVE  EnrolInv'
BY DEF EnrolInv, EnrolmentRecorded, At

(* A node is inserted by a request that goes on to mark its code. *)
LEMMA EnrolInserts ==
  ASSUME IdentityInv, EnrolInv, NEW r \in Requests, NEW n \in Nodes, InsertNode(r, n)
  PROVE  EnrolInv'
<1>1. /\ Turn(r) /\ n \notin DOMAIN nodes /\ UNCHANGED <<codes, enrolled>>
      /\ req'[r] = [op |-> req[r].op, step |-> "mark_used",
                    data |-> [code |-> req[r].data.code, node |-> n]]
  BY TurnBegin DEF InsertNode, Continue, At, Busy, IdentityInv
<1>2. req'[r].data.node = n
  BY <1>1
<1>3. n \notin DOMAIN enrolled
  BY <1>1 DEF IdentityInv, TablesOK
<1>4. \A s \in Requests : req[s].step = "mark_used" => req[s].data.node # n
  BY <1>1, Remembers DEF NodeData
<1>5. EnrolmentRecorded' /\ \A m \in DOMAIN enrolled' : enrolled'[m] \in DOMAIN codes'
  BY <1>1 DEF EnrolInv, EnrolmentRecorded
<1>6. ASSUME NEW s \in Requests, At(s, "enrol", "mark_used")'
      PROVE  req'[s].data.node \notin DOMAIN enrolled'
  BY <1>1, <1>2, <1>3, <1>6 DEF EnrolInv, At, Turn
<1>7. ASSUME NEW s \in Requests, NEW t \in Requests, s # t,
             At(s, "enrol", "mark_used")', At(t, "enrol", "mark_used")'
      PROVE  req'[s].data.node # req'[t].data.node
  <2>1. CASE s = r \/ t = r
    BY <1>1, <1>2, <1>4, <1>7, <2>1 DEF At, Turn
  <2>2. CASE s # r /\ t # r
    BY <1>1, <1>7, <2>2 DEF EnrolInv, At, Turn
  <2> QED
    BY <2>1, <2>2
<1> QED
  BY <1>5, <1>6, <1>7 DEF EnrolInv

(* The code is marked, and names the node. *)
LEMMA EnrolMarks ==
  ASSUME IdentityInv, EnrolInv, NEW r \in Requests, MarkUsed(r)
  PROVE  EnrolInv'
<1> DEFINE c == req[r].data.code
           n == req[r].data.node
<1>1. /\ Turn(r) /\ req'[r].step = "idle" /\ At(r, "enrol", "mark_used")
  BY AfterWrite DEF WritesNodes, MarkUsed
<1>2. c \in DOMAIN codes /\ n \in DOMAIN nodes /\ n \in Nodes
  BY <1>1, Remembers DEF At, NodeData, IdentityInv, TablesOK, TypeOK
<1>3. CASE ~Markable(c)
  <2>1. UNCHANGED <<codes, enrolled>>
    BY <1>3 DEF MarkUsed
  <2> QED
    BY <1>1, <2>1, EnrolSame DEF Turn
<1>4. CASE Markable(c)
  <2>1. /\ codes' = [codes EXCEPT ![c].usedBy = n] /\ enrolled' = Put(enrolled, n, c)
        /\ codes[c].usedBy = NoNode /\ codes[c] \in CodeRow
    BY <1>2, <1>4 DEF MarkUsed, Markable, IdentityInv, TablesOK, TypeOK
  <2>2. /\ n \notin DOMAIN enrolled
        /\ \A s \in Requests \ {r} : At(s, "enrol", "mark_used") =>
             /\ req[s].data.node # n /\ req[s].data.node \notin DOMAIN enrolled
    BY <1>1 DEF EnrolInv
  <2> HIDE DEF c, n
  <2>3. /\ DOMAIN codes' = DOMAIN codes /\ codes'[c].usedBy = n
        /\ \A d \in DOMAIN codes \ {c} : codes'[d] = codes[d]
    BY <1>2, <2>1 DEF CodeRow
  <2>4. /\ DOMAIN enrolled' = DOMAIN enrolled \cup {n} /\ enrolled'[n] = c
        /\ \A m \in DOMAIN enrolled : enrolled'[m] = enrolled[m]
    BY <2>1, <2>2 DEF Put
  <2>5. \A m \in DOMAIN enrolled : enrolled[m] \in DOMAIN codes \ {c} /\ codes[enrolled[m]].usedBy = m
    <3>1. DOMAIN enrolled \subseteq Nodes
      BY DEF IdentityInv, TablesOK, TypeOK
    <3> QED
      BY <2>1, <3>1 DEF EnrolInv, EnrolmentRecorded
  <2>6. EnrolmentRecorded' /\ \A m \in DOMAIN enrolled' : enrolled'[m] \in DOMAIN codes'
    BY <1>2, <2>3, <2>4, <2>5 DEF EnrolmentRecorded
  <2>7. ASSUME NEW s \in Requests, At(s, "enrol", "mark_used")'
        PROVE  s # r /\ req'[s] = req[s] /\ At(s, "enrol", "mark_used")
    BY <1>1, <2>7 DEF At, Turn
  <2>8. \A s \in Requests : At(s, "enrol", "mark_used")' => req'[s].data.node \notin DOMAIN enrolled'
    BY <2>2, <2>4, <2>7
  <2>9. \A s, t \in Requests :
          At(s, "enrol", "mark_used")' /\ At(t, "enrol", "mark_used")' /\ s # t =>
            req'[s].data.node # req'[t].data.node
    BY <2>7 DEF EnrolInv
  <2> QED
    BY <2>6, <2>8, <2>9 DEF EnrolInv
<1> QED
  BY <1>3, <1>4

(* One case for each group of steps. *)
LEMMA EnrolStep == IdentityInv /\ EnrolInv /\ [Next]_vars => EnrolInv'
<1> SUFFICES ASSUME IdentityInv, EnrolInv, [Next]_vars PROVE EnrolInv'
  OBVIOUS
<1>1. ASSUME UNCHANGED <<codes, enrolled>>, NEW r \in Requests, Turn(r), req'[r].step # "mark_used"
      PROVE  EnrolInv'
  BY <1>1, EnrolSame DEF Turn
<1>2. ASSUME NEW r \in Requests, RequestStep(r)
      PROVE  EnrolInv'
  <2>1. CASE Elsewhere(r)
    BY <1>1, <2>1 DEF Elsewhere, Quiet, Tables, nodeTables
  <2>2. CASE Reads(r) /\ UNCHANGED nodeTables
    <3>1. Turn(r) /\ req'[r].step # "mark_used"
      BY <2>2, AfterRead DEF Quiet
    <3> QED
      BY <1>1, <2>2, <3>1 DEF nodeTables
  <2>3. CASE WritesUsers(r) /\ UNCHANGED nodeTables
    BY <1>1, <2>3, AfterWrite DEF nodeTables
  <2>4. CASE ReadsNode(r) /\ UsersFrame
    BY <1>1, <2>4, ReadsNodeStep DEF Quiet, WrittenNode, Tables, nodeTables, UsersFrame
  <2>5. CASE UpdateNode(r)
    BY <1>1, <2>5, AfterWrite DEF UpdateNode, WritesNodes
  <2>6. CASE WritesAside(r) /\ UNCHANGED userTables
    <3>1. Turn(r) /\ req'[r].step # "mark_used"
      BY <2>6, AfterWrite
    <3>2. /\ enrolled' = enrolled
          /\ \A c \in DOMAIN codes : c \in DOMAIN codes' /\ codes'[c] = codes[c]
      BY <2>6 DEF WritesAside, InsertCode, GrantAccess, WithdrawAccess, RemoveTeam, nodeTables, Put
    <3> QED
      BY <3>1, <3>2, EnrolSame DEF Turn
  <2> QED
    BY <1>2, <2>1, <2>2, <2>3, <2>4, <2>5, <2>6, EnrolInserts, EnrolMarks DEF RequestStep, WritesNodes
<1>3. CASE Restart
  BY <1>3 DEF Restart, EnrolInv, EnrolmentRecorded, At, Idle
<1>4. CASE DaemonStep
  <2>1. enrolled' = enrolled /\ req' = req
    BY <1>4 DEF DaemonStep, ExpireCode, RefreshDaemonToken, IssueDaemonToken, ExpireToken, AdmitDaemon, ValidateDaemonJWT, Disconnect,
                UpdateLastSeen
  <2>2. ASSUME NEW c \in DOMAIN codes
        PROVE  c \in DOMAIN codes' /\ codes'[c].usedBy = codes[c].usedBy
    BY <1>4 DEF DaemonStep, ExpireCode, RefreshDaemonToken, IssueDaemonToken, ExpireToken, AdmitDaemon, ValidateDaemonJWT, Disconnect,
                UpdateLastSeen, IdentityInv, TablesOK, TypeOK, CodeRow
  <2> QED
    BY <2>1, <2>2, EnrolSame
<1>5. CASE UNCHANGED vars
  BY <1>5, EnrolSame DEF vars, nodeTables
<1> QED
  BY <1>2, <1>3, <1>4, <1>5, StepGroups

(* Every recorded enrolment is that of a code which names the node, and a node
   whose code is still to be marked is recorded nowhere. *)
THEOREM EnrolmentInvariant == Spec => []EnrolInv
<1>1. Init => EnrolInv
  BY DEF Init, HandlersInit, NodesInit, EnrolInv, EnrolmentRecorded, At, Idle
<1> QED
  BY <1>1, EnrolStep, IdentityInvariant, PTL DEF Spec

(* The daemon that has the tokens is the one the code was used by. *)
THEOREM EnrolmentAlwaysRecorded == Spec => []EnrolmentRecorded
<1>1. EnrolInv => EnrolmentRecorded
  BY DEF EnrolInv
<1> QED
  BY <1>1, EnrolmentInvariant, PTL

---------------------------------------------------------------------------
(* What a step may not do. *)

(* What keeps a block settled. *)
KeepsBlocked(u) ==
  /\ u \in DOMAIN users' /\ users'[u].blocked
  /\ \A s \in Requests : \/ req'[s] = req[s]
                         \/ req'[s].step \notin {"update_user", "touch"}
                         \/ req'[s].data.target = u => req'[s].data.row.blocked

(* A settled block stays: no step but the administrator's writes the user otherwise. *)
LEMMA BlockStep ==
  ASSUME IdentityInv, Next, NEW u \in Users, BlockSettled(u), \A r \in Requests : ~UnblockUser(r)
  PROVE  BlockSettled(u)'
<1>1. u \in DOMAIN users /\ users[u].blocked /\ ~WritesUnblocked(u)
  BY DEF BlockSettled
<1>2. ASSUME UNCHANGED users, NEW r \in Requests, Turn(r), req'[r].step \notin {"update_user", "touch"}
      PROVE  KeepsBlocked(u)
  BY <1>1, <1>2 DEF Turn, KeepsBlocked
<1>3. ASSUME NEW r \in Requests, RequestStep(r)
      PROVE  KeepsBlocked(u)
  <2>1. CASE Elsewhere(r)
    BY <1>2, <2>1 DEF Elsewhere, Quiet, Tables, userTables
  <2>2. CASE Reads(r) /\ UNCHANGED nodeTables
    <3>1. Turn(r) /\ UNCHANGED users
      BY <2>2, AfterRead DEF Quiet, Tables, userTables
    <3>2. CASE req'[r].step \notin {"update_user", "touch"}
      BY <1>2, <3>1, <3>2
    <3>3. CASE Written(r)
      <4>1. req'[r].data.target = u => req'[r].data.row.blocked
        BY <1>1, <3>3 DEF Written
      <4> QED
        BY <1>1, <3>1, <4>1 DEF Turn, KeepsBlocked
    <3> QED
      BY <2>2, <3>2, <3>3, AfterRead
  <2>3. CASE WritesUsers(r) /\ UNCHANGED nodeTables
    <3>1. Turn(r) /\ req'[r].step \notin {"update_user", "touch"}
      BY <2>3, AfterWrite
    <3>2. ASSUME NEW v \in Users, InsertUser(r, v)
          PROVE  u \in DOMAIN users' /\ users'[u].blocked
      BY <1>1, <3>2 DEF InsertUser, Put
    <3>3. ASSUME UpdateUser(r)
          PROVE  u \in DOMAIN users' /\ users'[u].blocked
      <4>1. req[r].data.target = u => req[r].data.row.blocked
        BY <1>1, <3>3 DEF UpdateUser, WritesUnblocked, Target
      <4> QED
        BY <1>1, <3>3, <4>1, UpdateUserWrites
    <3>4. ASSUME IssueToken(r) \/ RefreshToken(r)
          PROVE  u \in DOMAIN users' /\ users'[u].blocked
      BY <1>1, <3>4 DEF IssueToken, RefreshToken
    <3>5. u \in DOMAIN users' /\ users'[u].blocked
      BY <2>3, <3>2, <3>3, <3>4 DEF WritesUsers
    <3> QED
      BY <3>1, <3>5 DEF Turn, KeepsBlocked
  <2>4. CASE ReadsNode(r) /\ UsersFrame
    BY <1>2, <2>4, ReadsNodeStep DEF Quiet, WrittenNode, UsersFrame, userTables
  <2>5. CASE (WritesNodes(r) /\ UsersFrame) \/ (WritesAside(r) /\ UNCHANGED userTables)
    BY <1>2, <2>5, AfterWrite DEF UsersFrame, userTables
  <2> QED
    BY <1>3, <2>1, <2>2, <2>3, <2>4, <2>5 DEF RequestStep
<1>4. ASSUME UNCHANGED <<users, req>> PROVE KeepsBlocked(u)
  BY <1>1, <1>4 DEF KeepsBlocked
<1>5. ASSUME Restart PROVE KeepsBlocked(u)
  BY <1>1, <1>5 DEF Restart, Idle, KeepsBlocked
<1>6. DaemonStep /\ UsersFrame => UNCHANGED <<users, req>>
  BY DEF DaemonStep, UsersFrame, userTables, ExpireCode, RefreshDaemonToken, IssueDaemonToken,
         ExpireToken, AdmitDaemon, ValidateDaemonJWT, Disconnect, UpdateLastSeen
<1>7. KeepsBlocked(u)
  BY <1>3, <1>4, <1>5, <1>6, StepGroups DEF vars, userTables
<1> QED
  BY <1>7 DEF KeepsBlocked, BlockSettled, WritesUnblocked, Target

(* A block stays, whatever requests were running when it was set. *)
THEOREM BlockAlwaysStands == Spec => BlockStands
<1>1. IdentityInv /\ [Next]_vars =>
        [\A u \in Users :
           BlockSettled(u) => BlockSettled(u)' \/ \E r \in Requests : UnblockUser(r)]_vars
  BY BlockStep
<1> QED
  BY <1>1, IdentityInvariant, PTL DEF Spec, BlockStands

(* What keeps a revocation settled. *)
KeepsRevoked(n) ==
  /\ n \in DOMAIN nodes' /\ nodes'[n].status = "revoked"
  /\ \A s \in Requests : \/ req'[s] = req[s]
                         \/ req'[s].step # "update_node"
                         \/ req'[s].data.node = n => req'[s].data.row.status # "active"

(* A settled revocation stays. *)
LEMMA RevocationKept ==
  ASSUME IdentityInv, Next, NEW n \in Nodes, RevocationSettled(n)
  PROVE  RevocationSettled(n)'
<1>1. n \in DOMAIN nodes /\ nodes[n].status = "revoked" /\ ~WritesActive(n)
  BY DEF RevocationSettled
<1>2. ASSUME UNCHANGED nodes, NEW r \in Requests, Turn(r), req'[r].step # "update_node"
      PROVE  KeepsRevoked(n)
  BY <1>1, <1>2 DEF Turn, KeepsRevoked
<1>3. ASSUME NEW r \in Requests, RequestStep(r)
      PROVE  KeepsRevoked(n)
  <2>1. CASE Elsewhere(r)
    BY <1>2, <2>1 DEF Elsewhere, Quiet, Tables, nodeTables
  <2>2. CASE Reads(r) /\ UNCHANGED nodeTables
    <3>1. Turn(r) /\ req'[r].step # "update_node" /\ UNCHANGED nodes
      BY <2>2, AfterRead DEF Quiet, nodeTables
    <3> QED
      BY <1>2, <3>1
  <2>3. CASE WritesUsers(r) /\ UNCHANGED nodeTables
    BY <1>2, <2>3, AfterWrite DEF nodeTables
  <2>4. CASE ReadsNode(r) /\ UsersFrame
    <3>1. Turn(r) /\ WrittenNode(r) /\ UNCHANGED nodes
      BY <2>4, ReadsNodeStep DEF Quiet, Tables, nodeTables, UsersFrame
    <3>2. req'[r].data.node = n => req'[r].data.row.status # "active"
      BY <1>1, <3>1 DEF WrittenNode
    <3> QED
      BY <1>1, <3>1, <3>2 DEF Turn, KeepsRevoked
  <2>5. CASE WritesNodes(r) /\ UsersFrame
    <3>1. Turn(r) /\ req'[r].step # "update_node"
      BY <2>5, AfterWrite
    <3>2. ASSUME NEW m \in Nodes, InsertNode(r, m)
          PROVE  n \in DOMAIN nodes' /\ nodes'[n].status = "revoked"
      BY <1>1, <3>2 DEF InsertNode, Put
    <3>3. ASSUME UpdateNode(r)
          PROVE  n \in DOMAIN nodes' /\ nodes'[n].status = "revoked"
      <4>1. /\ req[r].data.node \in DOMAIN nodes /\ req[r].data.row \in NodeRow
            /\ nodes' = Overwrite(nodes, req[r].data.node, req[r].data.row)
        BY <3>3, Remembers DEF UpdateNode, NodeData
      <4>2. req[r].data.node = n => req[r].data.row.status = "revoked"
        BY <1>1, <3>3, <4>1 DEF UpdateNode, WritesActive, NodeRow
      <4> QED
        BY <1>1, <4>1, <4>2, OverwriteIs
    <3>4. CASE MarkUsed(r)
      BY <1>2, <3>1, <3>4 DEF MarkUsed
    <3>5. CASE (\E m \in Nodes : InsertNode(r, m)) \/ UpdateNode(r)
      BY <3>1, <3>2, <3>3, <3>5 DEF Turn, KeepsRevoked
    <3> QED
      BY <2>5, <3>4, <3>5 DEF WritesNodes
  <2>6. CASE WritesAside(r) /\ UNCHANGED userTables
    <3>1. UNCHANGED nodes
      BY <2>6 DEF WritesAside, InsertCode, GrantAccess, WithdrawAccess, RemoveTeam, nodeTables
    <3> QED
      BY <1>2, <2>6, <3>1, AfterWrite
  <2> QED
    BY <1>3, <2>1, <2>2, <2>3, <2>4, <2>5, <2>6 DEF RequestStep
<1>4. ASSUME UNCHANGED <<nodes, req>> PROVE KeepsRevoked(n)
  BY <1>1, <1>4 DEF KeepsRevoked
<1>5. ASSUME Restart PROVE KeepsRevoked(n)
  BY <1>1, <1>5 DEF Restart, Idle, KeepsRevoked
<1>6. ASSUME DaemonStep PROVE KeepsRevoked(n)
  <2>1. req' = req /\ n \in DOMAIN nodes' /\ nodes'[n].status = nodes[n].status
    BY <1>1, <1>6 DEF DaemonStep, ExpireCode, RefreshDaemonToken, IssueDaemonToken, ExpireToken,
                      AdmitDaemon, ValidateDaemonJWT, Disconnect, UpdateLastSeen, IdentityInv,
                      TablesOK, TypeOK, NodeRow
  <2> QED
    BY <1>1, <2>1 DEF KeepsRevoked
<1>7. KeepsRevoked(n)
  BY <1>3, <1>4, <1>5, <1>6, StepGroups DEF vars, nodeTables
<1> QED
  BY <1>7 DEF KeepsRevoked, RevocationSettled, WritesActive

(* The daemon of a revoked node is let in, and gets a token, only by what had
   been accepted before, or gets one from its enrolment. *)
KeptOut(n) ==
  /\ n \in refreshing' => n \in refreshing
  /\ n \in admitting' => n \in admitting
  /\ n \in fresh' => n \in fresh \cup refreshing \/ n \notin DOMAIN enrolled
  /\ n \in connected' => n \in connected \cup admitting

LEMMA RevokedKeptOut ==
  ASSUME IdentityInv, EnrolInv, Next, NEW n \in Nodes, RevocationSettled(n)
  PROVE  KeptOut(n)
<1>1. nodes[n].status = "revoked"
  BY DEF RevocationSettled
<1>2. ASSUME NEW r \in Requests, RequestStep(r), ~MarkUsed(r)
      PROVE  UNCHANGED daemonTables
  BY <1>2, ReadsQuiet DEF RequestStep, Elsewhere, Quiet, Tables, nodeTables, WritesNodes, InsertNode,
        UpdateNode, WritesAside, RemoveTeam, InsertCode, GrantAccess, WithdrawAccess
<1>3. ASSUME NEW r \in Requests, MarkUsed(r)
      PROVE  KeptOut(n)
  BY <1>3 DEF MarkUsed, EnrolInv, KeptOut
<1>4. CASE DaemonStep
  BY <1>1, <1>4 DEF KeptOut, DaemonStep, ExpireCode, RefreshDaemonToken, IssueDaemonToken, ExpireToken,
                    ValidateDaemonJWT, AdmitDaemon, Disconnect, UpdateLastSeen
<1>5. CASE Restart
  BY <1>5 DEF Restart, KeptOut
<1>6. UNCHANGED vars => UNCHANGED daemonTables
  BY DEF vars, nodeTables
<1>7. UNCHANGED daemonTables => KeptOut(n)
  BY DEF KeptOut
<1> QED
  BY <1>2, <1>3, <1>4, <1>5, <1>6, <1>7, StepGroups

(* A revocation stays, and lets nothing through but what had been accepted
   before it, whatever requests were running when it was made. *)
THEOREM RevocationAlwaysFinal == Spec => RevocationFinal
<1>1. IdentityInv /\ EnrolInv /\ [Next]_vars =>
        [\A n \in Nodes :
           RevocationSettled(n) =>
             /\ RevocationSettled(n)'
             /\ n \in refreshing' => n \in refreshing
             /\ n \in admitting' => n \in admitting
             /\ n \in fresh' => n \in fresh \cup refreshing \/ n \notin DOMAIN enrolled
             /\ n \in connected' => n \in connected \cup admitting]_vars
  BY RevocationKept, RevokedKeptOut DEF KeptOut
<1> QED
  BY <1>1, IdentityInvariant, EnrolmentInvariant, PTL DEF Spec, RevocationFinal
=============================================================================
