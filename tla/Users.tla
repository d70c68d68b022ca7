------------------------------- MODULE Users -------------------------------
(***************************************************************************)
(* Users, their sessions and their teams: the authentication and team      *)
(* services of internal/identity and the handlers that call them.          *)
(*                                                                         *)
(* A request is accepted when its bearer token is validated, which reads   *)
(* the actor's row; the service then reads the row it is about and writes  *)
(* it back as a whole, so that whatever happened to the row in between is  *)
(* undone.  Display names, e-mail syntax and the rules for a password are  *)
(* left out; a password is only there or not.                              *)
(***************************************************************************)
EXTENDS Handlers

CONSTANTS
  Users,       \* the ids of users that can exist
  Admin,       \* the user that is seeded as administrator
  Member,      \* the user that is seeded as member
  Emails,      \* e-mail addresses
  Subjects,    \* the people the identity provider knows
  EmailOf,     \* the address of a subject, and of the seeded users
  Tokens,      \* refresh tokens
  Teams,       \* the ids of teams that can exist
  Slugs,       \* the slugs teams are given
  NoSubject    \* a user that did not come through the identity provider

(* Everybody whom the identity provider knows has an address, and keeps it. *)
ASSUME UsersAssumption ==
  /\ {Admin, Member} \subseteq Users
  /\ \A p \in {Admin, Member} \cup Subjects : EmailOf[p] \in Emails

VARIABLES
  users,       \* the users table
  teams,       \* the teams table: team -> slug
  members,     \* the rows of team_members: <<team, user>>
  invites,     \* the users an invite token was issued for
  tokens,      \* the refresh tokens issued: token -> user
  usedTokens,  \* usedRefreshTokens: in memory, gone after a restart
  refreshed,   \* history: access tokens got with a refresh token since the start
  completed    \* history: how often the invite of a user was completed

userTables == <<users, invites, tokens, usedTokens, refreshed, completed>>
teamTables == <<teams, members>>

UserRow == [email : Emails, role : {"admin", "member"}, blocked : BOOLEAN,
            password : BOOLEAN, subject : Subjects \cup {NoSubject}]

(* The row of a new user: no provider and no password unless said so. *)
NewUser(email, password, subject) ==
  [email |-> email, role |-> "member", blocked |-> FALSE,
   password |-> password, subject |-> subject]

(* The first start of the server seeds an administrator and then a member;
   if it dies in between, or the configured address of the administrator is
   that of the member, the next start finds a user and seeds no more. *)
Seeded ==
  LET admin == [NewUser(EmailOf[Admin], TRUE, NoSubject) EXCEPT !.role = "admin"]
      member == NewUser(EmailOf[Member], TRUE, NoSubject)
      alone == [u \in {Admin} |-> admin]
      both == [u \in {Admin, Member} |-> IF u = Admin THEN admin ELSE member] IN
  {seed \in {alone, both} :
     \A u, v \in DOMAIN seed : u # v => seed[u].email # seed[v].email}

UsersInit ==
  /\ users \in Seeded
  /\ teams = [t \in {} |-> {}]
  /\ members = {}
  /\ invites = {}
  /\ tokens = [k \in {} |-> {}]
  /\ usedTokens = {}
  /\ refreshed = [k \in Tokens |-> 0]
  /\ completed = [u \in Users |-> 0]

---------------------------------------------------------------------------
(* Accepting a request: ValidateJWT reads the actor's row. *)

Valid(u) == u \in DOMAIN users /\ ~users[u].blocked

IsAdmin(u) == u \in DOMAIN users /\ users[u].role = "admin"

ActorFromRequest(r, op, u) == Free(r, op) /\ Valid(u)

(* The services of this module refuse an actor that was no administrator
   when it was validated, before they do anything else. *)
AdminRequest(r, op, u, step, data) ==
  /\ ActorFromRequest(r, op, u) /\ IsAdmin(u)
  /\ Begin(r, op, step, data)
  /\ UNCHANGED <<userTables, teamTables>>

FindByEmail(email) == {u \in DOMAIN users : users[u].email = email}

FindBySSO(s) == {u \in DOMAIN users : users[u].subject = s}

(* FindByID, and the whole row to be written back. *)
Target(r) == req[r].data.target
LoadUser(r, op, row) ==
  /\ At(r, op, "load")
  /\ Continue(r, "update_user", [target |-> Target(r), row |-> row])
  /\ UNCHANGED <<userTables, teamTables>>

---------------------------------------------------------------------------
(* The operations on one's own row. *)

UpdateProfileRequest(r, u) ==
  /\ ActorFromRequest(r, "profile", u)
  /\ Begin(r, "profile", "load", [target |-> u])
  /\ UNCHANGED <<userTables, teamTables>>

(* Mutant: the row is made up from the request instead of what was read. *)
UpdateProfileRebuilds(r) ==
  LoadUser(r, "profile", [users[Target(r)] EXCEPT !.blocked = FALSE])

UpdateProfile(r) == LoadUser(r, "profile", users[Target(r)])

ChangePasswordRequest(r, u) ==
  /\ ActorFromRequest(r, "password", u)
  /\ Begin(r, "password", "load", [target |-> u])
  /\ UNCHANGED <<userTables, teamTables>>

(* The old password is compared with the stored one: a user without one is
   refused. *)
ChangePassword(r) ==
  /\ At(r, "password", "load") /\ users[Target(r)].password
  /\ LoadUser(r, "password", users[Target(r)])

(* The operations of an administrator on a user. *)

(* Mutant: one can change the own role. *)
SetUserRoleRequestOwn(r, u, target, role) ==
  /\ target \in DOMAIN users
  /\ AdminRequest(r, "role", u, "load", [target |-> target, role |-> role])

SetUserRoleRequest(r, u, target, role) ==
  /\ u # target
  /\ target \in DOMAIN users
  /\ AdminRequest(r, "role", u, "load", [target |-> target, role |-> role])

SetUserRole(r) ==
  LoadUser(r, "role", [users[Target(r)] EXCEPT !.role = req[r].data.role])

BlockUserRequest(r, u, target) ==
  /\ target \in DOMAIN users
  /\ AdminRequest(r, "block", u, "load", [target |-> target])

BlockUser(r) == LoadUser(r, "block", [users[Target(r)] EXCEPT !.blocked = TRUE])

UnblockUserRequest(r, u, target) ==
  /\ target \in DOMAIN users
  /\ AdminRequest(r, "unblock", u, "load", [target |-> target])

UnblockUser(r) == LoadUser(r, "unblock", [users[Target(r)] EXCEPT !.blocked = FALSE])

---------------------------------------------------------------------------
(* Users that come: by registration, by invitation, through the provider. *)

(* Somebody registers; the service looks whether the address is taken. *)
Register(r, email) ==
  /\ Free(r, "register") /\ FindByEmail(email) = {}
  /\ Begin(r, "register", "insert_user", [row |-> NewUser(email, TRUE, NoSubject)])
  /\ UNCHANGED <<userTables, teamTables>>

InviteUserRequest(r, u, email) ==
  AdminRequest(r, "invite", u, "check_email", [email |-> email])

InviteUser(r) ==
  /\ At(r, "invite", "check_email")
  /\ IF FindByEmail(req[r].data.email) = {}
     THEN Continue(r, "insert_user", [row |-> NewUser(req[r].data.email, FALSE, NoSubject)])
     ELSE Finish(r)
  /\ UNCHANGED <<userTables, teamTables>>

(* Mutant: an invite can be completed again. *)
CompleteInviteAgain(r, u) ==
  /\ Free(r, "complete_invite") /\ u \in invites
  /\ Begin(r, "complete_invite", "update_user",
           [target |-> u, row |-> [users[u] EXCEPT !.password = TRUE]])
  /\ UNCHANGED <<userTables, teamTables>>

(* The invite is over once the user has a password. *)
CompleteInvite(r, u) ==
  /\ Free(r, "complete_invite") /\ u \in invites /\ ~users[u].password
  /\ Begin(r, "complete_invite", "update_user",
           [target |-> u, row |-> [users[u] EXCEPT !.password = TRUE]])
  /\ UNCHANGED <<userTables, teamTables>>

(* The browser comes back from the identity provider with a code, which is
   exchanged for an ID token; that is validated and names the subject. *)
Callback(r) ==
  /\ Free(r, "sso")
  /\ Begin(r, "sso", "exchange", [subject |-> NoSubject])
  /\ UNCHANGED <<userTables, teamTables>>

ExchangeCode(r) ==
  /\ At(r, "sso", "exchange")
  /\ Goto(r, "validate")
  /\ UNCHANGED <<userTables, teamTables>>

ValidateIDToken(r, s) ==
  /\ At(r, "sso", "validate")
  /\ Continue(r, "find_subject", [subject |-> s])
  /\ UNCHANGED <<userTables, teamTables>>

(* A known subject only gets its tokens; a new one gets a user first. *)
LoginOIDC(r) ==
  LET s == req[r].data.subject IN
  /\ At(r, "sso", "find_subject")
  /\ IF FindBySSO(s) = {}
     THEN Continue(r, "insert_user", [row |-> NewUser(EmailOf[s], FALSE, s)])
     ELSE Continue(r, "issue", [target |-> CHOOSE u \in FindBySSO(s) : TRUE])
  /\ UNCHANGED <<userTables, teamTables>>

(* Mutant: no UNIQUE constraint on the address. *)
EmailFreeAlways(row) == TRUE

(* The UNIQUE constraint on the address.  The one on provider and subject
   never applies: the stored subject is a different text each time. *)
EmailFree(row) == FindByEmail(row.email) = {}

InsertUser(r, u) ==
  LET row == req[r].data.row IN
  /\ req[r].step = "insert_user"
  /\ u \notin DOMAIN users /\ EmailFree(row)
  /\ users' = Put(users, u, row)
  /\ IF req[r].op = "invite"
     THEN invites' = invites \cup {u} /\ Finish(r)
     ELSE /\ UNCHANGED invites
          /\ Continue(r, IF req[r].op = "sso" THEN "issue" ELSE "login", [target |-> u])
  /\ UNCHANGED <<tokens, usedTokens, refreshed, completed, teamTables>>

UserExists(r) ==
  /\ req[r].step = "insert_user" /\ ~EmailFree(req[r].data.row)
  /\ Finish(r)
  /\ UNCHANGED <<userTables, teamTables>>

---------------------------------------------------------------------------
(* Sessions. *)

LoginRequest(r, u) ==
  /\ Free(r, "login") /\ u \in DOMAIN users
  /\ Begin(r, "login", "login", [target |-> u])
  /\ UNCHANGED <<userTables, teamTables>>

(* Login, which Register and CompleteInvite also end with, refuses a blocked
   user and one without a password, and touches the row it has read. *)
Login(r) ==
  LET row == users[Target(r)] IN
  /\ req[r].step = "login"
  /\ IF ~row.blocked /\ row.password
     THEN Continue(r, "touch", [target |-> Target(r), row |-> row])
     ELSE Finish(r)
  /\ UNCHANGED <<userTables, teamTables>>

(* The UPDATE of the repository ends the request, unless a login comes after
   it; Login ignores whether its own has succeeded. *)
UpdateUser(r) ==
  LET q == req[r] IN
  /\ q.step \in {"update_user", "touch"}
  /\ users' = Overwrite(users, q.data.target, q.data.row)
  /\ \/ q.step = "touch" /\ Goto(r, "issue")
     \/ q.step = "update_user" /\ q.op = "complete_invite" /\ Goto(r, "login")
     \/ q.step = "update_user" /\ q.op # "complete_invite" /\ Finish(r)
  /\ completed' = [completed EXCEPT ![q.data.target] =
                     IF q.op = "complete_invite" /\ q.step = "update_user" THEN @ + 1 ELSE @]
  /\ UNCHANGED <<invites, tokens, usedTokens, refreshed, teamTables>>

TouchFails(r) ==
  /\ req[r].step = "touch"
  /\ Goto(r, "issue")
  /\ UNCHANGED <<userTables, teamTables>>

(* The client gets a refresh token.  Bound: there are only so many. *)
IssueToken(r) ==
  /\ req[r].step = "issue"
  /\ tokens' = IF Tokens \subseteq DOMAIN tokens THEN tokens
               ELSE Put(tokens, CHOOSE k \in Tokens : k \notin DOMAIN tokens, Target(r))
  /\ Finish(r)
  /\ UNCHANGED <<users, invites, usedTokens, refreshed, completed, teamTables>>

(* The token is looked up among the used ones, the user is read, and the
   token is stored as used. *)
Refresh(r, k) ==
  /\ Free(r, "refresh")
  /\ k \in DOMAIN tokens /\ k \notin usedTokens
  /\ Begin(r, "refresh", "store_used", [token |-> k])
  /\ UNCHANGED <<userTables, teamTables>>

RefreshToken(r) ==
  LET k == req[r].data.token IN
  /\ At(r, "refresh", "store_used")
  /\ usedTokens' = usedTokens \cup {k}
  /\ refreshed' = [refreshed EXCEPT ![k] = @ + 1]
  /\ Finish(r)
  /\ UNCHANGED <<users, invites, tokens, completed, teamTables>>

---------------------------------------------------------------------------
(* Teams: an administrator's request, then one statement. *)

CreateTeamRequest(r, u, slug) ==
  AdminRequest(r, "create_team", u, "check_slug", [slug |-> slug])

TeamWithSlug(slug) == {t \in DOMAIN teams : teams[t] = slug}

CreateTeam(r) ==
  /\ At(r, "create_team", "check_slug")
  /\ IF TeamWithSlug(req[r].data.slug) = {} THEN Goto(r, "insert_team") ELSE Finish(r)
  /\ UNCHANGED <<userTables, teamTables>>

(* The slug is UNIQUE: the INSERT fails if somebody was faster. *)
InsertTeam(r, t) ==
  LET slug == req[r].data.slug IN
  /\ At(r, "create_team", "insert_team")
  /\ t \notin DOMAIN teams
  /\ teams' = IF TeamWithSlug(slug) = {} THEN Put(teams, t, slug) ELSE teams
  /\ Finish(r)
  /\ UNCHANGED <<members, userTables>>

DeleteTeamRequest(r, u, t) ==
  /\ t \in DOMAIN teams
  /\ AdminRequest(r, "delete_team", u, "statement", [team |-> t])

SetUserTeamRequest(r, u, t, target) ==
  /\ t \in DOMAIN teams /\ target \in DOMAIN users
  /\ AdminRequest(r, "join", u, "statement", [team |-> t, target |-> target])

RemoveUserFromTeamRequest(r, u, t, target) ==
  /\ <<t, target>> \in members
  /\ AdminRequest(r, "leave", u, "statement", [team |-> t, target |-> target])

AddToTeam(r) ==
  LET q == req[r].data IN
  /\ At(r, "join", "statement")
  /\ members' = IF q.team \in DOMAIN teams
                THEN members \cup {<<q.team, q.target>>} ELSE members
  /\ Finish(r)
  /\ UNCHANGED <<teams, userTables>>

RemoveFromTeam(r) ==
  /\ At(r, "leave", "statement")
  /\ members' = members \ {<<req[r].data.team, req[r].data.target>>}
  /\ Finish(r)
  /\ UNCHANGED <<teams, userTables>>

(* The memberships go with the team. *)
DeleteTeam(r) ==
  LET t == req[r].data.team IN
  /\ At(r, "delete_team", "statement")
  /\ teams' = Without(teams, {t})
  /\ members' = {m \in members : m[1] # t}
  /\ Finish(r)
  /\ UNCHANGED userTables
=============================================================================
