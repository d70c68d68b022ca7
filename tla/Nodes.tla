------------------------------- MODULE Nodes -------------------------------
(***************************************************************************)
(* Nodes, the machines daemons run on: onboarding with a code that somebody*)
(* reads to the daemon, access to shared nodes, revocation, and the tokens *)
(* daemons connect with.  A code is the row of its six digits, which are   *)
(* UNIQUE over used and unused codes; a node is never deleted.             *)
(***************************************************************************)
EXTENDS Users

CONSTANTS
  Nodes,       \* the ids of nodes that can exist
  Codes,       \* the six digits that can be drawn
  NoNode,      \* a code that was not used
  Grantees     \* the users and teams that are given access to nodes

ASSUME NodesAssumption == NoNode \notin Nodes

VARIABLES
  codes,       \* the onboarding_codes table
  nodes,       \* the nodes table
  access,      \* the rows of node_access: <<node, user or team>>
  enrolled,    \* history: the code a daemon got its refresh token for
  fresh,       \* the nodes whose daemon has an access token that is not expired
  refreshing,  \* the nodes whose refresh token was accepted for a new one
  admitting,   \* the nodes whose access token was accepted for a connection
  connected,   \* the nodes whose daemon was let in
  touching     \* the nodes whose last_seen_at is about to be set

daemonTables == <<fresh, refreshing, admitting, connected, touching>>
nodeTables == <<codes, nodes, access, enrolled, daemonTables>>

Modes == {"default", "shared"}

NodeRow == [owner : Users, mode : Modes, status : {"active", "revoked"},
            key : BOOLEAN,    \* the hash of the refresh token is there
            seen : BOOLEAN]   \* last_seen_at

CodeRow == [owner : Users, mode : Modes, expired : BOOLEAN,
            usedBy : Nodes \cup {NoNode}]

NodesInit ==
  /\ codes = [c \in {} |-> {}]
  /\ nodes = [n \in {} |-> {}]
  /\ access = {}
  /\ enrolled = [n \in {} |-> {}]
  /\ fresh = {} /\ refreshing = {}
  /\ admitting = {} /\ connected = {}
  /\ touching = {}

---------------------------------------------------------------------------
(* Onboarding codes. *)

GenerateCodeRequest(r, u, mode) ==
  /\ ActorFromRequest(r, "code", u)
  /\ Begin(r, "code", "draw", [owner |-> u, mode |-> mode])
  /\ UNCHANGED nodeTables

(* Three draws at most, until no unused code has the digits; whatever the
   last draw is goes to the INSERT. *)
GenerateCode(r, c) ==
  /\ At(r, "code", "draw")
  /\ Continue(r, "insert_code",
              [code |-> c, row |-> [owner |-> req[r].data.owner, mode |-> req[r].data.mode,
                                    expired |-> FALSE, usedBy |-> NoNode]])
  /\ UNCHANGED nodeTables

InsertCode(r) ==
  LET c == req[r].data.code IN
  /\ At(r, "code", "insert_code")
  /\ codes' = IF c \in DOMAIN codes THEN codes ELSE Put(codes, c, req[r].data.row)
  /\ Finish(r)
  /\ UNCHANGED <<nodes, access, enrolled, daemonTables>>

(* A quarter of an hour goes by. *)
ExpireCode(c) ==
  /\ Offered("expire")
  /\ c \in DOMAIN codes /\ ~codes[c].expired
  /\ codes' = [codes EXCEPT ![c].expired = TRUE]
  /\ UNCHANGED <<nodes, access, enrolled, daemonTables, req>>

(* FindByCode sees the unused codes. *)
Usable(c) ==
  c \in DOMAIN codes /\ codes[c].usedBy = NoNode /\ ~codes[c].expired

CompleteOnboarding(r, c) ==
  /\ Free(r, "enrol") /\ Usable(c)
  /\ Begin(r, "enrol", "insert_node",
           [code |-> c, row |-> [owner |-> codes[c].owner, mode |-> codes[c].mode,
                                 status |-> "active", key |-> TRUE, seen |-> FALSE]])
  /\ UNCHANGED nodeTables

InsertNode(r, n) ==
  /\ At(r, "enrol", "insert_node")
  /\ n \notin DOMAIN nodes
  /\ nodes' = Put(nodes, n, req[r].data.row)
  /\ Continue(r, "mark_used", [code |-> req[r].data.code, node |-> n])
  /\ UNCHANGED <<codes, access, enrolled, daemonTables>>

(* Mutant: the code is not looked at again under the lock. *)
MarkableAlways(c) == TRUE

(* The row of the code is locked and looked at again. *)
Markable(c) == codes[c].usedBy = NoNode /\ ~codes[c].expired

(* If the code is gone by now, the request fails and its node stays. *)
MarkUsed(r) ==
  LET q == req[r].data IN
  /\ At(r, "enrol", "mark_used")
  /\ IF Markable(q.code)
     THEN /\ codes' = [codes EXCEPT ![q.code].usedBy = q.node]
          /\ enrolled' = Put(enrolled, q.node, q.code)
          /\ fresh' = fresh \cup {q.node}
     ELSE UNCHANGED <<codes, enrolled, fresh>>
  /\ Finish(r)
  /\ UNCHANGED <<nodes, access, refreshing, admitting, connected, touching>>

---------------------------------------------------------------------------
(* Revoking and renaming a node: a read, and an UPDATE of the whole row. *)

NodeRequest(r, op, u, n) ==
  /\ ActorFromRequest(r, op, u) /\ n \in DOMAIN nodes
  /\ Begin(r, op, "load_node", [actor |-> u, node |-> n])
  /\ UNCHANGED nodeTables

RevokeNodeRequest(r, u, n) == NodeRequest(r, "revoke_node", u, n)

AdminRevokeNodeRequest(r, u, n) == IsAdmin(u) /\ NodeRequest(r, "admin_revoke_node", u, n)

RenameNodeRequest(r, u, n) == NodeRequest(r, "rename_node", u, n)

LoadNode(r, op, row) ==
  /\ At(r, op, "load_node")
  /\ Continue(r, "update_node", [node |-> req[r].data.node, row |-> row])
  /\ UNCHANGED nodeTables

Owns(r) == nodes[req[r].data.node].owner = req[r].data.actor

Revoked(row) == [row EXCEPT !.status = "revoked", !.key = FALSE]

RevokeNode(r) ==
  LET row == nodes[req[r].data.node] IN
  /\ At(r, "revoke_node", "load_node")
  /\ Owns(r) /\ row.status = "active"
  /\ LoadNode(r, "revoke_node", Revoked(row))

AdminRevokeNode(r) ==
  LET row == nodes[req[r].data.node] IN
  /\ At(r, "admin_revoke_node", "load_node") /\ row.status = "active"
  /\ LoadNode(r, "admin_revoke_node", Revoked(row))

(* Mutant: a rename puts the node into service. *)
RenameNodeActivates(r) ==
  /\ At(r, "rename_node", "load_node") /\ Owns(r)
  /\ LoadNode(r, "rename_node", [nodes[req[r].data.node] EXCEPT !.status = "active"])

(* The name is not in the model: what matters is the rest of the row. *)
RenameNode(r) ==
  /\ At(r, "rename_node", "load_node") /\ Owns(r)
  /\ LoadNode(r, "rename_node", nodes[req[r].data.node])

(* A node that is not theirs, or is revoked already. *)
NodeRefused(r) ==
  /\ req[r].step = "load_node"
  /\ \/ req[r].op # "admin_revoke_node" /\ ~Owns(r)
     \/ req[r].op \in {"revoke_node", "admin_revoke_node"}
        /\ nodes[req[r].data.node].status = "revoked"
     \/ req[r].op = "access" /\ nodes[req[r].data.node].mode = "default"
  /\ Finish(r)
  /\ UNCHANGED nodeTables

UpdateNode(r) ==
  /\ req[r].step = "update_node"
  /\ nodes' = Overwrite(nodes, req[r].data.node, req[r].data.row)
  /\ Finish(r)
  /\ UNCHANGED <<codes, access, enrolled, daemonTables>>

---------------------------------------------------------------------------
(* Access to a shared node: one statement for each grant, then one for each
   withdrawal. *)

UpdateAccessRequest(r, u, n, grant, withdraw) ==
  /\ ActorFromRequest(r, "access", u) /\ n \in DOMAIN nodes
  /\ Begin(r, "access", "load_node", [actor |-> u, node |-> n,
                                      grant |-> grant, withdraw |-> withdraw])
  /\ UNCHANGED nodeTables

UpdateNodeAccess(r) ==
  /\ At(r, "access", "load_node")
  /\ Owns(r) /\ nodes[req[r].data.node].mode = "shared"
  /\ Goto(r, "grant")
  /\ UNCHANGED nodeTables

Exists(g) == g \in DOMAIN users \cup DOMAIN teams

GrantAccess(r) ==
  LET q == req[r].data IN
  /\ At(r, "access", "grant") /\ Exists(q.grant)
  /\ access' = access \cup {<<q.node, q.grant>>}
  /\ Goto(r, "withdraw")
  /\ UNCHANGED <<codes, nodes, enrolled, daemonTables>>

(* The foreign key: nothing after it is done. *)
GrantFails(r) ==
  /\ At(r, "access", "grant") /\ ~Exists(req[r].data.grant)
  /\ Finish(r)
  /\ UNCHANGED nodeTables

WithdrawAccess(r) ==
  LET q == req[r].data IN
  /\ At(r, "access", "withdraw")
  /\ access' = access \ {<<q.node, q.withdraw>>}
  /\ Finish(r)
  /\ UNCHANGED <<codes, nodes, enrolled, daemonTables>>

---------------------------------------------------------------------------
(* The daemon of a node.  It is let in, and gets a new access token, a while
   after its node was found active: what becomes of the node meanwhile is not
   looked at. *)

(* It shows its refresh token. *)
RefreshDaemonToken(n) ==
  /\ Offered("daemon")
  /\ n \in DOMAIN enrolled
  /\ nodes[n].status = "active" /\ nodes[n].key
  /\ refreshing' = refreshing \cup {n}
  /\ UNCHANGED <<codes, nodes, access, enrolled, fresh, admitting, connected, touching, req>>

(* The answer may be lost. *)
IssueDaemonToken(n) ==
  /\ n \in refreshing
  /\ refreshing' = refreshing \ {n}
  /\ fresh' \in {fresh, fresh \cup {n}}
  /\ UNCHANGED <<codes, nodes, access, enrolled, admitting, connected, touching, req>>

ExpireToken(n) ==
  /\ Offered("daemon")
  /\ n \in fresh
  /\ fresh' = fresh \ {n}
  /\ UNCHANGED <<codes, nodes, access, enrolled, refreshing, admitting, connected, touching, req>>

(* It asks for a connection; last_seen_at is set in the background. *)
ValidateDaemonJWT(n) ==
  /\ Offered("daemon")
  /\ n \in fresh /\ n \notin connected
  /\ nodes[n].status = "active"
  /\ admitting' = admitting \cup {n}
  /\ touching' = touching \cup {n}
  /\ UNCHANGED <<codes, nodes, access, enrolled, fresh, refreshing, connected, req>>

(* The upgrade of the connection may fail. *)
AdmitDaemon(n) ==
  /\ n \in admitting
  /\ admitting' = admitting \ {n}
  /\ connected' \in {connected, connected \cup {n}}
  /\ UNCHANGED <<codes, nodes, access, enrolled, fresh, refreshing, touching, req>>

Disconnect(n) ==
  /\ n \in connected
  /\ connected' = connected \ {n}
  /\ UNCHANGED <<codes, nodes, access, enrolled, fresh, refreshing, admitting, touching, req>>

UpdateLastSeen(n) ==
  /\ n \in touching
  /\ touching' = touching \ {n}
  /\ nodes' = [nodes EXCEPT ![n].seen = TRUE]
  /\ UNCHANGED <<codes, access, enrolled, fresh, refreshing, admitting, connected, req>>
=============================================================================
