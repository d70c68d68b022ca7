------------------------------- MODULE Agents -------------------------------
(***************************************************************************)
(* Agents (roles), the skills they have, their specialized agents, and the *)
(* projects they work in: the agent, skill and specialized-agent services  *)
(* of internal/server/app with their handlers and statements.              *)
(*                                                                         *)
(* Clients name rows by slug; a request resolves each slug with a SELECT   *)
(* and goes on with the id it got.  Tasks name an agent by its slug, with  *)
(* no foreign key.  Texts, models and sort orders are left out.            *)
(***************************************************************************)
EXTENDS Projects

CONSTANTS
  AgentIDs, SkillIDs, SpecialIDs,  \* the ids of rows
  AgentSlugs, SkillSlugs,          \* slugs; a task has one of AgentSlugs or Nobody
  FirstSlug,       \* the slug of the agent that exists from the start
  Nobody           \* the empty slug: no agent assigned

ASSUME AgentsAssumption == FirstSlug \in AgentSlugs

VARIABLES
  agents,          \* the roles table: id -> slug
  skills,          \* id -> slug
  specials,        \* specialized_agents: id -> [slug, parent]
  agentSkills,     \* rows <<agent, skill>>
  specialSkills,   \* rows <<specialized agent, skill>>
  placed           \* project_agents: rows <<project, agent>>

agentTables == <<agents, skills, specials, agentSkills, specialSkills, placed>>

AgentsInit ==
  /\ \E a \in AgentIDs : agents = [i \in {a} |-> FirstSlug]
  /\ skills = [s \in {} |-> {}]
  /\ specials = [x \in {} |-> {}]
  /\ agentSkills = {} /\ specialSkills = {} /\ placed = {}

(* FindBySlug. *)
Named(table, slug) == {i \in DOMAIN table : table[i] = slug}
NamedSpecial(slug) == {x \in DOMAIN specials : specials[x].slug = slug}

(* A handler that has found the row its URL names; the service looks for it
   again by its id. *)
RowRequest(r, op, table, id, data) ==
  /\ Free(r, op) /\ id \in DOMAIN table
  /\ Begin(r, op, "load", data)
  /\ UNCHANGED agentTables

FindRow(r, op, table, next) ==
  /\ At(r, op, "load")
  /\ IF req[r].data.id \in DOMAIN table THEN Goto(r, next) ELSE Finish(r)
  /\ UNCHANGED agentTables

---------------------------------------------------------------------------
(* Agents. *)

CreateAgent(r, slug) ==
  /\ Named(agents, slug) = {}
  /\ Begin(r, "create_agent", "insert", [slug |-> slug])

CreateAgentRequest(r, slug) ==
  /\ Free(r, "create_agent") /\ CreateAgent(r, slug)
  /\ UNCHANGED agentTables

(* The source is found and the new slug is free. *)
CloneAgent(r, source, slug) ==
  /\ source \in DOMAIN agents /\ Named(agents, slug) = {}
  /\ Begin(r, "clone_agent", "load", [id |-> source, slug |-> slug])

CloneAgentRequest(r, source, slug) ==
  /\ Free(r, "clone_agent") /\ CloneAgent(r, source, slug)
  /\ UNCHANGED agentTables

(* The repository asks for both again. *)
FindSource(r) ==
  /\ At(r, "clone_agent", "load")
  /\ IF req[r].data.id \in DOMAIN agents /\ Named(agents, req[r].data.slug) = {}
     THEN Goto(r, "insert") ELSE Finish(r)
  /\ UNCHANGED agentTables

(* The UNIQUE constraint on the slugs of a table. *)
SlugFree(table, slug) == Named(table, slug) = {}

InsertAgent(r, a) ==
  /\ req[r].op \in {"create_agent", "clone_agent"} /\ req[r].step = "insert"
  /\ a \notin DOMAIN agents
  /\ agents' = IF SlugFree(agents, req[r].data.slug) THEN Put(agents, a, req[r].data.slug) ELSE agents
  /\ Finish(r)
  /\ UNCHANGED <<skills, specials, agentSkills, specialSkills, placed>>

UpdateAgentRequest(r, a) == RowRequest(r, "update_agent", agents, a, [id |-> a])
UpdateAgent(r) == FindRow(r, "update_agent", agents, "update_texts")

(* The UPDATE of texts that are left out here; no row is an error. *)
WriteTexts(r, op) == At(r, op, "update_texts") /\ Finish(r) /\ UNCHANGED agentTables

WriteAgent(r) == WriteTexts(r, "update_agent")

DeleteAgentRequest(r, a) == RowRequest(r, "delete_agent", agents, a, [id |-> a])
DeleteAgent(r) == FindRow(r, "delete_agent", agents, "delete")

(* Mutant: the skills of its specialized agents stay behind. *)
DropAgentShallow(r) ==
  LET a == req[r].data.id IN
  /\ At(r, "delete_agent", "delete")
  /\ agents' = Without(agents, {a})
  /\ specials' = Without(specials, {x \in DOMAIN specials : specials[x].parent = a})
  /\ agentSkills' = {row \in agentSkills : row[1] # a}
  /\ placed' = {row \in placed : row[2] # a}
  /\ Finish(r)
  /\ UNCHANGED <<skills, specialSkills>>

(* The DELETE takes with it the specialized agents and all their rows. *)
DropAgent(r) ==
  LET a == req[r].data.id
      orphans == {x \in DOMAIN specials : specials[x].parent = a} IN
  /\ At(r, "delete_agent", "delete")
  /\ agents' = Without(agents, {a})
  /\ specials' = Without(specials, orphans)
  /\ agentSkills' = {row \in agentSkills : row[1] # a}
  /\ specialSkills' = {row \in specialSkills : row[1] \notin orphans}
  /\ placed' = {row \in placed : row[2] # a}
  /\ Finish(r)
  /\ UNCHANGED skills

---------------------------------------------------------------------------
(* Skills. *)

CreateSkill(r, slug) ==
  /\ Named(skills, slug) = {}
  /\ Begin(r, "create_skill", "insert", [slug |-> slug])

CreateSkillRequest(r, slug) ==
  /\ Free(r, "create_skill") /\ CreateSkill(r, slug)
  /\ UNCHANGED agentTables

InsertSkill(r, s) ==
  /\ At(r, "create_skill", "insert")
  /\ s \notin DOMAIN skills
  /\ skills' = IF SlugFree(skills, req[r].data.slug) THEN Put(skills, s, req[r].data.slug) ELSE skills
  /\ Finish(r)
  /\ UNCHANGED <<agents, specials, agentSkills, specialSkills, placed>>

UpdateSkillRequest(r, s) == RowRequest(r, "update_skill", skills, s, [id |-> s])
UpdateSkill(r) == FindRow(r, "update_skill", skills, "update_texts")
WriteSkill(r) == WriteTexts(r, "update_skill")

DeleteSkillRequest(r, s) == RowRequest(r, "delete_skill", skills, s, [id |-> s])
FindSkill(r) == FindRow(r, "delete_skill", skills, "in_use")

(* Only the skills of agents count, not those of specialized agents. *)
SkillInUse(s) == \E a \in DOMAIN agents : <<a, s>> \in agentSkills

DeleteSkill(r) ==
  /\ At(r, "delete_skill", "in_use")
  /\ IF SkillInUse(req[r].data.id) THEN Finish(r) ELSE Goto(r, "delete")
  /\ UNCHANGED agentTables

DropSkill(r) ==
  LET s == req[r].data.id IN
  /\ At(r, "delete_skill", "delete")
  /\ skills' = Without(skills, {s})
  /\ agentSkills' = {row \in agentSkills : row[2] # s}
  /\ specialSkills' = {row \in specialSkills : row[2] # s}
  /\ Finish(r)
  /\ UNCHANGED <<agents, specials, placed>>

(* A skill of an agent: the agent is found, the skill is found, the row is
   inserted or deleted. *)
PairRequest(r, op, a, slug) ==
  /\ Free(r, op) /\ a \in DOMAIN agents
  /\ Begin(r, op, "find_skill", [agent |-> a, slug |-> slug])
  /\ UNCHANGED agentTables

FindPair(r, op) ==
  /\ At(r, op, "find_skill")
  /\ \/ /\ Named(skills, req[r].data.slug) = {}
        /\ Finish(r)
     \/ \E s \in Named(skills, req[r].data.slug) :
          Continue(r, "write", [agent |-> req[r].data.agent, skill |-> s])
  /\ UNCHANGED agentTables

AddSkillRequest(r, a, slug) == PairRequest(r, "add_skill", a, slug)
AddSkillToAgent(r) == FindPair(r, "add_skill")
RemoveSkillRequest(r, a, slug) == PairRequest(r, "remove_skill", a, slug)
RemoveSkillFromAgent(r) == FindPair(r, "remove_skill")

AssignToAgent(r) ==
  LET q == req[r].data IN
  /\ At(r, "add_skill", "write")
  /\ agentSkills' = IF q.agent \in DOMAIN agents /\ q.skill \in DOMAIN skills
                    THEN agentSkills \cup {<<q.agent, q.skill>>} ELSE agentSkills
  /\ Finish(r)
  /\ UNCHANGED <<agents, skills, specials, specialSkills, placed>>

RemoveFromAgent(r) ==
  LET q == req[r].data IN
  /\ At(r, "remove_skill", "write")
  /\ agentSkills' = agentSkills \ {<<q.agent, q.skill>>}
  /\ Finish(r)
  /\ UNCHANGED <<agents, skills, specials, specialSkills, placed>>

---------------------------------------------------------------------------
(* Specialized agents: an agent of another slug with skills of its own. *)

CreateSpecial(r, parent, slug, wanted) ==
  /\ parent \in DOMAIN agents /\ NamedSpecial(slug) = {}
  /\ Begin(r, "create_special", "insert", [parent |-> parent, slug |-> slug, wanted |-> wanted])

CreateSpecialRequest(r, parent, slug, wanted) ==
  /\ Free(r, "create_special") /\ CreateSpecial(r, parent, slug, wanted)
  /\ UNCHANGED agentTables

(* The skills are resolved only now: an unknown one leaves the agent without. *)
InsertSpecial(r, x) ==
  LET q == req[r].data IN
  /\ At(r, "create_special", "insert")
  /\ x \notin DOMAIN specials
  /\ IF q.parent \in DOMAIN agents /\ NamedSpecial(q.slug) = {}
     THEN /\ specials' = Put(specials, x, [slug |-> q.slug, parent |-> q.parent])
          /\ IF q.wanted = {} THEN Finish(r)
             ELSE Continue(r, "resolve", [special |-> x, wanted |-> q.wanted])
     ELSE Finish(r) /\ UNCHANGED specials
  /\ UNCHANGED <<agents, skills, agentSkills, specialSkills, placed>>

(* A request that leaves the skills alone wants Nothing. *)
UpdateSpecialRequest(r, x, wanted) ==
  RowRequest(r, "update_special", specials, x, [id |-> x, wanted |-> wanted])
UpdateSpecial(r) == FindRow(r, "update_special", specials, "write_special")

WriteSpecial(r) ==
  LET q == req[r].data IN
  /\ At(r, "update_special", "write_special")
  /\ IF q.id \in DOMAIN specials /\ q.wanted # {Nothing}
     THEN Continue(r, "resolve", [special |-> q.id, wanted |-> q.wanted]) ELSE Finish(r)
  /\ UNCHANGED agentTables

ResolveSkills(r) ==
  LET q == req[r].data
      found == {s \in DOMAIN skills : skills[s] \in q.wanted} IN
  /\ req[r].step = "resolve"
  /\ IF \A slug \in q.wanted : Named(skills, slug) # {}
     THEN Continue(r, "clear_skills", [special |-> q.special, skills |-> found]) ELSE Finish(r)
  /\ UNCHANGED agentTables

(* One DELETE and then an INSERT for each skill, not in a transaction. *)
SetSkills(r) ==
  LET q == req[r].data IN
  /\ req[r].step = "clear_skills"
  /\ specialSkills' = {row \in specialSkills : row[1] # q.special}
  /\ Goto(r, "insert_skills")
  /\ UNCHANGED <<agents, skills, specials, agentSkills, placed>>

InsertSpecialSkill(r) ==
  LET q == req[r].data IN
  /\ req[r].step = "insert_skills"
  /\ \/ q.skills = {} /\ Finish(r) /\ UNCHANGED specialSkills
     \/ \E s \in q.skills :
          LET row == <<q.special, s>> IN
          IF q.special \in DOMAIN specials /\ s \in DOMAIN skills /\ row \notin specialSkills
          THEN /\ specialSkills' = specialSkills \cup {row}
               /\ Continue(r, "insert_skills", [q EXCEPT !.skills = @ \ {s}])
          ELSE Finish(r) /\ UNCHANGED specialSkills
  /\ UNCHANGED <<agents, skills, specials, agentSkills, placed>>

DeleteSpecialRequest(r, x) == RowRequest(r, "delete_special", specials, x, [id |-> x])
DeleteSpecial(r) == FindRow(r, "delete_special", specials, "delete")

DropSpecial(r) ==
  LET x == req[r].data.id IN
  /\ At(r, "delete_special", "delete")
  /\ specials' = Without(specials, {x})
  /\ specialSkills' = {row \in specialSkills : row[1] # x}
  /\ Finish(r)
  /\ UNCHANGED <<agents, skills, agentSkills, placed>>

---------------------------------------------------------------------------
(* The agents of a project. *)

AssignAgentRequest(r, p, slug) ==
  /\ Free(r, "assign") /\ p \in DOMAIN projects
  /\ Begin(r, "assign", "find_agent", [project |-> p, slug |-> slug])
  /\ UNCHANGED agentTables

(* The slug is that of a specialized agent, for which its parent is placed,
   or else that of an agent. *)
AssignAgentToProject(r) ==
  LET q == req[r].data
      meant == IF NamedSpecial(q.slug) # {}
               THEN {specials[x].parent : x \in NamedSpecial(q.slug)}
               ELSE Named(agents, q.slug) IN
  /\ At(r, "assign", "find_agent")
  /\ \/ meant = {} /\ Finish(r)
     \/ \E a \in meant : Continue(r, "place", [project |-> q.project, agent |-> a])
  /\ UNCHANGED agentTables

PlaceAgent(r) ==
  LET q == req[r].data IN
  /\ At(r, "assign", "place")
  /\ placed' = IF q.project \in DOMAIN projects /\ q.agent \in DOMAIN agents
               THEN placed \cup {<<q.project, q.agent>>} ELSE placed
  /\ Finish(r)
  /\ UNCHANGED <<agents, skills, specials, agentSkills, specialSkills>>

TasksOf(p, slug) == {t \in DOMAIN tasks : tasks[t].project = p /\ tasks[t].role = slug}

(* The agent is found in the project.  The client says who gets its tasks:
   another slug, Nobody, or Nothing if it has not thought of tasks. *)
RemoveAgentRequest(r, p, a, heir) ==
  /\ Free(r, "remove_agent") /\ <<p, a>> \in placed
  /\ Begin(r, "remove_agent", "list_tasks",
       [project |-> p, agent |-> a, slug |-> agents[a], heir |-> heir])
  /\ UNCHANGED agentTables

(* Mutant: an agent is removed although its tasks are not taken care of. *)
RemoveAgentForgets(r) ==
  LET q == req[r].data IN
  /\ At(r, "remove_agent", "list_tasks")
  /\ Goto(r, IF q.heir = Nothing \/ TasksOf(q.project, q.slug) = {} THEN "remove" ELSE "find_heir")
  /\ UNCHANGED agentTables

RemoveAgentFromProject(r) ==
  LET q == req[r].data IN
  /\ At(r, "remove_agent", "list_tasks")
  /\ \/ TasksOf(q.project, q.slug) = {} /\ Goto(r, "remove")
     \/ TasksOf(q.project, q.slug) # {} /\ q.heir # Nothing /\ Goto(r, "find_heir")
     \/ TasksOf(q.project, q.slug) # {} /\ q.heir = Nothing /\ Finish(r)
  /\ UNCHANGED agentTables

BulkReassignRequest(r, p, slug, heir) ==
  /\ Free(r, "reassign") /\ p \in DOMAIN projects
  /\ Begin(r, "reassign", "find_heir", [project |-> p, slug |-> slug, heir |-> heir])
  /\ UNCHANGED agentTables

BulkReassignTasks(r) ==
  LET q == req[r].data IN
  /\ req[r].step = "find_heir"
  /\ IF q.project \in DOMAIN projects /\ (q.heir = Nobody \/ Named(agents, q.heir) # {})
     THEN Goto(r, "update_tasks") ELSE Finish(r)
  /\ UNCHANGED agentTables

(* One UPDATE for all tasks of the slug in the project. *)
ReassignTasks(r) ==
  LET q == req[r].data IN
  /\ req[r].step = "update_tasks"
  /\ tasks' = [t \in DOMAIN tasks |->
                 IF t \in TasksOf(q.project, q.slug) THEN [tasks[t] EXCEPT !.role = q.heir] ELSE tasks[t]]
  /\ IF req[r].op = "remove_agent" THEN Goto(r, "remove") ELSE Finish(r)
  /\ UNCHANGED agentTables

RemovePlacement(r) ==
  /\ At(r, "remove_agent", "remove")
  /\ placed' = placed \ {<<req[r].data.project, req[r].data.agent>>}
  /\ Finish(r)
  /\ UNCHANGED <<agents, skills, specials, agentSkills, specialSkills>>
=============================================================================
