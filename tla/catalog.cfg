SPECIFICATION Spec
CONSTANTS
  p1 = p1
  p2 = p2
  p3 = p3
  f1 = f1
  f2 = f2
  d1 = d1
  d2 = d2
  n1 = n1
  t1 = t1
  c1 = c1
  a1 = a1
  a2 = a2
  s1 = s1
  s2 = s2
  x1 = x1
  x2 = x2
  alice = alice
  red = red
  r1 = r1
  r2 = r2
  Requests = {r1, r2}
  Workloads <- AllWorkloads
  ProjectIDs = {p1, p2, p3}
  FeatureIDs = {f1, f2}
  DockerfileIDs = {d1, d2}
  NotificationIDs = {n1}
  TaskIDs = {t1}
  CommentIDs = {c1}
  TeamsOf <- Membership
  Images <- Versions
  Home = p1
  Nothing = Nothing
  AgentIDs = {a1, a2}
  SkillIDs = {s1, s2}
  SpecialIDs = {x1, x2}
  AgentSlugs = {"coder", "tester"}
  SkillSlugs = {"sql", "git"}
  FirstSlug = "coder"
  Nobody = "nobody"
INVARIANTS
  ReferencesHold
  OneLatest
  BreadcrumbSound
PROPERTIES
  DoneIsFinal
  UsedIsKept
  ReassignedFirst
SYMMETRY Interchangeable
CHECK_DEADLOCK FALSE
