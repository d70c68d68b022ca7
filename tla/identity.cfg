SPECIFICATION Spec
CONSTANTS
  u1 = u1
  u2 = u2
  u3 = u3
  e1 = e1
  e2 = e2
  e3 = e3
  s1 = s1
  s2 = s2
  k1 = k1
  tm1 = tm1
  tm2 = tm2
  n1 = n1
  n2 = n2
  c1 = c1
  r1 = r1
  r2 = r2
  Requests = {r1, r2}
  Workloads <- AllWorkloads
  Users = {u1, u2, u3}
  Admin = u1
  Member = u2
  Emails = {e1, e2, e3}
  Subjects = {s1, s2}
  EmailOf <- Addresses
  Tokens = {k1}
  Teams = {tm1, tm2}
  Slugs = {"red"}
  NoSubject = NoSubject
  Nodes = {n1, n2}
  Codes = {c1}
  NoNode = NoNode
  Grantees = {u2, tm1}
INVARIANTS
  OneUserPerPerson
  AdminRemains
  UsedOnce
  EnrolmentRecorded
PROPERTIES
  BlockStands
  RevocationFinal
SYMMETRY Interchangeable
