SPECIFICATION ClientSpec
CONSTANTS
  t1 = t1
  t2 = t2
  t3 = t3
  t4 = t4
  t5 = t5
  r1 = r1
  r2 = r2
  a1 = a1
  Tasks = {t1, t2, t3, t4, t5}
  Existing = {t1, t3}
  Requests = {r1, r2, a1}
  Agents = {a1}
  Operations <- AllOperations
  MaxUsage = 0
  MaxReported = 0
  MaxInteger = 9
  ProjectOf <- Place
  ChildrenOf <- Family
  PriorityOf <- Urgency
  CreatedAt <- Age
  RoleOf <- Assigned
  Questions <- Queries
  MaxCount = 2
  ProxyProject <- SubOnly
  Batches <- TwoBatches
  LinkLists <- TwoLists
  Workloads <- AllWorkloads
  MaxEvents = 2
  MaxLoads = 2
INVARIANTS
  PageCurrent
  RankedAnswer
  BatchInOrder
SYMMETRY OtherRequests
CHECK_DEADLOCK FALSE
