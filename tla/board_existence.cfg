SPECIFICATION Spec
CONSTANTS
  t1 = t1
  t2 = t2
  t3 = t3
  t4 = t4
  r1 = r1
  r2 = r2
  Tasks <- FourTasks
  Existing <- TwoTasks
  Requests <- TwoRequests
  Operations <- ExistenceOperations
  MaxUsage = 0
  MaxReported = 0
  MaxInteger = 0
SYMMETRY RequestSymmetry
INVARIANTS
  DependenciesJoinTasks
  NeverDuplicated
PROPERTIES
  DeletedStaysDeleted
CHECK_DEADLOCK FALSE
