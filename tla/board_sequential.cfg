SPECIFICATION Spec
CONSTANTS
  t1 = t1
  t2 = t2
  t3 = t3
  t4 = t4
  r1 = r1
  r2 = r2
  Tasks <- TwoTasks
  Existing <- NoTask
  Requests <- OneRequest
  Operations <- SequentialOperations
  MaxUsage = 1
  MaxReported = 2
  MaxInteger = 1
INVARIANTS
  TypeOK
  TokensAccounted
  DependenciesAcyclic
PROPERTIES
  StartsAfterDependencies
  BlockIsLiftedExplicitly
  RefinesLifecycle

CHECK_DEADLOCK FALSE
