SPECIFICATION Spec
CONSTANTS
  t1 = t1
  t2 = t2
  t3 = t3
  t4 = t4
  r1 = r1
  r2 = r2
  Tasks <- OneTask
  Existing <- OneTask
  Requests <- TwoRequests
  Operations <- RowOperations
  MaxUsage = 1
  MaxReported = 1
  MaxInteger = 1
SYMMETRY RequestSymmetry
INVARIANTS
  RowsConsistent
  NeverOverCounted
CHECK_DEADLOCK FALSE
