\* Every shape of tree, tasks ending at any time, main included.
CONSTANTS
  MAX_TASKS = 4
  CONTEXT_MAX_CYCLES = 2
  Address <- NoAddress
  Returners <- AnyTask
  OrphanReturns = TRUE
  NULL = NULL
SPECIFICATION Spec
INVARIANTS TypeOK TreeConsistent WalkFollowsTree OneActiveTask OneSliceARound
PROPERTY SkipsBoundedByReturns
