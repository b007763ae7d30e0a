\* Programs whose tasks end only after the tasks they started, and whose main
\* never executes ASYNC_RETURN.
CONSTANTS
  MAX_TASKS = 3
  CONTEXT_MAX_CYCLES = 2
  Address <- TwoAddresses
  Returners <- Children
  OrphanReturns = FALSE
  NULL = NULL
SPECIFICATION FairSpec
INVARIANT NeverUndefined
PROPERTIES IndependentTasks EveryTaskRuns
