SPECIFICATION FairMachineSpecFromThere
CONSTANTS
  MAX_TASKS = 2
  CONTEXT_MAX_CYCLES = 1
  Address <- NoAddress
  Returners <- Children
  OrphanReturns = TRUE
  TASK_MESSAGE_QUEUE_SIZE = 2
  Queue = {q1, q2, q3}
  Message = {m1, m2}
  NULL = NULL
  Wild = Wild
  Leftover <- Zeroed
INVARIANTS
  OneInboxPerTask
  WaitIsBounded
PROPERTY
  EveryInboxEmptied
