SPECIFICATION Spec
CONSTANTS
  MAX_TASKS = 1
  TASK_MESSAGE_QUEUE_SIZE = 2
  Queue = {q1, q2}
  Message = {m1, m2}
  NULL = NULL
  Wild = Wild
  Leftover <- Zeroed
  Enders <- Children
INVARIANT
  NeverUndefined
