SPECIFICATION Spec
CONSTANTS
  MAX_TASKS = 2
  TASK_MESSAGE_QUEUE_SIZE = 2
  Queue = {q1, q2, q3}
  Message = {m1, m2, m3}
  NULL = NULL
  Wild = Wild
  Leftover <- Anything
  Enders <- Children
SYMMETRY Addresses
CONSTRAINT NotAstray
INVARIANTS
  TypeOK
  InboxLinked
  KeptOrRefused
  SearchesSucceed
PROPERTY
  DeliversInOrder
