SPECIFICATION Spec
CONSTANTS
  B = 4
  NULL = NULL
  BUFFER_SIZE <- ReadAtOnce
  Pieces <- AroundTheHeader
  TextSizes <- OneOrTwo
  Destinations <- SomeTasks
  MAX_TASKS = 3
  TASK_MESSAGE_QUEUE_SIZE = 1
  PORTS = 3
  OPSTACK_SIZE = 4
  STACK_SIZE = 6
  SizeOf <- Sizes
  Limit = 16
  Message = {m1, m2}
  PayloadSizes <- One
INVARIANTS TypeOK UsageIsExact NothingLeaks ReceivedAsSent
