SPECIFICATION Spec
CONSTANTS
  Programs <- Source
  MAX_TASKS = 1
  OPSTACK_SIZE = 12
  STACK_SIZE = 40
  FreshBytes <- Unset
  Operands = 8
  Calls = 4
INVARIANTS
  TypeOK
  LeftoversAreRefusals
PROPERTY
  CodeRunsSource
