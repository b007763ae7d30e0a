SPECIFICATION Spec
CONSTANTS
  Address <- Addresses
  Handler = 1
  Word <- Values
  STACK_SIZE = 5
  AllocSizes <- OneWord
INVARIANTS
  TypeOK
  FramesLinked
PROPERTY
  CallsAreNested
