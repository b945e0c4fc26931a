SPECIFICATION Spec
CONSTANTS
  MaxKeys = 1
  MaxThreads = 3
INVARIANTS
  OneInterpreter
CHECK_DEADLOCK FALSE
