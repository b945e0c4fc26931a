SPECIFICATION Spec
CONSTANTS
  MaxKeys = 2
  MaxThreads = 2
INVARIANTS
  InputExact
  OneButForHoles
PROPERTIES
  LineRead
  FreshServed
CHECK_DEADLOCK FALSE
CONSTRAINT Uncrossed
