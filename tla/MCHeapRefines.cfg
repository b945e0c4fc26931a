SPECIFICATION Spec
CONSTANTS
  NIL = NIL
  Nothing = NIL
  NHeaps = 3
  HeapSize = 1
  Reserve = 2
  HookAllocs = 1
  CarRefs <- MCCarRefs
  CdrRefs <- MCCdrRefsByOne
  Stale <- MCStaleByOne
  MaxWords = 2
  MaxOpen = 1
PROPERTIES
  Implements
