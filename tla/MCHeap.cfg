SPECIFICATION Spec
CONSTANTS
  NIL = NIL
  Nothing = NIL
  NHeaps = 2
  HeapSize = 2
  Reserve = 2
  HookAllocs = 2
  CarRefs <- MCCarRefs
  CdrRefs <- MCCdrRefs
  Stale <- MCStale
  MaxWords = 2
  MaxOpen = 1
INVARIANTS
  TypeOK
  LiveIntact
  FreelistSound
  GcExact
  ResourcesHeld
  NewcellNullByHookOnly
PROPERTIES
  GcTerminates
CHECK_DEADLOCK FALSE
