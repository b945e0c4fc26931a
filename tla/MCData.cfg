INIT MCInit
NEXT MCNext
CONSTANTS
  NIL = nil
  HeapSize = 3
  NRegs = 1
  MaxLocals = 2
  Space = 32
  PageSize = 2
  Files <- Images
  Linked = 8
  MaxUnknown = 1
  MaxDim = 2
  LongBytes = 2
  Values <- Stored
  Pieces <- Prints
  Records <- InFile
  TkBuffer = 7
INVARIANTS
  ModuleLoaded
  CopyInvisible
  ReadBack
  SavedBack
  StringsSound
  ListsAsDefined
  HashAgrees
  Decoded
  ArgumentsPassed
CHECK_DEADLOCK FALSE
