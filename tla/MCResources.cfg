SPECIFICATION Spec
CONSTANTS
  Streams = {c1, c2}
  Fds = {h1, h2}
  Bufsiz = 2
  MaxBytes = 3
  Newlines = {2}
  Cells = {c1, c2, c3}
  Handles = {h1, h2, h3}
  Contents <- MCContents
  Parser <- MCParser
  Depth = 3
  Statements = {c1, c2}
  Cursors = {h1, h2, h3}
  MaxColumns = 2
  Associations = {p1, p2}
  Connections = {p1, p2}
  MaxRows = 2
  Library1 = Library1
  Library2 = Library2
  Library3 = Library3
  Reader1 = Reader1
  None = None
INVARIANTS
  SentInOrder
  ReceivedExactly
  OwnsDescriptor
  OneCellPerHandle
  RequiredIsLoaded
  CursorsOwned
  ListsAgree
  OwnersKept
  ConnectionSound
SYMMETRY Symmetric
CHECK_DEADLOCK FALSE
