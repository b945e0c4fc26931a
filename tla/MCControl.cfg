SPECIFICATION Spec
CONSTANTS
  errobj = errobj
  all = all
  loop = loop
  Tags <- MCTags
  Modes = {"stdin", "buffer"}
  StackSize = 4
INVARIANTS
  CatchChain
  NeverFatal
  NointerruptRestored
PROPERTY Implements
