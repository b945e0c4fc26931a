SPECIFICATION FairSpec
CONSTANTS
  errobj = errobj
  all = all
  loop = loop
  Tags <- MCTags
  Modes = {"stdin", "ignore", "print", "buffer"}
  StackSize = 3
INVARIANT ReplReturnString
PROPERTY InterruptServed
