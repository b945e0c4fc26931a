SPECIFICATION Spec
CONSTANTS
  a = a
  b = b
  c = c
  NIL = NIL
  x = x
  y = y
  Names = {a, b, c}
  Keys = {x, y}
  Values = {1, 2}
  Dims = {2}
  NameHash <- MCNameHash
  Index <- MCIndex
  MaxNew = 3
  Nesting = 4
PROPERTY OneSymbol
