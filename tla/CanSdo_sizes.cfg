SPECIFICATION Spec
CONSTANTS
  a = a
  b = b
  c = c
  d = d
  x = x
  y = y
  Nobody = Nobody
  Calls = {a, b, c, d}
  Kind <- Kinds
  Object <- About
  Size <- LargerSizes
  Lengths <- AllLengths
  WriteMax = 128
  ReadMax = 128
  Abandon = {b}
  MaxUpdates = 1
  MaxStrays = 1
INVARIANTS AnySizeServed
CHECK_DEADLOCK FALSE
