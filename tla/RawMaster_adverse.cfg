SPECIFICATION Spec
CONSTANTS
  a = a
  b = b
  c = c
  Nobody = Nobody
  Users = {a, b}
  Groups = {b}
  Abandon = {a, b}
  NumTokens = 2
  Size <- SmallSize
  MaxFrame <- SharedFrame
  Workload <- TwoForB
  U16Max = 65535
  WorkingCounts = {1}
  Timely = FALSE
  Faulty = TRUE
INVARIANTS
  TokensOwned
  SendLayout
PROPERTIES
  FrameFrozen
CHECK_DEADLOCK FALSE
