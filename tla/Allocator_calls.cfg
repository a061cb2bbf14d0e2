SPECIFICATION FairSpec
CONSTANTS
  a = a
  b = b
  c = c
  d = d
  j = j
  k = k
  x = x
  y = y
  Calls = {a, b, c, d}
  Slaves = {j, k}
  Absent = Absent
  None = None
  Size <- Small
  Config <- Conflicting
  Uses <- ConfigUses
  Mapped <- OneBusy
  ThreadOf <- OwnThreads
  Abandon = {a, b, c, d}
  Topics = 2
  U32Max = 6
INVARIANTS RegionsDisjoint OneConfig NobodyRefused
PROPERTIES TakenIsReserved CallsEnd
CHECK_DEADLOCK FALSE
