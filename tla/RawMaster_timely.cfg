SPECIFICATION FairSpec
CONSTANTS
  a = a
  b = b
  c = c
  Nobody = Nobody
  Users = {a, b, c}
  Groups = {b}
  Abandon = {}
  NumTokens = 2
  Size <- MixedSize
  MaxFrame <- TwoPdus
  Workload <- OneEach
  U16Max = 65535
  WorkingCounts = {1}
  Timely = TRUE
  Faulty = FALSE
INVARIANTS
  ReadyHasFrame
  OwnAnswer
  SentOnce
  ReceptionSurvives
PROPERTIES
  WorkloadCompletes
  ExchangeSpec
