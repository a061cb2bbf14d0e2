SPECIFICATION Spec
CONSTANTS
  Responses = {"small", "large", "full"}
  Whole = {TRUE, FALSE}
  SameFrame = FALSE
  Lossy = {"write", "end", "header", "data", "repeat"}
  MaxLosses = 3
  MaxRequests = 3
  Abandon = {}
INVARIANTS WriteDelivers
PROPERTIES ServiceSpec
