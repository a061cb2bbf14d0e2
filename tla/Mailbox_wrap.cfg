SPECIFICATION FairSpec
CONSTANTS
  Responses = {"large", "exception"}
  Whole = {TRUE, FALSE}
  SameFrame = TRUE
  Lossy = {"write", "end", "header", "data", "repeat"}
  MaxLosses = 1
  MaxRequests = 8
  Abandon = {2}
INVARIANTS ServedOnce
PROPERTIES RequestsComplete
