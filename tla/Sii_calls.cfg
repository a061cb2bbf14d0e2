SPECIFICATION FairSpec
CONSTANTS
  Devices <- SomeDevices
  Requests <- SomeRequests
  ByteMask = 15
  Top = 63
  Registers = 8
  GeneralSize = 6
  OverflowChecks = TRUE
  MaxFailures = 1
INVARIANTS OutcomesExact RefusedForCause
PROPERTIES WritePrefix CallsEnd
CHECK_DEADLOCK FALSE
