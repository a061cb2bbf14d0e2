SPECIFICATION FairSpec
CONSTANTS
  Tasks = {1, 2}
  NumSlaves = 2
  Values = {1, 2}
  States <- InitAndPre
  None = None
  Families <- EachKind
  MaxCalls <- Enough
  MaxLosses = 1
  Width = 32
  Wide = 64
  MaxSlaves = 4
  Links = {1, 3}
  Clocks = {0, 29}
  Waits = {0, 3}
  Div = 4
  Far = 14
  Unplugged = Unplugged
INVARIANTS OneOwner ReachesOwn BookExact ClockTopology ClockDelays
PROPERTIES SwitchReachesAll ClockAvailable
CHECK_DEADLOCK FALSE
