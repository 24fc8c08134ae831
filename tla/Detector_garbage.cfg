SPECIFICATION DtSpec
CONSTANTS
  Sources = {1, 2}
  Destinations = {8, 9}
  list_policy <- TwoPolicies
  ROWS = 2
  Garbage = {2}
  INTERVAL = 1
  Word = 10
  MaxPackets = 2
INVARIANTS
  ReportsAreTrue
CHECK_DEADLOCK FALSE
