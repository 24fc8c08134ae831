SPECIFICATION ToolsSpec
CONSTANTS
  Sources = {1, 2}
  Destinations = {8, 9}
  list_policy <- TwoPolicies
  ROWS = 2
  Garbage = {1}
  INTERVAL = 2
  Word = 10
  MaxPackets = 4
  maps <- TheMaps
  map_name = "xdp_stats_map"
  Opens <- TheUsers
  MaxLoads = 4
  MaxFaults = 2
  mmap_size = 8
  SampleSize = 3
  LostSize = 2
  RingWord = 16
  MaxSamples = 6
  MaxMallocs = 1
  Possible = 3
  max_entries = 2
  MaxSetupFaults = 1
  MaxArgs = 3
  POLICIES = 2
  LIST_MAX = 2
  Numbers = {1}
  Addresses = {7, 8, 9}
  MaxTokens = 6
  Actions = 2
  StatsWord = 8
  StackGarbage = {5}
  MaxTime = 4
  MaxCounted = 2
  MaxFailures = 1
INVARIANTS
  WindowIsJudged
  PinsServeUsers
  OneFaultMixesNothing
  RecordsAreServed
  RingsAreKept
  StartsAsAsked
  FilesAreLoaded
  RoundsAreWhole
PROPERTIES
  CountsExactly
  SuccessIsComplete
  RingIsQueue
CHECK_DEADLOCK FALSE
