SPECIFICATION Spec
CONSTANTS
  Cpus = {1, 2}
  Sources = {1}
  Destinations = {9}
  Listable = {1}
  white_list = {}
  list_policy <- TwoPolicies
  Phantoms = {3}
  INTERVAL = 1
  LOCK_TIME = 1
  IP_DYNAMIC = 2
  BLACK_MAX = 4
  RING_CAP = 2
  QUEUE_MAX = 4
  FD_LIMIT = 2
  Word = 100
  MaxClock = 3
  Wraps = FALSE
  MaxGap = 1
  MaxBusy = 0
  MaxRate = 2
  MaxCrashes = 1
  AllocFails = TRUE
PROPERTIES
  UntracedStays
  WakeUpsAreKept
CHECK_DEADLOCK FALSE
