SPECIFICATION Spec
CONSTANTS
  Cpus = {1}
  Sources = {1}
  Destinations = {9}
  Listable = {}
  white_list = {}
  list_policy <- OnePolicy
  Phantoms = {}
  INTERVAL = 1
  LOCK_TIME = 2
  IP_DYNAMIC = 3
  BLACK_MAX = 4
  RING_CAP = 2
  QUEUE_MAX = 4
  FD_LIMIT = 4
  Word = 100
  MaxClock = 5
  Wraps = FALSE
  MaxGap = 1
  MaxBusy = 1
  MaxRate = 2
  MaxCrashes = 0
  AllocFails = FALSE
PROPERTIES
  LockServed
CHECK_DEADLOCK FALSE
