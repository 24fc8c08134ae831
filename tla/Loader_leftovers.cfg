SPECIFICATION LdSpec
CONSTANTS
  maps <- TheMaps
  map_name = "xdp_stats_map"
  Opens <- TheUsers
  MaxLoads = 3
  MaxFaults = 1
INVARIANTS
  LeftoversAreCleaned
CHECK_DEADLOCK FALSE
