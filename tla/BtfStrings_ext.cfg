SPECIFICATION BsSpec
CONSTANTS
  StrSections <- SomeStrings
  StrOffsets = {0, 1, 3, 4}
INVARIANTS
  ExtIsHonored
CHECK_DEADLOCK FALSE
