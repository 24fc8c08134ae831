SPECIFICATION HashSpec
CONSTANTS
  HashBits = 3
  HashOf <- TwoKeys
  HashValues = {1, 2}
  MaxEntries = 4
  MaxHashFaults = 0
INVARIANTS
  FindsLastInserted
CHECK_DEADLOCK FALSE
