SPECIFICATION Spec
CONSTANTS
  Cpus = {1, 2}
  Packets <- SomePackets
  MaxPackets = 3
INVARIANTS
  EveryPacketOnce
  SamplesArePasses
  BlockLeaksLittle
  TotalsAreReal
CHECK_DEADLOCK FALSE
