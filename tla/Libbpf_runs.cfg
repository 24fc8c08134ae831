SPECIFICATION LibSpec
CONSTANTS
  HashBits = 3
  HashOf <- TwoKeys
  HashValues = {1, 2}
  MaxEntries = 4
  MaxHashFaults = 1
  Interfaces <- TwoInterfaces
  IfIndex = 2
  Ids = {5}
  MaxCalls = 2
  MaxSeconds = 2
  MaxNlFaults = 1
  DefSize = 2
  MaxDefSize = 4
  MaxSymbols = 3
  MapFields <- SomeFields
  MaxFields = 3
  SectionLists <- SomeSectionLists
  Relocations <- SomeRelocations
  MaxOpenFaults = 1
  ObjMaps <- ThreeMaps
  ObjPrograms <- SomePrograms
  MaxLoadFaults = 1
  LogSize = 1
  KernelLogs = {1, 7}
  IntMax = 7
  MaxLog = 5
  MaxSignals = 1
  MaxPlFaults = 1
  PinMaps = 2
  Instances <- TwoAndOne
  AutoPinned = {2}
  PinDirs = {"a", "auto"}
  MaxPinCalls = 3
  MaxPinFaults = 2
  RingSize = 2
  XskWord = 8
  MaxDescs = 9
  XskThreads = {1, 2}
  XskSlots = {1, 2}
  XskKinds = {"both", "tx"}
  MaxXskCalls = 4
  MaxXskFaults = 1
  BtfSections <- SomeSections
  TypeNames = {"void", "a", "f"}
  UINT32_MAX = 15
  MAX_RESOLVE_DEPTH = 3
  TypesGrow = 2
  MaxBtFaults = 1
  ExtParts <- SomeParts
  MinRecSize = 2
  MainInsns = 4
  StrSections <- SomeStrings
  StrOffsets = {0, 1, 3}
  Btfs <- SomeBtfs
  DumpBtfs <- SomeDumps
  QueueStep = 2
  MaxName = 6
  MaxDumps = 3
  MaxDumpFaults = 1
  MaxAllocs = 13
  CoreObjects <- SomeObjects
  SpecMaxLen = 5
  MaxCoreFaults = 1
  LinkThreads = {1, 2}
  LinkFds = {3, 4}
  LinkProgs <- LoadedAndNot
  LinkWhats = {"x"}
  MaxLinkFaults = 1
  MaxLinkCalls = 3
  InfoPrograms <- SomeInfo
  InfoArrays <- ArrayOrder
  InfoAddresses = {100, 300}
  InfoAlign = 2
  AddressSpace = 1024
  MaxInfoFaults = 1
INVARIANTS
  AnswersAreRight
  DefinitionsAreRead
  OpensWholeOrNot
  LoadsWholeOrNot
  PinsAreKept
  SocketsShareSafely
  TypesAreRead
  RecordsAreFit
  StringsAreDeduplicated
  TypesAreDeduplicated
  PrintsC
  FieldsAreFound
  LinksOwnTheirEvents
  LinesAreFound
PROPERTIES
  HashmapIsMap
  LoadEnds
  RingServes
CHECK_DEADLOCK FALSE
