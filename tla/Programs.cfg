SPECIFICATION ProgramsSpec
CONSTANTS
  NUM_SERVOS = 3
  ssmap <- SomeMap
  Earlier <- SomeEarlier
  MaxPresses = 2
  ShieldPins = {1, 12}
  ShieldPositions = {77, 180, 4090}
  Bounds <- SomeBounds
  Values = {0, 5000}
  IntRange = 32
  LongRange = 256
  Scale = 8
  Targets = {2, 15}
  Speeds = {1, 4}
  FirstTimes = {1, 250}
  MaxGap = 3
  Rests = {248}
  MaxMovements = 2
  MaxTurns = 5
  Pages = 2
  Rows = 2
  StatusBits = 1
  Chips = {"EPROM", "EEPROM"}
  MaxOps = 2
  MaxFaults = 2
  rows_in_array = 4
  maxaccess = 2
  MinHeights = {1, 2}
  RowValues = {1}
  ALIGN = 2
  HDR = 2
  MAX_ALLOC_CHUNK = 12
  first_pool_slop <- SomeSlop
  extra_pool_slop <- ExtraSlop
  MIN_SLOP = 1
  CONTROL = 3
  ObjectSizes = {1, 5, 11}
  Widths = {3}
  Heights = {2, 4}
  MaxAllocs = 4
  blocks = 2
  chroma_height = 3
  chroma_width = 5
  Pictures <- SomePictures
  U = 100
  V = 100
  Tolerances = {10, 15, 20}
  MaxSearches = 2
  MaxPast = 1
CHECK_DEADLOCK FALSE
INVARIANTS
  OffsetsKept
  ChipTellsTruth
  ServosStayRight
  SearchRight
  MemoryHolds
  CodesReadBack
PROPERTIES
  MovesOn
  ImplementsArray
