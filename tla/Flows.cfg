SPECIFICATION FlowsSpec
CONSTANTS
  Sizes = {2, 5, 7}
  Capacity = 4
  MaxDatagram = 6
  FdLimit = 2
  MaxFrames = 3
  Commands <- SomeCommands
  MaxCommands = 3
  BUFFERSIZE = 5
  DriveSpeeds = {51}
  Cells = 2
  MaxMoves = 2
  MaxTexts = 3
  MaxBlobs = 2
  image_height = 5
  MCUs_per_row = 2
  DCTSIZE = 2
  HeaderSizes = {1}
  MCUSizes = {0, 3}
  BufSizes = {1, 3, 4, 5, 7, 12, 23, 24}
CHECK_DEADLOCK FALSE
INVARIANTS
  OnceAndWhole
PROPERTIES
  VideoArrives
  CommandsArrive
  ConsoleDelivers
  CompressionEnds
