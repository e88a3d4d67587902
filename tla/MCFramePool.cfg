SPECIFICATION Spec
CONSTANT NUMBER_OF_BUFFERS = 3
INVARIANTS
  TypeOK
  NoBufferShort
  FrameExclusive
PROPERTIES
  ConvertedOnce
  PreviewFlows
