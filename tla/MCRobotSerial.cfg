SPECIFICATION Spec
CONSTANTS
  PayloadLen = 3
  States <- ButtonStates
  Aims <- SmallAims
  Noise <- SomeNoise
  RxSize = 5
  MaxFaults = 5
  MaxDamaged = 2
  MaxAims = 1
INVARIANTS
  TypeOK
  NoGhostState
PROPERTIES
  InOrder
  Resynchronises
CHECK_DEADLOCK FALSE
