SPECIFICATION Spec
CONSTANTS
  MaxStates = 3
  MaxBlobs = 2
INVARIANTS
  TypeOK
PROPERTIES
  ToggleOncePerState
  DiesOnlyAtFirstPost
  AimOncePerBlob
  ImplementsMailbox
CHECK_DEADLOCK FALSE
