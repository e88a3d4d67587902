SPECIFICATION Spec
CONSTANTS
  KeepTime = 2
  MaxTime = 7
INVARIANTS
  TypeOK
  InUseIsOpen
  HeldHasRelease
PROPERTIES
  KeptLongEnough
  ImplementsLease
CHECK_DEADLOCK FALSE
