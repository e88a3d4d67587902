SPECIFICATION Spec
CONSTANTS
  Commands <- TwoCommands
  MaxCommands = 2
  BUFFERSIZE = 5
CHECK_DEADLOCK FALSE
INVARIANTS
  CommandsPerformed
