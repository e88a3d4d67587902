SPECIFICATION Spec
CONSTANTS
  Fields = 2
  LogLines <- SomeLogLines
  MaxLines = 4
  MaxMsgs = 2
  QueueBound = 2
  MaxLosses = 2
INVARIANTS
  ReceptionRight
  CommandsInOrder
PROPERTIES
  LinkFollowsRadio
