SPECIFICATION Spec
CONSTANTS
  Joysticks <- SomeJoysticks
  AimSteps <- OneAim
  MoveSpeed0 = 2
  TurnSpeed0 = 1
  SpeedStep = 1
  SplitExtra = 1
  TurretRange = 1
  TiltRange = 1
  SpeedBound = 2
INVARIANT TypeOK
PROPERTIES
  GaitInPhase
  NoMovementMissed
  ResetCompletes
  HandlerReturns
