SPECIFICATION Spec
CONSTANTS
  Joysticks <- Walking
  AimSteps <- NoAim
  MoveSpeed0 = 2
  TurnSpeed0 = 1
  SpeedStep = 1
  SplitExtra = 1
  TurretRange = 1
  TiltRange = 1
  SpeedBound = 2
PROPERTY StepTakesItsTime
