SPECIFICATION Spec
CONSTANTS
  MIN_SPEED2 = 4
  ABS_MAX_SPEED2 = 10
  ABS_MAX_ACCEL = 3
  DEF_MAX_SPEED2 = 9
  DEF_ACCEL = 2
  DEF_DECEL = 3
  PIO_F_SYS = 100
  TxDepth = 2
  INT_MIN <- MCIntMin
  NaN = NaN
  SpeedInputs <- SomeSpeeds
  AccelInputs <- SomeAccels
  StepInputs <- SomeMoves
INVARIANTS
  TypeOK
  StepAccounting
  RateLimits
  BrakeBound
  StopBound
PROPERTIES
  MoveTerminates
  Settles
