SPECIFICATION Spec
CONSTANTS
  MIN_SPEED2 = 4
  ABS_MAX_SPEED2 = 16
  ABS_MAX_ACCEL = 3
  DEF_MAX_SPEED2 = 12
  DEF_ACCEL = 2
  DEF_DECEL = 3
  PIO_F_SYS = 60
  TxDepth = 4
  INT_MIN <- MCIntMin
  NaN = NaN
  SpeedInputs <- NoSettings
  AccelInputs <- NoSettings
  StepInputs <- TwoMoves
PROPERTIES
  PulsesInMoveDirection
