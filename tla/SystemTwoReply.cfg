SPECIFICATION SysSpec
CONSTANTS
  MIN_SPEED2 = 4
  ABS_MAX_SPEED2 = 16
  ABS_MAX_ACCEL = 3
  DEF_MAX_SPEED2 = 12
  DEF_ACCEL = 2
  DEF_DECEL = 3
  PIO_F_SYS = 60
  TxDepth = 1
  INT_MIN <- MCIntMin
  NaN = NaN
  SpeedInputs <- OneSpeed
  AccelInputs <- NoInput
  StepInputs <- OneMove
  usb = usb
  telnet = telnet
  Clients <- TwoShells
  MboxDepth = 4
  StatusFields <- OneField
  FloatBits = 2
  Denormal = 1
  MaxCommands = 2
PROPERTIES
  OwnReply
