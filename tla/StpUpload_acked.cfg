CONSTANTS
  Duration = 3
  LossTimeout = 1
  LossThreshold = 3
  MinWindow = 1
  InitWindow = 4
  MaxWindow = 4
  ClockModulus = 16
  MaxPacket = 4
  MaxTime = 3
  MaxDups = 0
  MaxClockSteps = 0
SPECIFICATION Spec
PROPERTY AckedWasReceivedOrLost
