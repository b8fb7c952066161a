CONSTANTS
  Duration = 4
  LossTimeout = 1
  LossThreshold = 3
  MinWindow = 1
  InitWindow = 2
  MaxWindow = 2
  ClockModulus = 16
  MaxPacket = 3
  MaxTime = 4
  MaxDups = 0
  MaxClockSteps = 0
SPECIFICATION LiveSpec
PROPERTY TimeoutDetectsLoss
