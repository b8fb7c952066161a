CONSTANTS
  Duration = 3
  LossTimeout = 1
  LossThreshold = 1
  MinWindow = 1
  InitWindow = 2
  MaxWindow = 2
  ClockModulus = 16
  MaxPacket = 3
  MaxTime = 3
  MaxDups = 1
  MaxClockSteps = 1
SPECIFICATION LiveSpec
INVARIANTS
  TypeOK
  Conservation
  AckedNumberWasReceived
  OutstandingBounded
PROPERTIES
  UploadTerminates
