CONSTANTS
  CommandTimeout = 4
  IdleCheck = 2
  ProgressCheck = 3
  connection_timeout = 3
  ReadTimeouts <- MCReadTimeouts
  max_bytes = 3
  buffer_size = 2
  SocketBuffer = 3
  ClientBytes = 6
SPECIFICATION LiveSpec
INVARIANTS
  TypeOK
  LimitOvershoot
  CountedWasMoved
  IdleBound
  ReadTimeoutNeverFires
PROPERTIES
  UploadEnds
