CONSTANTS
  Conns = {c1, c2, c3}
  max_connections = 2
  MaxAttempts = 1
SPECIFICATION LiveSpec
INVARIANTS
  TypeOK
  ActiveAccounted
PROPERTIES
  SignalledHandlersEnd
  ShutdownReturns
  ImplementsAdmission
