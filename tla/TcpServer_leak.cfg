CONSTANTS
  Conns = {c1}
  max_connections = 2
  MaxAttempts = 2
SPECIFICATION Spec
INVARIANT NoneActiveWhenIdle
