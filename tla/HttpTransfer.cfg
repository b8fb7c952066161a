CONSTANTS
  Payloads <- MCPayloads
  chunk_size = 2
  Duration = 3
  RequestTimeout = 2
  Pause = 1
  MaxTurns = 3
SPECIFICATION LiveSpec
INVARIANTS
  TypeOK
  MeasuredIsTrue
  OverrunBounded
PROPERTIES
  HttpTestReturns
