CONSTANTS
  Payloads <- MCPayloads
  max_udp_payload = 2
  Burst = 2
  Duration = 3
  SilenceLimit = 1
  MaxHandled = 2
  MaxCopies = 1
  MaxTime = 4
SPECIFICATION LiveSpec
INVARIANTS
  TypeOK
  MeasuredWasSent
  SilenceReported
PROPERTIES
  QuietStaysQuiet
  ServerReturns
  DownloadReturns
