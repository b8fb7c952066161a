CONSTANTS
  Tasks = {t1, t2}
  Main = Main
  None = None
  Rtts <- MCRtts
  Sizes <- MCSizes
  Duration = 4
  Pause = 1
  ProbeTimeout = 1
  MaxTime = 4
  MaxMade = 2
  MaxProbes = 4
SPECIFICATION LiveSpec
INVARIANTS
  TypeOK
  ProbesAreSpaced
  ReportAgrees
PROPERTIES
  ImplementsSink
  TestReturns
