CONSTANTS
  Sizes = {1}
  DefaultSizes = {1, 2}
  Files <- MCFiles
  extension <- MCExtension
  NoFile = NoFile
  MaxCommands = 3
SPECIFICATION Spec
INVARIANTS
  TypeOK
  ReportIsWhole
  ReadBack
PROPERTIES
  OldReportSurvives
CHECK_DEADLOCK FALSE
