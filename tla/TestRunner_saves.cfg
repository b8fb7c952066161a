CONSTANTS
  Sizes = {1}
  DefaultSizes = {1, 2}
  Files <- MCFiles
  extension <- MCExtension
  NoFile = NoFile
  MaxCommands = 3
SPECIFICATION Spec
INVARIANT ExportSaves
CHECK_DEADLOCK FALSE
