SPECIFICATION Spec
CONSTANTS
  Levels = {info, error}
  Error = error
  Capacity = 3
  Wrap = 16
  MaxLogs = 7
INVARIANTS
  TypeOK
  ReportInOrder
  ReportIsFull
PROPERTIES
  KeepsTheLastEntries
