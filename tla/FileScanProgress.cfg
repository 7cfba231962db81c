\* One scanner thread: the first progress line is never printed.
SPECIFICATION Spec
CONSTANTS
  CommandLines <- AloneLists
  MaxFiles = 22
  MaxWorkers = 1
  Unreadable <- OneUnreadable
  Throwing <- NoFile
  SizeMax = 31
INVARIANTS
  ReportsEveryTenth
