\* One scanner thread with up to 22 files, two with up to four.
SPECIFICATION FairSpec
CONSTANTS
  CommandLines <- AllLists
  MaxFiles = 22
  MaxWorkers = 2
  Unreadable <- OneUnreadable
  Throwing <- SomeThrowing
  SizeMax = 31
INVARIANTS
  TypeOK
  LogAccountsForClaims
  EveryFileTakenAlone
  ReportsTheTenths
PROPERTIES
  ImplementsGreedyVisit
  Terminates
