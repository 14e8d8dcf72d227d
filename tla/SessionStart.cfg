\* Every kind of daemon; three sessions, nine download requests, a limit of one.
SPECIFICATION StartSpec
CONSTANTS
  MaxCnt = 1
  MaxRequests = 9
  MaxStarts = 3
  Confs <- SomeConfs
INVARIANTS
  StartTypeOK
  DownloadBudget
  CommandDecides
PROPERTIES
  RefusedOnlyWhenSpent
