SPECIFICATION FairSpec
CONSTANTS
  Procs = {"p1", "p2"}
  Workers = {"w1", "w2", "w3"}
  ProcOf <- SharedProcess
  NoProc = NoProc
  NoWorker = NoWorker
  MaxIssues = 3
  Faults = {"overlap", "search", "comment", "write", "crash"}
INVARIANTS TypeOK ClaimExclusive NoProcessFilesTwice OneOpenMappingAtRest
PROPERTIES RecoveryRowOutlivesLinking FilingEnds
CHECK_DEADLOCK FALSE
