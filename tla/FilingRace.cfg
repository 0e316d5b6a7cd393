SPECIFICATION Spec
CONSTANTS
  Procs = {"p1", "p2"}
  Workers = {"w1", "w2"}
  ProcOf <- OwnProcess
  NoProc = NoProc
  NoWorker = NoWorker
  MaxIssues = 2
  Faults = {"overlap"}
INVARIANTS OneOpenIssue
