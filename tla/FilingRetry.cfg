SPECIFICATION Spec
CONSTANTS
  Procs = {"p1", "p2", "p3"}
  Workers = {"w1", "w2", "w3"}
  ProcOf <- OwnProcess
  NoProc = NoProc
  NoWorker = NoWorker
  MaxIssues = 3
  Faults = {"create", "reply", "comment", "claim", "link", "write", "crash", "slow", "backlog", "close"}
INVARIANTS OneOpenIssue
CHECK_DEADLOCK FALSE
