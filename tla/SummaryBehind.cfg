SPECIFICATION GateSpec
CONSTANTS
  Jobs = {j1, j2}
  NoJob = NoJob
  MaxHead = 2
  Situations <- TwoHeads
INVARIANT SummaryIsLatest
CHECK_DEADLOCK FALSE
