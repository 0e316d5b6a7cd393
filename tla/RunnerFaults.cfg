SPECIFICATION Spec
CONSTANTS
  Jobs = {"j1", "j2"}
  KindOf <- WithTyped
  Workers = {w1, w2}
  NoJob = NoJob
  MaxJobs = 1
  Conditions = {"overlap", "named", "refuse", "lapse", "cancel", "crash", "restart", "store"}
INVARIANTS OneClaimant WithinCapacity CoreOrRunner AnalysisIsAnswered
PROPERTIES AnswersStay
SYMMETRY Hands
