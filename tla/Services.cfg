SPECIFICATION ServicesSpec
CONSTANTS
  Scans = {"s1", "s2"}
  NoScan = NoScan
  Handlers = {"h1", "h2"}
  NoTuner = NoTuner
  Readers = {"r"}
  Setups <- AllSetups
  MaxFound = 1
  Keys = {k1, k2}
  NoKey = NoKey
  Requests = {r1, r2, r3}
  MaxRows = 1
  Conditions = {"age", "error", "crash"}
  Audits = {"x1", "x2"}
  Auditors = {sql, xss}
  Meeting = {xss}
  Loads <- AllLoads
  MaxFailures = 2
  Static = static
  Attempts = {a1, a2}
  NoCommit = NoCommit
  Mishaps = {"error", "delete", "crash"}
  Jobs = {"j1", "j2", "j3"}
  NoJob = NoJob
  MaxHead = 2
  Situations <- AllSituations
  MaxFindings = 1
  MaxGathered = 2
  Scanners = 2
INVARIANTS ServicesTypeOK PersistedAsClaimed ClaimsAreTrue AuditorsAreHeard PullsAreAccounted GateIsTrue RecommendedOnEvidence
PROPERTIES RowsAreGuarded TuningIsOwned KeepsPromise ServicesSettle
CHECK_DEADLOCK FALSE
