SPECIFICATION DeferredSpec
CONSTANTS
  Jobs = {"j1", "j2", "j3"}
  KindOf <- FullScans
  Workers = {"w1", "w2"}
  NoJob = NoJob
  MaxJobs = 1
  Conditions = {"lapse", "cancel", "crash", "store"}
  Agents = {"s1", "s2"}
  Roles <- TwoScans
  Settings = {"require_scanner_success", "close_issues", "close_verified"}
  Circumstances = {}
  MaxRows = 1
  MaxFaults = 2
  Inherit = Inherit
  AskedScans = {s1}
  Platforms <- AllPlatforms
  Updates <- AllUpdates
  MaxEdits = 2
  Findings = {"f", "g"}
  Rules = {"one", "all"}
  RepoRules = {"one"}
  Covers <- OneOrBoth
  FilteringScans = {"s"}
  Operators = {"o", "p"}
  MaxErrors = 1
  Subjects <- AllSubjects
  Planners = {"g1", "g2"}
  PullRequests = {a1}
  NoPlan = NoPlan
  MaxChanges = 1
  RawFindings <- SomeFindings
  Courses <- SomeCourses
  Confidences <- SomeConfidences
INVARIANTS DeferredTypeOK ScansObeySettings SuppressionsAreTold PlansAreAccounted FindingsAreRouted
PROPERTIES DeferredSettles
CHECK_DEADLOCK FALSE
