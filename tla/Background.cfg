SPECIFICATION BackgroundSpec
CONSTANTS
  Repos = {"r1", "r2"}
  Tasks = {"t1", "t2"}
  NoRepo = NoRepo
  Quick = "r1"
  Period <- Mixed
  MaxConcurrent = 1
  Slots = 1
  MaxTime = 3
  Conditions = {"other", "abandon", "unsched", "restart"}
  Findings = {f}
  NoFinding = NoFinding
  Passes = {p, q}
  NoPass = NoPass
  Observations <- AllObservations
  MinConfidence = 50
  MaxCreated = 1
  Days = {0, 14, 30}
  MaxPasses = 3
  Labellers = {"v", "p"}
  StateOf <- OneStateEach
  Filer = "f"
  MaxDrops = 1
  MaxRelabels = 1
  Callers = {"d1", "d2"}
  Refresher = Refresher
  NoCaller = NoCaller
  Switches = {w1, w2}
  NoSwitches = NoSwitches
  MaxSaves = 1
  RuleFindings = {"f"}
  Recomputes = {"c1", "c2"}
  Operator = "op"
  MinDispositions = 2
  MinAdvice = 1
  MaxRecs = 2
  Courses <- AllCourses
INVARIANTS BackgroundTypeOK LimiterBounds OverlapsAreCrossings AgedOnce LabelsAreProven ToolsAreTrue LearningIsAccountable
PROPERTIES BackgroundSettles
CHECK_DEADLOCK FALSE
