SPECIFICATION Spec
CONSTANTS
  Repos = {r1}
  Quick = r1
  Tasks = {t1, t2}
  NoRepo = NoRepo
  Period <- Mixed
  MaxConcurrent = 1
  Slots = 2
  MaxTime = 3
  Conditions = {"other"}
PROPERTIES NoScanBesideStartedRow
