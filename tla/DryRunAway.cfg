SPECIFICATION SettingsSpec
CONSTANTS
  Inherit = Inherit
  AskedScans = {s1}
  Platforms <- AllPlatforms
  Updates <- AllUpdates
  MaxEdits = 2
INVARIANT DryRunFilesNothing
CHECK_DEADLOCK FALSE
