SPECIFICATION Spec
CONSTANTS
  Urls = {1, 2}
  Unset = Unset
  Spoilt = Spoilt
  MaxEdits = 2
  MaxFaults = 0
  MaxCrashes = 0
INVARIANT AlwaysApplied
