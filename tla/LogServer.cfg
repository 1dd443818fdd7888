SPECIFICATION Spec
CONSTANTS
  Urls = {1, 2}
  Unset = Unset
  Spoilt = Spoilt
  MaxEdits = 2
  MaxFaults = 1
  MaxCrashes = 1
INVARIANTS TypeOK ConfigWhole Applied
PROPERTY AtomicSpec
