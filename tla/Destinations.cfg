SPECIFICATION Spec
CONSTANTS
  MaxLocations = 2
  Legacy = {0}
  EarlyRequests = FALSE
  EditsAnytime = FALSE
  MaxRequests = 3
  MaxEdits = 1
  MaxMishaps = 1
INVARIANTS TypeOK BookKept NoDanglingShortcut
